--------------------------- MODULE RepoStoreProofs ---------------------------
(***************************************************************************)
(* Proofs about RepoStore for any openers, runs, migrations, rows, page    *)
(* size and numbers of attempts: the type invariant, the exclusive opens   *)
(* behind the gate, and the promise of a version stamp.                    *)
(***************************************************************************)
EXTENDS RepoStore, FiniteSetTheorems, TLAPS

USE StoreAssumption

(* The gate is held for the whole of a removal, as for the whole of an     *)
(* open, and a datastore whose version is read has just been opened.       *)
GateHeld ==
  /\ pc[Remover] = "removing" => gate = Remover
  /\ \A o \in Openers : pc[o] = "version" => clone[o] = live /\ live # 0

(* What a row is before its conversion, and that no row of a set is so.    *)
Unconverted == [calls |-> "link", chunks |-> "array"]
Converted(step, S) == \A i \in S : disk[step][i] # Unconverted[step]

(* Where a migration is behind a backfill.                                 *)
Behind ==
  [calls |-> {"callsEnd", "stamp2", "flip", "symbols", "chunks",
              "chunksRow", "chunksEnd", "stamp5"},
   chunks |-> {"chunksEnd", "stamp5"}]

(* A persisted cursor stands for converted rows, and so does a cursor in   *)
(* memory but for the rows of the page; a short page is the last one.      *)
RowsInv ==
  /\ Converted("calls", {i \in Ids : i <= disk.callsCursor})
  /\ Converted("chunks", {i \in Ids : i <= disk.chunkCursor})

MigInv(m) ==
  /\ mig[m].from >= 2 => Converted("calls", Ids)
  /\ \A step \in {"calls", "chunks"} :
       /\ mig[m].pc \in {step, RowOf[step]} =>
            Converted(step, {i \in Ids : i <= mig[m].cursor} \ mig[m].page)
       /\ mig[m].pc = RowOf[step] /\ mig[m].size < Page =>
            Converted(step, Ids \ mig[m].page)
       /\ mig[m].pc \in Behind[step] => Converted(step, Ids)
  /\ mig[m].pc \notin {"callsRow", "chunksRow"} => mig[m].page = {}

BackfillInv == RowsInv /\ \A m \in Migs : MigInv(m)

IInv == TypeOK /\ OpensAreExclusive /\ GateHeld /\ StampMeansConverted /\ BackfillInv

-----------------------------------------------------------------------------
(* Numbers: least and greatest elements, and what a page is.               *)

LEMMA LeastExists ==
  ASSUME NEW S, S \subseteq Nat, S # {}
  PROVE  \E x \in S : \A y \in S : x <= y
<1>1. PICK x \in S : \A y \in S : ~(<<y, x>> \in OpToRel(<, Nat))
  BY NatLessThanWellFounded, WFMin
<1>2. \A y \in S : ~(y < x)
  BY <1>1 DEF OpToRel
<1> QED
  BY <1>2

(* The upper bounds of a finite set of numbers have a least element.       *)
LEMMA GreatestExists ==
  ASSUME NEW S, S \subseteq Nat, IsFiniteSet(S), S # {}
  PROVE  \E x \in S : \A y \in S : y <= x
<1> DEFINE Cut(n) == {y \in S : y <= n}
           Sizes == {Cardinality(S) - Cardinality(Cut(n)) : n \in S}
<1>1. \A n \in S : /\ IsFiniteSet(Cut(n)) /\ Cardinality(Cut(n)) \in Nat
                   /\ Cardinality(Cut(n)) <= Cardinality(S)
                   /\ Cardinality(S) \in Nat
  BY FS_Subset, FS_CardinalityType
<1>2. Sizes \subseteq Nat /\ Sizes # {}
  <2>1. \A n \in S : Cardinality(S) - Cardinality(Cut(n)) \in Nat
    BY <1>1
  <2> QED
    BY <2>1
<1>3. PICK least \in Sizes : \A k \in Sizes : least <= k
  BY <1>2, LeastExists
<1>4. PICK x \in S : least = Cardinality(S) - Cardinality(Cut(x))
  OBVIOUS
<1>5. ASSUME NEW y \in S, ~(y <= x) PROVE FALSE
  <2>1. Cut(x) \subseteq Cut(y) /\ y \in Cut(y) /\ y \notin Cut(x)
    <3>1. x \in Nat /\ y \in Nat /\ x < y
      BY <1>5
    <3>2. \A z \in S : z <= x => z <= y
      BY <3>1
    <3>3. Cut(x) \subseteq Cut(y)
      BY <3>2
    <3>4. y \in Cut(y) /\ y \notin Cut(x)
      BY <1>5, <3>1
    <3> QED
      BY <3>3, <3>4
  <2>2. Cardinality(Cut(x)) < Cardinality(Cut(y))
    BY <1>1, <2>1, FS_Subset
  <2>3. least <= Cardinality(S) - Cardinality(Cut(y))
    BY <1>3
  <2> QED
    BY <1>1, <1>4, <2>2, <2>3
<1> QED
  BY <1>5

LEMMA MaxIs ==
  ASSUME NEW S, S \subseteq Nat, IsFiniteSet(S), S # {}
  PROVE  Max(S) \in S /\ \A y \in S : y <= Max(S)
<1>1. \E x \in S : \A y \in S : x >= y
  BY GreatestExists
<1> QED
  BY <1>1 DEF Max

LEMMA MinIs ==
  ASSUME NEW S, S \subseteq Nat, S # {}
  PROVE  Min(S) \in S
<1>1. \E x \in S : \A y \in S : x =< y
  BY LeastExists
<1> QED
  BY <1>1 DEF Min

(* A page is a beginning of the rows behind the cursor: empty only if      *)
(* there are none, never above its size, and below it only at the end.     *)
LEMMA PageIs ==
  ASSUME NEW table, NEW cursor \in Nat
  PROVE  LET rest == {i \in Present(table) : i > cursor}
             page == NextPage(table, cursor)
         IN  /\ page \subseteq rest
             /\ Cardinality(page) \in 0 .. Page
             /\ page = {} => rest = {}
             /\ page # {} => /\ Max(page) \in page
                            /\ \A i \in rest : i <= Max(page) => i \in page
             /\ Cardinality(page) < Page => page = rest
<1> DEFINE rest == {i \in Present(table) : i > cursor}
           page == NextPage(table, cursor)
           upTo(i) == {j \in rest : j <= i}
<1>1. rest \subseteq Nat /\ IsFiniteSet(rest) /\ page \subseteq rest
  <2>1. Present(table) \subseteq Ids
    BY DEF Present
  <2>2. rest \subseteq Ids /\ page \subseteq rest
    BY <2>1 DEF NextPage
  <2> QED
    BY <2>2, FS_Subset
<1>2. page = {i \in rest : Cardinality(upTo(i)) <= Page}
  BY DEF NextPage
<1>3. \A i \in rest : IsFiniteSet(upTo(i)) /\ Cardinality(upTo(i)) \in Nat
  BY <1>1, FS_Subset, FS_CardinalityType
<1>4. IsFiniteSet(page) /\ Cardinality(page) \in Nat
  BY <1>1, FS_Subset, FS_CardinalityType
<1> HIDE DEF rest, page
<1>5. page # {} => Max(page) \in page /\ \A i \in page : i <= Max(page)
  BY <1>1, <1>4, MaxIs
<1>6. ASSUME NEW i \in rest, NEW j \in page, i <= j PROVE i \in page
  <2>1. i \in Nat /\ j \in Nat /\ j \in rest
    BY <1>1
  <2>2. \A k \in rest : k <= i => k <= j
    BY <1>1, <1>6, <2>1
  <2>3. upTo(i) \subseteq upTo(j)
    BY <2>2
  <2>4. Cardinality(upTo(i)) <= Cardinality(upTo(j)) /\ Cardinality(upTo(j)) <= Page
    BY <1>2, <1>3, <2>1, <2>3, FS_Subset
  <2>5. Cardinality(upTo(i)) <= Page
    BY <1>3, <2>1, <2>4
  <2> QED
    BY <1>2, <2>5
<1>7. Cardinality(page) <= Page
  <2>1. CASE page = {}
    BY <2>1, FS_EmptySet
  <2>2. CASE page # {}
    <3>1. page \subseteq upTo(Max(page)) /\ Max(page) \in rest
      BY <1>1, <1>5, <2>2
    <3>2. Cardinality(page) <= Cardinality(upTo(Max(page)))
      BY <1>3, <3>1, FS_Subset
    <3>3. Cardinality(upTo(Max(page))) <= Page
      BY <1>2, <1>5, <2>2
    <3> QED
      BY <1>3, <1>4, <3>1, <3>2, <3>3
  <2> QED
    BY <2>1, <2>2
<1>8. ASSUME rest # page PROVE Cardinality(page) = Page
  <2>1. rest \ page # {} /\ rest \ page \subseteq Nat
    BY <1>1, <1>8
  <2>2. PICK next \in rest \ page : \A i \in rest \ page : next <= i
    BY <2>1, LeastExists
  <2>3. \A i \in rest : i <= next => i \in page \/ i = next
    BY <1>1, <2>2
  <2>4. upTo(next) \subseteq page \cup {next}
    BY <2>3
  <2>5. Cardinality(page \cup {next}) = Cardinality(page) + 1 /\ IsFiniteSet(page \cup {next})
    BY <1>4, <2>2, FS_AddElement
  <2>6. Cardinality(upTo(next)) <= Cardinality(page) + 1
    BY <2>4, <2>5, FS_Subset
  <2>7. ~(Cardinality(upTo(next)) <= Page)
    BY <1>2, <2>2
  <2> QED
    BY <1>3, <1>4, <1>7, <2>2, <2>6, <2>7
<1>9. page = {} => rest = {}
  BY <1>8, FS_EmptySet
<1> QED
  BY <1>1, <1>4, <1>5, <1>6, <1>7, <1>8, <1>9 DEF rest, page

-----------------------------------------------------------------------------
(* Types.                                                                  *)

LEMMA ConstantTypes ==
  /\ Ids \subseteq Nat /\ 0 \notin Ids /\ IsFiniteSet(Ids)
  /\ Page \in Nat \ {0} /\ OpenTries \in Nat \ {0} /\ RemoveTries \in Nat \ {0}
  /\ MaxOpens \in Nat /\ MaxWrites \in Nat /\ MaxStops \in Nat
OBVIOUS

LEMMA InitTypes == Init => TypeOK
<1> SUFFICES ASSUME Init PROVE TypeOK
  OBVIOUS
<1> USE ConstantTypes DEF Init, AtRest
<1>1. Fresh \in Datastore
  BY DEF Datastore, Fresh, Current, CallRow, ChunkRow
<1>2. Old \in Datastore
  <2>1. /\ [i \in Ids |-> IF i \in OldCalls THEN "link" ELSE "unused"] \in [Ids -> CallRow]
        /\ [i \in Ids |-> IF i \in OldChunks THEN "array" ELSE "unused"] \in [Ids -> ChunkRow]
    BY DEF CallRow, ChunkRow
  <2> HIDE ConstantTypes
  <2> QED
    BY <1>1, <2>1 DEF Datastore, Old
<1>3. dir \in BOOLEAN /\ disk \in {Fresh, Old}
  OBVIOUS
<1>4. NoMig \in Migration /\ NoMig.clone = 0
  BY DEF Migration, NoMig, MigPc, Current
<1>5. disk \in Datastore /\ mig \in [Migs -> Migration]
  BY <1>1, <1>2, <1>3, <1>4
<1>6. \A m \in Migs : mig[m].clone \in {0, live}
  BY <1>4
<1>7. tries \in [Openers \cup {Remover} -> Nat] /\ clone \in [Openers -> 0 .. opens]
  OBVIOUS
<1>8. /\ cached \in 0 .. opens /\ live \in 0 .. opens /\ opens \in 0 .. MaxOpens
      /\ writes \in 0 .. MaxWrites /\ stops \in 0 .. MaxStops
      /\ \A o \in Openers : tries[o] < OpenTries
      /\ tries[Remover] < RemoveTries
  OBVIOUS
<1> QED
  BY <1>3, <1>5, <1>6, <1>7, <1>8 DEF TypeOK

(* A migration is free or waits, or it has the live datastore open.        *)
LEMMA MigrationTypes ==
  ASSUME TypeOK, NEW m \in Migs
  PROVE  mig[m] \in Migration /\ mig[m].clone \in {0, live}
BY DEF TypeOK

LEMMA PutTypes ==
  ASSUME TypeOK, NEW m \in Migs, NEW rec \in Migration, rec.clone \in {0, live},
         mig' = [mig EXCEPT ![m] = rec]
  PROVE  mig' \in [Migs -> Migration] /\ \A n \in Migs : mig'[n].clone \in {0, live}
BY DEF TypeOK

LEMMA CursorType ==
  ASSUME NEW rec \in Migration
  PROVE  rec.cursor \in Nat
<1>1. rec.cursor \in Ids \cup {0}
  BY DEF Migration
<1>2. Ids \cup {0} \subseteq Nat
  BY ONLY ConstantTypes
<1> QED
  BY <1>1, <1>2, Zenon

LEMMA SpawnedType ==
  ASSUME NEW version \in 0 .. Current - 1
  PROVE  /\ [NoMig EXCEPT !.pc = "spawned", !.from = version] \in Migration
         /\ [NoMig EXCEPT !.pc = "spawned", !.from = version].clone = 0
<1>1. NoMig \in Migration /\ NoMig.clone = 0
  BY ConstantTypes DEF Migration, NoMig, MigPc, Current
<1>2. "spawned" \in MigPc
  BY DEF MigPc
<1> QED
  BY <1>1, <1>2 DEF Migration

LEMMA OpenerTypes ==
  ASSUME TypeOK, GateHeld, NEW o \in Openers,
         Lookup(o) \/ OpenerStep(o)
  PROVE  TypeOK'
<1> USE ConstantTypes DEF TypeOK, handles, procs, bounds
<1>1. CASE Lookup(o)
  BY <1>1 DEF Lookup
<1>2. CASE EnterGate(o)
  <2>1. CASE cached # 0
    BY <1>2, <2>1 DEF EnterGate
  <2>2. CASE cached = 0
    BY <1>2, <2>2 DEF EnterGate
  <2> QED
    BY <2>1, <2>2
<1>3. CASE OpenLocked(o)
  BY <1>3 DEF OpenLocked, GiveUp
<1>4. CASE OpenDb(o)
  <2>1. /\ opens' \in 0 .. MaxOpens /\ live' \in 0 .. opens' /\ cached' \in 0 .. opens'
        /\ clone' \in [Openers -> 0 .. opens'] /\ (cached' # 0 => cached' = live')
    BY <1>4 DEF OpenDb
  <2>2. \A m \in Migs : mig'[m].clone \in {0, live'}
    BY <1>4 DEF OpenDb
  <2>3. /\ tries' \in [Openers \cup {Remover} -> Nat]
        /\ \A p \in Openers : tries'[p] < OpenTries
        /\ tries'[Remover] < RemoveTries
    BY <1>4 DEF OpenDb
  <2>4. UNCHANGED <<dir, disk, unlinked, gate, lock, mig, writes, stops>>
    BY <1>4 DEF OpenDb
  <2>5. pc' = [pc EXCEPT ![o] = "version"]
    BY <1>4 DEF OpenDb
  <2> QED
    BY <2>1, <2>2, <2>3, <2>4, <2>5
<1>5. CASE OpenFails(o)
  BY <1>5 DEF OpenFails, GiveUp
<1>6. CASE Publish(o)
  <2>1. UNCHANGED <<dir, disk, live, unlinked, opens, lock, tries, clone, writes, stops>>
    BY <1>6 DEF Publish
  <2>2. cached' = live /\ live # 0
    BY <1>6 DEF Publish, GateHeld
  <2>3. gate' = Nobody /\ pc' = [pc EXCEPT ![o] = "using"]
    BY <1>6 DEF Publish
  <2>4. mig' \in [Migs -> Migration] /\ \A m \in Migs : mig'[m].clone \in {0, live}
    <3>1. PICK version \in {1, disk.version} :
            IF version < Current
            THEN \E m \in Migs :
                   mig' = [mig EXCEPT ![m] = [NoMig EXCEPT !.pc = "spawned",
                                                           !.from = version]]
            ELSE mig' = mig
      BY <1>6 DEF Publish
    <3>2. version \in 1 .. Current
      BY DEF Datastore, Current
    <3>3. ASSUME version < Current
          PROVE  /\ [NoMig EXCEPT !.pc = "spawned", !.from = version] \in Migration
                 /\ [NoMig EXCEPT !.pc = "spawned", !.from = version].clone = 0
      <4>1. version \in 0 .. Current - 1
        BY <3>2, <3>3 DEF Current
      <4> QED
        BY <4>1, SpawnedType, Zenon
    <3>4. CASE version < Current
      <4>1. PICK m \in Migs :
              mig' = [mig EXCEPT ![m] = [NoMig EXCEPT !.pc = "spawned", !.from = version]]
        BY <3>1, <3>4, Zenon
      <4> DEFINE rec == [NoMig EXCEPT !.pc = "spawned", !.from = version]
      <4>2. rec \in Migration /\ rec.clone \in {0, live}
        BY <3>3, <3>4, Zenon
      <4>3. mig' = [mig EXCEPT ![m] = rec]
        BY <4>1
      <4> HIDE DEF rec
      <4> QED
        BY <4>2, <4>3, PutTypes
    <3>5. CASE ~(version < Current)
      BY <3>1, <3>5
    <3> QED
      BY <3>4, <3>5
  <2> QED
    BY <2>1, <2>2, <2>3, <2>4
<1>7. CASE Finish(o)
  BY <1>7 DEF Finish, GiveUp
<1> QED
  BY <1>1, <1>2, <1>3, <1>4, <1>5, <1>6, <1>7 DEF OpenerStep

LEMMA RunTypes ==
  ASSUME TypeOK, NEW o \in Openers, RunWrites(o)
  PROVE  TypeOK'
<1>1. disk' \in Datastore
  BY DEF TypeOK, RunWrites, InsertCall, DeleteCall, InsertChunk, DeleteChunk,
         Datastore, CallRow, ChunkRow
<1>2. /\ UNCHANGED <<dir, handles, gate, lock, procs, mig, stops>>
      /\ writes < MaxWrites /\ writes' = writes + 1
  BY DEF RunWrites, InsertCall, DeleteCall, InsertChunk, DeleteChunk, Writes
<1> QED
  BY <1>1, <1>2, ConstantTypes DEF TypeOK, handles, procs

(* The changes a step makes to the state of a migration.                   *)
LEMMA StepTypes ==
  ASSUME TypeOK, NEW step \in {"calls", "chunks"}
  PROVE  /\ step \in MigPc /\ RowOf[step] \in MigPc /\ EndOf[step] \in MigPc
         /\ \A any : Cursor(any) \in Ids \cup {0}
         /\ \A v : StepFor(v) \in MigPc
<1>1. step \in MigPc /\ RowOf[step] \in MigPc /\ EndOf[step] \in MigPc
  <2>1. CASE step = "calls"
    BY <2>1 DEF RowOf, EndOf, MigPc
  <2>2. CASE step = "chunks"
    BY <2>2 DEF RowOf, EndOf, MigPc
  <2> QED
    BY <2>1, <2>2
<1>2. \A any : Cursor(any) \in Ids \cup {0}
  BY DEF TypeOK, Datastore, Cursor
<1>3. \A v : StepFor(v) \in MigPc
  BY DEF StepFor, MigPc
<1> QED
  BY <1>1, <1>2, <1>3

LEMMA GotoTypes ==
  ASSUME TypeOK, NEW m \in Migs, NEW step \in MigPc, Goto(m, step)
  PROVE  /\ mig' \in [Migs -> Migration]
         /\ \A n \in Migs : mig'[n].clone \in {0, live}
<1> DEFINE rec == [mig[m] EXCEPT !.pc = step, !.cursor = Cursor(step)]
<1>1. Cursor(step) \in Ids \cup {0}
  BY DEF TypeOK, Datastore, Cursor
<1>2. rec \in Migration /\ rec.clone = mig[m].clone
  BY <1>1, MigrationTypes DEF Migration
<1>3. mig' = [mig EXCEPT ![m] = rec]
  BY DEF Goto
<1> HIDE DEF rec
<1> QED
  BY <1>2, <1>3, MigrationTypes, PutTypes

LEMMA NoMigTypes == NoMig \in Migration /\ NoMig.clone = 0
BY ConstantTypes DEF Migration, NoMig, MigPc, Current

(* A step of a migration touches rows, cursors and stamps, and itself.     *)
LEMMA MigStepTypes ==
  ASSUME TypeOK, NEW m \in Migs, MigrationStep(m)
  PROVE  /\ disk' \in Datastore /\ mig' \in [Migs -> Migration]
         /\ \A n \in Migs : mig'[n].clone \in {0, live}
         /\ UNCHANGED <<dir, handles, gate, lock, procs, bounds>>
<1> USE NoMigTypes
<1>1. disk \in Datastore /\ mig \in [Migs -> Migration]
      /\ \A n \in Migs : mig[n].clone \in {0, live}
  BY DEF TypeOK
<1>2. CASE StartMigration(m)
  <2> DEFINE first == StepFor(mig[m].from)
  <2>1. first \in MigPc /\ Cursor(first) \in Ids \cup {0}
    BY StepTypes
  <2>2. cached # 0 => cached = live /\ cached \in 0 .. MaxOpens
    BY ConstantTypes DEF TypeOK
  <2>3. mig' = [mig EXCEPT ![m] =
                  IF cached = 0 THEN NoMig
                  ELSE [mig[m] EXCEPT !.clone = cached, !.pc = first,
                                      !.cursor = Cursor(first)]]
    BY <1>2 DEF StartMigration
  <2> HIDE DEF first
  <2> DEFINE rec == [mig[m] EXCEPT !.clone = cached, !.pc = first,
                                   !.cursor = Cursor(first)]
  <2>4. cached # 0 => rec \in Migration /\ rec.clone = live
    BY <2>1, <2>2, MigrationTypes DEF Migration
  <2>5. mig' = [mig EXCEPT ![m] = IF cached = 0 THEN NoMig ELSE rec]
    BY <2>3
  <2> HIDE DEF rec
  <2>6. mig' \in [Migs -> Migration] /\ \A n \in Migs : mig'[n].clone \in {0, live}
    BY <2>4, <2>5, PutTypes
  <2> QED
    BY <1>1, <1>2, <2>6 DEF StartMigration
<1>3. ASSUME NEW step \in {"calls", "chunks"}, ReadPage(m, step)
      PROVE  /\ mig' \in [Migs -> Migration] /\ \A n \in Migs : mig'[n].clone \in {0, live}
             /\ disk' = disk /\ UNCHANGED <<dir, handles, gate, lock, procs, bounds>>
  <2> DEFINE page == NextPage(disk[step], mig[m].cursor)
  <2>1. mig[m].cursor \in Nat /\ \A i \in Present(disk[step]) : i \in Ids
    <3>1. mig[m] \in Migration
      BY <1>1
    <3>2. \A i \in Present(disk[step]) : i \in Ids
      BY Zenon DEF Present
    <3> QED
      BY <3>1, <3>2, CursorType, Zenon
  <2>2. page \in SUBSET Ids /\ Cardinality(page) \in 0 .. Page
        /\ (page # {} => Max(page) \in Ids)
    BY <2>1, PageIs
  <2>3. CASE page = {}
    BY <1>3, <2>3, StepTypes, GotoTypes DEF ReadPage
  <2>4. CASE page # {}
    <3>1. TakePage(m, step, page)
      BY <1>3, <2>4 DEF ReadPage
    <3> HIDE DEF page
    <3> DEFINE rec == [mig[m] EXCEPT !.page = page, !.cursor = Max(page),
                                     !.size = Cardinality(page), !.pc = RowOf[step]]
    <3>3. RowOf[step] \in MigPc
      BY StepTypes
    <3>4. rec \in Migration /\ rec.clone = mig[m].clone
      BY <2>2, <2>4, <3>3, MigrationTypes DEF Migration
    <3>5. mig' = [mig EXCEPT ![m] = rec]
      BY <3>1 DEF TakePage
    <3> HIDE DEF rec
    <3>2. mig' \in [Migs -> Migration] /\ \A n \in Migs : mig'[n].clone \in {0, live}
      BY <3>4, <3>5, MigrationTypes, PutTypes
    <3> QED
      BY <1>3, <3>2 DEF ReadPage
  <2> QED
    BY <2>3, <2>4
<1>4. ASSUME NEW step \in {"calls", "chunks"}, UpdateRow(m, step)
      PROVE  /\ mig' \in [Migs -> Migration] /\ \A n \in Migs : mig'[n].clone \in {0, live}
             /\ disk' \in Datastore /\ UNCHANGED <<dir, handles, gate, lock, procs, bounds>>
  <2>1. mig' \in [Migs -> Migration] /\ \A n \in Migs : mig'[n].clone \in {0, live}
    BY <1>1, <1>4 DEF UpdateRow, Migration
  <2>2. disk' \in Datastore
    BY <1>1, <1>4 DEF UpdateRow, Datastore, CallRow, ChunkRow
  <2> QED
    BY <1>4, <2>1, <2>2 DEF UpdateRow
<1>5. ASSUME NEW step \in {"calls", "chunks"}, PersistCursor(m, step)
      PROVE  /\ mig' \in [Migs -> Migration] /\ \A n \in Migs : mig'[n].clone \in {0, live}
             /\ disk' \in Datastore /\ UNCHANGED <<dir, handles, gate, lock, procs, bounds>>
  <2>1. mig' \in [Migs -> Migration] /\ \A n \in Migs : mig'[n].clone \in {0, live}
    <3> DEFINE next == IF mig[m].size < Page THEN EndOf[step] ELSE step
               rec == [mig[m] EXCEPT !.pc = next, !.size = 0]
    <3>1. next \in MigPc
      BY StepTypes
    <3> HIDE DEF next
    <3>4. mig[m] \in Migration /\ 0 \in 0 .. Page
      BY MigrationTypes, ConstantTypes
    <3>2. rec \in Migration /\ rec.clone = mig[m].clone
      BY <3>1, <3>4 DEF Migration
    <3>3. mig' = [mig EXCEPT ![m] = rec]
      BY <1>5 DEF PersistCursor, next
    <3> HIDE DEF rec
    <3> QED
      BY <3>2, <3>3, MigrationTypes, PutTypes
  <2>2. disk' \in Datastore
    <3>1. mig[m].cursor \in Ids \cup {0}
      BY MigrationTypes DEF Migration
    <3> QED
      BY <1>1, <1>5, <3>1 DEF PersistCursor, Datastore
  <2> QED
    BY <1>5, <2>1, <2>2 DEF PersistCursor
<1>6. ASSUME NEW step \in {"calls", "chunks"}, DropCursor(m, step)
      PROVE  /\ mig' \in [Migs -> Migration] /\ \A n \in Migs : mig'[n].clone \in {0, live}
             /\ disk' \in Datastore /\ UNCHANGED <<dir, handles, gate, lock, procs, bounds>>
  <2>1. disk' \in Datastore
    BY <1>1, <1>6 DEF DropCursor, Datastore
  <2>2. "stamp2" \in MigPc /\ "stamp5" \in MigPc
    BY DEF MigPc
  <2> QED
    BY <1>6, <2>1, <2>2, GotoTypes DEF DropCursor
<1>7. ASSUME NEW version \in 2 .. Current, Stamp(m, version)
      PROVE  /\ mig' \in [Migs -> Migration] /\ \A n \in Migs : mig'[n].clone \in {0, live}
             /\ disk' \in Datastore /\ UNCHANGED <<dir, handles, gate, lock, procs, bounds>>
  <2>4. disk' = [disk EXCEPT !.version = version] /\ version \in 1 .. Current
    <3>1. version \in 1 .. Current
      BY DEF Current
    <3> QED
      BY <1>7, <3>1 DEF Stamp
  <2>1. disk' \in Datastore
    BY <1>1, <2>4 DEF Datastore
  <2>2. StepFor(version) \in MigPc
    BY DEF StepFor, MigPc
  <2>3. mig' \in [Migs -> Migration] /\ \A n \in Migs : mig'[n].clone \in {0, live}
    BY <1>1, <1>7, <2>2, GotoTypes DEF Stamp
  <2> QED
    BY <1>7, <2>1, <2>3 DEF Stamp
<1>8. CASE MigrationFails(m)
  BY <1>1, <1>8 DEF MigrationFails
<1> QED
  BY <1>1, <1>2, <1>3, <1>4, <1>5, <1>6, <1>7, <1>8 DEF MigrationStep, Backfill

LEMMA RemoverTypes ==
  ASSUME TypeOK, RemoverStep
  PROVE  TypeOK'
<1> USE ConstantTypes DEF TypeOK, handles, procs, bounds
<1>1. CASE CloseRepoDb
  BY <1>1 DEF CloseRepoDb
<1>2. CASE EnterRemoval
  BY <1>2 DEF EnterRemoval, Removed
<1>3. CASE RemoveAttempt
  <2>1. Fresh \in Datastore
    BY DEF Datastore, Fresh, Current, CallRow, ChunkRow
  <2>2. disk' \in Datastore /\ dir' \in BOOLEAN /\ unlinked' \in BOOLEAN
    BY <1>3, <2>1 DEF RemoveAttempt
  <2>3. /\ pc' \in [Openers \cup {Remover} ->
                      {"idle", "gate", "opening", "version", "using", "removing"}]
        /\ gate' \in {gate, Nobody}
    BY <1>3 DEF RemoveAttempt, Removed
  <2>4. /\ tries' \in [Openers \cup {Remover} -> Nat]
        /\ \A o \in Openers : tries'[o] < OpenTries
        /\ tries'[Remover] < RemoveTries
    BY <1>3 DEF RemoveAttempt, Removed
  <2>5. UNCHANGED <<cached, live, opens, lock, clone, mig, writes, stops>>
    BY <1>3 DEF RemoveAttempt
  <2> QED
    BY <2>2, <2>3, <2>4, <2>5
<1> QED
  BY <1>1, <1>2, <1>3 DEF RemoverStep

LEMMA DrainTypes ==
  ASSUME TypeOK, Drain
  PROVE  TypeOK'
<1>1. \A m \in Migs : mig[m].clone = 0
  BY DEF TypeOK, Drain
<1> QED
  BY <1>1, ConstantTypes DEF TypeOK, Drain, procs, bounds

LEMMA StopTypes ==
  ASSUME TypeOK, Stop
  PROVE  TypeOK'
<1>1. mig' \in [Migs -> Migration] /\ \A m \in Migs : mig'[m].clone = 0
  BY NoMigTypes DEF Stop
<1>2. /\ UNCHANGED <<dir, disk, opens, writes>> /\ stops' \in 0 .. MaxStops
      /\ cached' = 0 /\ live' = 0 /\ unlinked' = FALSE
      /\ gate' = Nobody /\ lock' = Nobody
  BY ConstantTypes DEF TypeOK, Stop
<1>3. /\ pc' = [p \in Openers \cup {Remover} |-> "idle"]
      /\ tries' = [p \in Openers \cup {Remover} |-> 0]
      /\ clone' = [o \in Openers |-> 0]
  BY DEF Stop
<1>4. opens' \in 0 .. MaxOpens /\ 0 \in 0 .. opens'
  BY <1>2, ConstantTypes DEF TypeOK
<1>5. clone' \in [Openers -> 0 .. opens'] /\ tries' \in [Openers \cup {Remover} -> Nat]
  BY <1>3, <1>4
<1>6. (\A o \in Openers : tries'[o] < OpenTries) /\ tries'[Remover] < RemoveTries
  BY <1>3, ConstantTypes
<1>7. disk' \in Datastore /\ dir' \in BOOLEAN /\ writes' \in 0 .. MaxWrites
  BY <1>2 DEF TypeOK
<1> QED
  BY <1>1, <1>2, <1>3, <1>4, <1>5, <1>6, <1>7 DEF TypeOK

LEMMA NextTypes ==
  ASSUME TypeOK, GateHeld, [Next]_vars
  PROVE  TypeOK'
<1>1. CASE UNCHANGED vars
  BY <1>1 DEF TypeOK, vars, handles, procs, bounds
<1>2. ASSUME NEW m \in Migs, MigrationStep(m) PROVE TypeOK'
  <2>1. /\ disk' \in Datastore /\ mig' \in [Migs -> Migration]
        /\ \A n \in Migs : mig'[n].clone \in {0, live}
        /\ UNCHANGED <<dir, handles, gate, lock, procs, bounds>>
    BY <1>2, MigStepTypes
  <2>2. /\ live' = live /\ opens' = opens /\ cached' = cached /\ unlinked' = unlinked
        /\ UNCHANGED <<dir, gate, lock, pc, tries, clone, writes, stops>>
    BY <2>1 DEF handles, procs, bounds
  <2> QED
    BY <2>1, <2>2 DEF TypeOK
<1> QED
  BY <1>1, <1>2, OpenerTypes, RunTypes, RemoverTypes, DrainTypes, StopTypes DEF Next

-----------------------------------------------------------------------------
(* The gate.                                                               *)

LEMMA GateStep ==
  ASSUME TypeOK, GateHeld, OpensAreExclusive, [Next]_vars
  PROVE  GateHeld' /\ OpensAreExclusive'
<1> USE DEF GateHeld, OpensAreExclusive, handles, procs
<1>0. /\ pc \in [Openers \cup {Remover} ->
                   {"idle", "gate", "opening", "version", "using", "removing"}]
      /\ clone \in [Openers -> 0 .. opens] /\ live \in Nat /\ opens \in Nat
  BY ConstantTypes DEF TypeOK
<1>1. ASSUME NEW o \in Openers, Lookup(o) \/ OpenerStep(o)
      PROVE  GateHeld' /\ OpensAreExclusive'
  <2>1. CASE Lookup(o)
    BY <1>0, <2>1 DEF Lookup
  <2>2. CASE EnterGate(o)
    BY <1>0, <2>2 DEF EnterGate
  <2>3. CASE OpenLocked(o)
    BY <1>0, <2>3 DEF OpenLocked, GiveUp
  <2>4. CASE OpenDb(o)
    BY <1>0, <2>4 DEF OpenDb
  <2>5. CASE OpenFails(o)
    BY <1>0, <2>5 DEF OpenFails, GiveUp
  <2>6. CASE Publish(o)
    BY <1>0, <2>6 DEF Publish
  <2>7. CASE Finish(o)
    BY <1>0, <2>7 DEF Finish, GiveUp
  <2> QED
    BY <1>1, <2>1, <2>2, <2>3, <2>4, <2>5, <2>6, <2>7 DEF OpenerStep
<1>2. ASSUME UNCHANGED <<handles, gate, procs>> PROVE GateHeld' /\ OpensAreExclusive'
  BY <1>2
<1>3. ASSUME NEW o \in Openers, RunWrites(o) PROVE UNCHANGED <<handles, gate, procs>>
  BY <1>3 DEF RunWrites, InsertCall, DeleteCall, InsertChunk, DeleteChunk
<1>4. ASSUME NEW m \in Migs, MigrationStep(m) PROVE UNCHANGED <<handles, gate, procs>>
  BY <1>4, MigStepTypes
<1>5. CASE Drain
  BY <1>0, <1>5 DEF Drain
<1>6. CASE RemoverStep
  <2>1. CASE CloseRepoDb
    BY <1>0, <2>1 DEF CloseRepoDb
  <2>2. CASE EnterRemoval
    BY <1>0, <2>2 DEF EnterRemoval, Removed
  <2>3. CASE RemoveAttempt
    BY <1>0, <2>3 DEF RemoveAttempt, Removed
  <2> QED
    BY <1>6, <2>1, <2>2, <2>3 DEF RemoverStep
<1>7. CASE Stop
  BY <1>0, <1>7 DEF Stop
<1>8. CASE UNCHANGED vars
  BY <1>2, <1>8 DEF vars
<1> QED
  BY <1>1, <1>2, <1>3, <1>4, <1>5, <1>6, <1>7, <1>8 DEF Next

-----------------------------------------------------------------------------
(* The backfills.  No step turns a row back.                               *)

Steps == {"calls", "chunks"}

Keeps ==
  \A step \in Steps, i \in Ids :
    disk'[step][i] = Unconverted[step] => disk[step][i] = Unconverted[step]

LEMMA ConvertedKept ==
  ASSUME Keeps, NEW step \in Steps, NEW S, S \subseteq Ids, Converted(step, S)
  PROVE  Converted(step, S)'
BY DEF Keeps, Converted

LEMMA MigKept ==
  ASSUME Keeps, NEW m \in Migs, MigInv(m), mig'[m] = mig[m]
  PROVE  MigInv(m)'
<1>1. mig[m].from >= 2 => Converted("calls", Ids)'
  BY ConvertedKept DEF MigInv, Steps
<1>2. ASSUME NEW step \in Steps
      PROVE  /\ mig[m].pc \in {step, RowOf[step]} =>
                  Converted(step, {i \in Ids : i <= mig[m].cursor} \ mig[m].page)'
             /\ mig[m].pc = RowOf[step] /\ mig[m].size < Page =>
                  Converted(step, Ids \ mig[m].page)'
             /\ mig[m].pc \in Behind[step] => Converted(step, Ids)'
  <2>1. mig[m].pc \in {step, RowOf[step]} =>
          Converted(step, {i \in Ids : i <= mig[m].cursor} \ mig[m].page)
    BY DEF MigInv, Steps
  <2>2. mig[m].pc = RowOf[step] /\ mig[m].size < Page =>
          Converted(step, Ids \ mig[m].page)
    BY DEF MigInv, Steps
  <2>3. mig[m].pc \in Behind[step] => Converted(step, Ids)
    BY DEF MigInv, Steps
  <2>4. \A i \in Ids : disk[step][i] # Unconverted[step] => disk'[step][i] # Unconverted[step]
    BY DEF Keeps
  <2>5. mig[m].pc \in {step, RowOf[step]} =>
          Converted(step, {i \in Ids : i <= mig[m].cursor} \ mig[m].page)'
    BY <2>1, <2>4 DEF Converted
  <2>6. mig[m].pc = RowOf[step] /\ mig[m].size < Page =>
          Converted(step, Ids \ mig[m].page)'
    BY <2>2, <2>4 DEF Converted
  <2>7. mig[m].pc \in Behind[step] => Converted(step, Ids)'
    BY <2>3, <2>4 DEF Converted
  <2> QED
    BY <2>5, <2>6, <2>7
<1> QED
  BY <1>1, <1>2 DEF MigInv, Steps

LEMMA RowsKept ==
  ASSUME Keeps, RowsInv,
         disk'.callsCursor \in {disk.callsCursor, 0},
         disk'.chunkCursor \in {disk.chunkCursor, 0}
  PROVE  RowsInv'
<1>1. \A i \in Ids : ~(i <= 0)
  BY ConstantTypes
<1>2. \A step \in Steps, i \in Ids :
        disk[step][i] # Unconverted[step] => disk'[step][i] # Unconverted[step]
  BY DEF Keeps
<1>3. Converted("calls", {i \in Ids : i <= disk.callsCursor})'
  BY <1>1, <1>2 DEF RowsInv, Converted, Steps
<1>4. Converted("chunks", {i \in Ids : i <= disk.chunkCursor})'
  BY <1>1, <1>2 DEF RowsInv, Converted, Steps
<1> QED
  BY <1>3, <1>4 DEF RowsInv

(* In terms of the two tables.                                             *)
LEMMA ConvertedIs ==
  /\ Converted("calls", Ids) <=> \A i \in Ids : disk.calls[i] # "link"
  /\ Converted("chunks", Ids) <=> \A i \in Ids : disk.chunks[i] # "array"
  /\ Converted("calls", Ids)' <=> \A i \in Ids : disk'.calls[i] # "link"
  /\ Converted("chunks", Ids)' <=> \A i \in Ids : disk'.chunks[i] # "array"
BY DEF Converted, Unconverted

LEMMA KeepsIs ==
  /\ \A i \in Ids : disk'.calls[i] = "link" => disk.calls[i] = "link"
  /\ \A i \in Ids : disk'.chunks[i] = "array" => disk.chunks[i] = "array"
  <=> Keeps
BY DEF Keeps, Steps, Unconverted

LEMMA StampKept ==
  ASSUME Keeps, StampMeansConverted, disk'.version <= disk.version,
         disk'.version \in Nat, disk.version \in Nat
  PROVE  StampMeansConverted'
BY KeepsIs DEF StampMeansConverted

LEMMA OthersKept ==
  ASSUME Keeps, BackfillInv, RowsInv', NEW m \in Migs, MigInv(m)',
         \A n \in Migs \ {m} : mig'[n] = mig[n]
  PROVE  BackfillInv'
BY MigKept DEF BackfillInv

(* A free slot, and one whose task has not looked at the datastore.        *)
LEMMA IdleMig ==
  ASSUME NEW m \in Migs, mig'[m].pc \in {"free", "spawned"}, mig'[m].page = {},
         mig'[m].from >= 2 => Converted("calls", Ids)'
  PROVE  MigInv(m)'
<1>1. ASSUME NEW step \in Steps
      PROVE  mig'[m].pc \notin {step, RowOf[step]} \cup Behind[step]
  <2>1. CASE step = "calls"
    BY <2>1 DEF RowOf, Behind
  <2>2. CASE step = "chunks"
    BY <2>2 DEF RowOf, Behind
  <2> QED
    BY <2>1, <2>2 DEF Steps
<1> QED
  BY <1>1 DEF MigInv, Steps

LEMMA NoMigInv ==
  ASSUME NEW m \in Migs, mig'[m] = NoMig
  PROVE  MigInv(m)'
BY IdleMig DEF NoMig

(* Steps that leave the rows alone, or write converted ones.               *)
LEMMA RunBackfill ==
  ASSUME TypeOK, StampMeansConverted, BackfillInv, NEW o \in Openers, RunWrites(o)
  PROVE  StampMeansConverted' /\ BackfillInv'
<1>1. disk \in Datastore /\ mig' = mig
  BY DEF TypeOK, RunWrites, InsertCall, DeleteCall, InsertChunk, DeleteChunk
<1>2. Keeps
  <2>1. /\ \A i \in Ids : disk'.calls[i] = "link" => disk.calls[i] = "link"
        /\ \A i \in Ids : disk'.chunks[i] = "array" => disk.chunks[i] = "array"
    BY <1>1 DEF RunWrites, InsertCall, DeleteCall, InsertChunk, DeleteChunk, Datastore
  <2> QED
    BY <2>1, KeepsIs
<1>3. /\ disk'.version = disk.version /\ disk'.callsCursor = disk.callsCursor
      /\ disk'.chunkCursor = disk.chunkCursor
  BY <1>1 DEF RunWrites, InsertCall, DeleteCall, InsertChunk, DeleteChunk, Datastore
<1>4. disk.version \in Nat
  BY <1>1 DEF Datastore, Current
<1>5. RowsInv'
  BY <1>2, <1>3, RowsKept DEF BackfillInv
<1>6. \A m \in Migs : MigInv(m)'
  BY <1>1, <1>2, MigKept DEF BackfillInv
<1> QED
  BY <1>2, <1>3, <1>4, <1>5, <1>6, StampKept DEF BackfillInv

LEMMA SameDisk ==
  ASSUME TypeOK, StampMeansConverted, BackfillInv, disk' = disk
  PROVE  Keeps /\ RowsInv' /\ StampMeansConverted'
<1>1. Keeps
  BY DEF Keeps
<1>2. disk.version \in Nat
  BY DEF TypeOK, Datastore, Current
<1> QED
  BY <1>1, <1>2, RowsKept, StampKept DEF BackfillInv

LEMMA PublishBackfill ==
  ASSUME TypeOK, StampMeansConverted, BackfillInv, NEW o \in Openers, Publish(o)
  PROVE  StampMeansConverted' /\ BackfillInv'
<1>1. disk' = disk
  BY DEF Publish
<1>2. PICK version \in {1, disk.version} :
        IF version < Current
        THEN \E m \in Migs :
               mig' = [mig EXCEPT ![m] = [NoMig EXCEPT !.pc = "spawned",
                                                       !.from = version]]
        ELSE mig' = mig
  BY DEF Publish
<1>3. CASE mig' = mig
  BY <1>1, <1>3, SameDisk, MigKept DEF BackfillInv
<1>4. ASSUME NEW m \in Migs,
             mig' = [mig EXCEPT ![m] = [NoMig EXCEPT !.pc = "spawned",
                                                     !.from = version]]
      PROVE  StampMeansConverted' /\ BackfillInv'
  <2> DEFINE rec == [NoMig EXCEPT !.pc = "spawned", !.from = version]
  <2>1. rec.pc = "spawned" /\ rec.page = {} /\ rec.from = version
    BY DEF NoMig
  <2>2. mig'[m] = rec /\ \A n \in Migs \ {m} : mig'[n] = mig[n]
    <3> HIDE DEF rec
    <3> QED
      BY <1>4 DEF TypeOK, rec
  <2>3. version >= 2 => Converted("calls", Ids)'
    BY <1>1, ConvertedIs DEF StampMeansConverted
  <2> HIDE DEF rec
  <2>4. MigInv(m)'
    BY <2>1, <2>2, <2>3, IdleMig
  <2> QED
    BY <1>1, <2>2, <2>4, SameDisk, OthersKept
<1> QED
  BY <1>2, <1>3, <1>4

LEMMA RemoverBackfill ==
  ASSUME TypeOK, StampMeansConverted, BackfillInv, RemoverStep
  PROVE  StampMeansConverted' /\ BackfillInv'
<1>1. mig' = mig /\ disk' \in {disk, Fresh}
  BY DEF RemoverStep, CloseRepoDb, EnterRemoval, RemoveAttempt
<1>2. CASE disk' = disk
  BY <1>1, <1>2, SameDisk, MigKept DEF BackfillInv
<1>3. CASE disk' = Fresh
  <2>1. /\ disk'.version = 1 /\ disk'.callsCursor = 0 /\ disk'.chunkCursor = 0
        /\ \A i \in Ids : disk'.calls[i] # "link" /\ disk'.chunks[i] # "array"
    BY <1>3 DEF Fresh
  <2>2. Keeps
    BY <2>1, KeepsIs
  <2>3. RowsInv'
    BY <2>1, <2>2, RowsKept DEF BackfillInv
  <2>4. StampMeansConverted'
    BY <2>1 DEF StampMeansConverted
  <2> QED
    BY <1>1, <2>2, <2>3, <2>4, MigKept DEF BackfillInv
<1> QED
  BY <1>1, <1>2, <1>3

LEMMA StopBackfill ==
  ASSUME TypeOK, StampMeansConverted, BackfillInv, Stop
  PROVE  StampMeansConverted' /\ BackfillInv'
<1>1. disk' = disk /\ \A m \in Migs : mig'[m] = NoMig
  BY DEF Stop
<1> QED
  BY <1>1, SameDisk, NoMigInv DEF BackfillInv

-----------------------------------------------------------------------------
(* The steps of a migration.                                               *)

(* Where the steps of the chain stand to each other.                       *)
LEMMA StepOrder ==
  ASSUME NEW step \in Steps, NEW other \in Steps
  PROVE  /\ step \in {other, RowOf[other]} => other = step
         /\ RowOf[step] \in {other, RowOf[other]} => other = step
         /\ EndOf[step] \notin {other, RowOf[other]}
         /\ step \notin Behind[step] /\ RowOf[step] \notin Behind[step]
         /\ EndOf[step] \in Behind[step]
         /\ RowOf[step] \in Behind[other] <=> step \in Behind[other]
         /\ EndOf[step] \in Behind[other] => other = step \/ RowOf[step] \in Behind[other]
         /\ RowOf[step] \in {"callsRow", "chunksRow"}
         /\ {step, EndOf[step]} \cap {"callsRow", "chunksRow"} = {}
         /\ step # RowOf[step]
<1>1. CASE step = "calls" /\ other = "calls"
  BY <1>1 DEF RowOf, EndOf, Behind
<1>2. CASE step = "calls" /\ other = "chunks"
  BY <1>2 DEF RowOf, EndOf, Behind
<1>3. CASE step = "chunks" /\ other = "calls"
  BY <1>3 DEF RowOf, EndOf, Behind
<1>4. CASE step = "chunks" /\ other = "chunks"
  BY <1>4 DEF RowOf, EndOf, Behind
<1> QED
  BY <1>1, <1>2, <1>3, <1>4 DEF Steps

(* A row that is not there needs no conversion.                            *)
LEMMA AbsentConverted ==
  ASSUME NEW step \in Steps, NEW i \in Ids, i \notin Present(disk[step])
  PROVE  disk[step][i] # Unconverted[step]
BY DEF Steps, Present, Unconverted

(* What Goto and the like leave of a migration.                            *)
LEMMA PutIs ==
  ASSUME TypeOK, NEW m \in Migs, NEW rec, mig' = [mig EXCEPT ![m] = rec]
  PROVE  mig'[m] = rec /\ \A n \in Migs \ {m} : mig'[n] = mig[n]
BY DEF TypeOK

LEMMA GotoIs ==
  ASSUME TypeOK, NEW m \in Migs, NEW step, Goto(m, step)
  PROVE  /\ mig'[m].pc = step /\ mig'[m].cursor = Cursor(step)
         /\ mig'[m].page = mig[m].page /\ mig'[m].from = mig[m].from
         /\ mig'[m].size = mig[m].size
         /\ \A n \in Migs \ {m} : mig'[n] = mig[n]
<1> DEFINE rec == [mig[m] EXCEPT !.pc = step, !.cursor = Cursor(step)]
<1>1. mig[m] \in Migration
  BY MigrationTypes
<1>2. /\ rec.pc = step /\ rec.cursor = Cursor(step) /\ rec.page = mig[m].page
      /\ rec.from = mig[m].from /\ rec.size = mig[m].size
  BY <1>1 DEF Migration
<1>3. mig' = [mig EXCEPT ![m] = rec]
  BY DEF Goto
<1> HIDE DEF rec
<1> QED
  BY <1>2, <1>3, PutIs

LEMMA ReadPageBackfill ==
  ASSUME TypeOK, StampMeansConverted, BackfillInv, NEW m \in Migs,
         NEW step \in Steps, ReadPage(m, step)
  PROVE  StampMeansConverted' /\ BackfillInv'
<1> DEFINE page == NextPage(disk[step], mig[m].cursor)
           rest == {i \in Present(disk[step]) : i > mig[m].cursor}
<1>1. disk' = disk /\ mig[m].pc = step
  BY DEF ReadPage, Migrates
<1>2. mig[m].cursor \in Nat /\ mig[m] \in Migration
  BY MigrationTypes, CursorType, Zenon
<1>3. /\ page \subseteq rest /\ (page = {} => rest = {})
      /\ page # {} => /\ Max(page) \in page
                     /\ \A i \in rest : i <= Max(page) => i \in page
      /\ Cardinality(page) < Page => page = rest
  BY <1>2, PageIs
<1>4. /\ mig[m].from >= 2 => Converted("calls", Ids)
      /\ Converted(step, {i \in Ids : i <= mig[m].cursor}) /\ mig[m].page = {}
      /\ \A other \in Steps : step \in Behind[other] => Converted(other, Ids)
  <2>1. MigInv(m)
    BY DEF BackfillInv
  <2>2. mig[m].page = {}
    <3>1. step \notin {"callsRow", "chunksRow"}
      BY DEF Steps
    <3> QED
      BY <1>1, <2>1, <3>1, Zenon DEF MigInv
  <2>3. Converted(step, {i \in Ids : i <= mig[m].cursor} \ mig[m].page)
    BY <1>1, <2>1 DEF MigInv, Steps
  <2>4. \A other \in Steps : step \in Behind[other] => Converted(other, Ids)
    BY <1>1, <2>1 DEF MigInv, Steps
  <2> QED
    BY <2>1, <2>2, <2>3, <2>4 DEF MigInv, Converted
<1>5. \A i \in Ids : i <= mig[m].cursor \/ i \in rest \/ disk[step][i] # Unconverted[step]
  <2> SUFFICES ASSUME NEW i \in Ids, ~(i <= mig[m].cursor), i \notin rest
               PROVE  disk[step][i] # Unconverted[step]
    OBVIOUS
  <2>1. i \in Nat /\ i > mig[m].cursor
    BY <1>2, ConstantTypes
  <2>2. i \notin Present(disk[step])
    BY <2>1
  <2> QED
    BY <2>2, AbsentConverted
<1> HIDE DEF rest
<1>6. CASE page = {}
  <2>1. Converted(step, Ids)
    BY <1>3, <1>4, <1>5, <1>6 DEF Converted
  <2>2. Goto(m, EndOf[step])
    BY <1>6 DEF ReadPage
  <2>3. \A other \in Steps : EndOf[step] \in Behind[other] => Converted(other, Ids)
    BY <1>4, <2>1, StepOrder
  <2>4. MigInv(m)'
    <3>1. mig'[m].pc = EndOf[step] /\ mig'[m].page = {} /\ mig'[m].from = mig[m].from
      BY <1>4, <2>2, GotoIs
    <3>2. \A other \in Steps : Converted(other, Ids) => Converted(other, Ids)'
      BY <1>1 DEF Converted
    <3> QED
      BY <1>4, <2>3, <3>1, <3>2, StepOrder DEF MigInv, Steps
  <2> QED
    BY <1>1, <2>2, <2>4, GotoIs, SameDisk, OthersKept
<1>7. CASE page # {}
  <2> DEFINE rec == [mig[m] EXCEPT !.page = page, !.cursor = Max(page),
                                   !.size = Cardinality(page), !.pc = RowOf[step]]
  <2>1. TakePage(m, step, page)
    BY <1>7 DEF ReadPage
  <2> HIDE DEF page
  <2>2. /\ rec.page = page /\ rec.cursor = Max(page) /\ rec.size = Cardinality(page)
        /\ rec.pc = RowOf[step] /\ rec.from = mig[m].from
    BY <1>2 DEF Migration
  <2>3. mig' = [mig EXCEPT ![m] = rec]
    BY <2>1 DEF TakePage
  <2> HIDE DEF rec
  <2>4. mig'[m] = rec /\ \A n \in Migs \ {m} : mig'[n] = mig[n]
    BY <2>3, PutIs
  <2>5. Converted(step, {i \in Ids : i <= Max(page)} \ page)
    BY <1>3, <1>4, <1>5, <1>7 DEF Converted
  <2>6. Cardinality(page) < Page => Converted(step, Ids \ page)
    BY <1>3, <1>4, <1>5, <1>7 DEF Converted
  <2>7. MigInv(m)'
    <3>1. ASSUME NEW other \in Steps
          PROVE  /\ mig'[m].pc \in {other, RowOf[other]} =>
                      Converted(other, {i \in Ids : i <= mig[m].cursor} \ mig[m].page)'
                 /\ mig'[m].pc = RowOf[other] /\ mig'[m].size < Page =>
                      Converted(other, Ids \ mig[m].page)'
                 /\ mig'[m].pc \in Behind[other] => Converted(other, Ids)'
      <4>1. CASE other = step
        <5>1. Converted(other, {i \in Ids : i <= mig[m].cursor} \ mig[m].page)'
          BY <1>1, <2>2, <2>4, <2>5, <4>1 DEF Converted
        <5>2. mig'[m].size < Page => Converted(other, Ids \ mig[m].page)'
          BY <1>1, <2>2, <2>4, <2>6, <4>1 DEF Converted
        <5>3. mig'[m].pc \notin Behind[other]
          BY <2>2, <2>4, <4>1, StepOrder
        <5> QED
          BY <5>1, <5>2, <5>3
      <4>2. CASE other # step
        <5>1. RowOf[step] \in Behind[other] => Converted(other, Ids)'
          BY <1>1, <1>4, StepOrder DEF Converted
        <5>2. mig'[m].pc = RowOf[step] /\ RowOf[step] \notin {other, RowOf[other]}
          BY <2>2, <2>4, <4>2, StepOrder
        <5> QED
          BY <5>1, <5>2
      <4> QED
        BY <4>1, <4>2
    <3>2. mig'[m].pc \in {"callsRow", "chunksRow"}
      BY <2>2, <2>4, StepOrder
    <3>3. mig'[m].from >= 2 => Converted("calls", Ids)'
      BY <1>1, <1>4, <2>2, <2>4 DEF Converted
    <3> QED
      BY <3>1, <3>2, <3>3 DEF MigInv, Steps
  <2> QED
    BY <1>1, <2>4, <2>7, SameDisk, OthersKept
<1> QED
  BY <1>6, <1>7

LEMMA UpdateRowBackfill ==
  ASSUME TypeOK, StampMeansConverted, BackfillInv, NEW m \in Migs,
         NEW step \in Steps, UpdateRow(m, step)
  PROVE  StampMeansConverted' /\ BackfillInv'
<1> DEFINE row == Min(mig[m].page)
<1>1. /\ mig[m] \in Migration /\ mig[m].page \subseteq Ids /\ row \in Ids
      /\ disk \in Datastore
  <2>1. mig[m] \in Migration /\ mig[m].page \subseteq Ids
    BY MigrationTypes DEF Migration
  <2>2. mig[m].page # {}
    BY DEF UpdateRow
  <2> QED
    BY <2>1, <2>2, MinIs, ConstantTypes DEF TypeOK
<1>2. /\ mig[m].pc = RowOf[step] /\ mig' = [mig EXCEPT ![m].page = @ \ {row}]
      /\ disk' = IF row \notin Present(disk[step]) THEN disk
                 ELSE IF step = "calls" THEN [disk EXCEPT !.calls[row] = "name"]
                 ELSE [disk EXCEPT !.chunks[row] = "bytes"]
  BY DEF UpdateRow, Migrates
<1> HIDE DEF row
<1>3. /\ mig'[m].pc = RowOf[step] /\ mig'[m].page = mig[m].page \ {row}
      /\ mig'[m].cursor = mig[m].cursor /\ mig'[m].size = mig[m].size
      /\ mig'[m].from = mig[m].from
      /\ \A n \in Migs \ {m} : mig'[n] = mig[n]
  BY <1>1, <1>2 DEF TypeOK, Migration
<1>4. /\ disk'.version = disk.version /\ disk'.callsCursor = disk.callsCursor
      /\ disk'.chunkCursor = disk.chunkCursor
  BY <1>1, <1>2 DEF Datastore
<1>5. Keeps /\ disk'[step][row] # Unconverted[step]
  <2>1. CASE row \notin Present(disk[step])
    BY <1>1, <1>2, <2>1, AbsentConverted DEF Keeps
  <2>2. CASE row \in Present(disk[step]) /\ step = "calls"
    <3>1. disk' = [disk EXCEPT !.calls[row] = "name"]
      BY <1>2, <2>2
    <3>2. /\ disk'.calls = [disk.calls EXCEPT ![row] = "name"]
          /\ disk'.chunks = disk.chunks
          /\ disk.calls \in [Ids -> CallRow]
      BY <1>1, <3>1 DEF Datastore
    <3>3. Keeps
      BY <3>2, KeepsIs
    <3> QED
      BY <1>1, <2>2, <3>2, <3>3 DEF Unconverted
  <2>3. CASE row \in Present(disk[step]) /\ step = "chunks"
    <3>1. disk' = [disk EXCEPT !.chunks[row] = "bytes"]
      BY <1>2, <2>3
    <3>2. /\ disk'.chunks = [disk.chunks EXCEPT ![row] = "bytes"]
          /\ disk'.calls = disk.calls
          /\ disk.chunks \in [Ids -> ChunkRow]
      BY <1>1, <3>1 DEF Datastore
    <3>3. Keeps
      BY <3>2, KeepsIs
    <3> QED
      BY <1>1, <2>3, <3>2, <3>3 DEF Unconverted
  <2> QED
    BY <2>1, <2>2, <2>3 DEF Steps
<1>6. \A i \in Ids, any \in Steps :
        disk[any][i] # Unconverted[any] => disk'[any][i] # Unconverted[any]
  BY <1>5 DEF Keeps
<1>7. MigInv(m)'
  <2>1. ASSUME NEW other \in Steps
        PROVE  /\ mig'[m].pc \in {other, RowOf[other]} =>
                    Converted(other, {i \in Ids : i <= mig[m].cursor} \ mig[m].page)'
               /\ mig'[m].pc = RowOf[other] /\ mig'[m].size < Page =>
                    Converted(other, Ids \ mig[m].page)'
               /\ mig'[m].pc \in Behind[other] => Converted(other, Ids)'
    <3>1. /\ mig[m].pc \in {other, RowOf[other]} =>
               Converted(other, {i \in Ids : i <= mig[m].cursor} \ mig[m].page)
          /\ mig[m].pc = RowOf[other] /\ mig[m].size < Page =>
               Converted(other, Ids \ mig[m].page)
          /\ mig[m].pc \in Behind[other] => Converted(other, Ids)
      BY DEF BackfillInv, MigInv, Steps
    <3>2. mig'[m].pc \in {other, RowOf[other]} => other = step
      BY <1>3, StepOrder
    <3>3. mig'[m].pc \in {other, RowOf[other]} =>
            Converted(other, {i \in Ids : i <= mig[m].cursor} \ mig[m].page)'
      BY <1>2, <1>3, <1>5, <1>6, <3>1, <3>2 DEF Converted
    <3>4. mig'[m].pc = RowOf[other] /\ mig'[m].size < Page =>
            Converted(other, Ids \ mig[m].page)'
      BY <1>2, <1>3, <1>5, <1>6, <3>1, <3>2 DEF Converted
    <3>5. mig'[m].pc \in Behind[other] => Converted(other, Ids)'
      BY <1>2, <1>3, <1>6, <3>1 DEF Converted
    <3> QED
      BY <3>3, <3>4, <3>5
  <2>2. mig'[m].pc \in {"callsRow", "chunksRow"}
    BY <1>3, StepOrder
  <2>3. mig'[m].from >= 2 => Converted("calls", Ids)'
    BY <1>3, <1>6 DEF BackfillInv, MigInv, Converted, Steps
  <2> QED
    BY <2>1, <2>2, <2>3 DEF MigInv, Steps
<1>8. RowsInv'
  BY <1>4, <1>5, RowsKept DEF BackfillInv
<1>9. StampMeansConverted'
  <2>1. disk.version \in Nat
    BY <1>1 DEF Datastore, Current
  <2> QED
    BY <1>4, <1>5, <2>1, StampKept
<1> QED
  BY <1>3, <1>5, <1>7, <1>8, <1>9, OthersKept

LEMMA SameRows ==
  ASSUME disk'.calls = disk.calls, disk'.chunks = disk.chunks
  PROVE  Keeps /\ \A step \in Steps, i \in Ids : disk'[step][i] = disk[step][i]
BY DEF Keeps, Steps

LEMMA PersistCursorBackfill ==
  ASSUME TypeOK, StampMeansConverted, BackfillInv, NEW m \in Migs,
         NEW step \in Steps, PersistCursor(m, step)
  PROVE  StampMeansConverted' /\ BackfillInv'
<1>1. mig[m] \in Migration /\ mig[m].cursor \in Nat /\ disk \in Datastore
  <2>1. mig[m] \in Migration /\ disk \in Datastore
    BY MigrationTypes DEF TypeOK
  <2> QED
    BY <2>1, CursorType, Zenon
<1>2. /\ mig[m].pc = RowOf[step] /\ mig[m].page = {}
      /\ disk' = IF step = "calls" THEN [disk EXCEPT !.callsCursor = mig[m].cursor]
                 ELSE [disk EXCEPT !.chunkCursor = mig[m].cursor]
  BY DEF PersistCursor, Migrates
<1>3. /\ mig'[m].pc = IF mig[m].size < Page THEN EndOf[step] ELSE step
      /\ mig'[m].page = {} /\ mig'[m].cursor = mig[m].cursor
      /\ mig'[m].from = mig[m].from
      /\ \A n \in Migs \ {m} : mig'[n] = mig[n]
  <2> DEFINE next == IF mig[m].size < Page THEN EndOf[step] ELSE step
             rec == [mig[m] EXCEPT !.pc = next, !.size = 0]
  <2> HIDE DEF next
  <2>1. /\ rec.pc = next /\ rec.page = {} /\ rec.cursor = mig[m].cursor
        /\ rec.from = mig[m].from
    BY <1>1, <1>2 DEF Migration
  <2>2. mig' = [mig EXCEPT ![m] = rec]
    BY DEF PersistCursor, next
  <2> HIDE DEF rec
  <2> QED
    BY <2>1, <2>2, PutIs DEF next
<1>4. /\ disk'.calls = disk.calls /\ disk'.chunks = disk.chunks
      /\ disk'.version = disk.version
      /\ disk'.callsCursor = IF step = "calls" THEN mig[m].cursor ELSE disk.callsCursor
      /\ disk'.chunkCursor = IF step = "calls" THEN disk.chunkCursor ELSE mig[m].cursor
  BY <1>1, <1>2 DEF Datastore
<1>5. /\ Converted(step, {i \in Ids : i <= mig[m].cursor})
      /\ mig[m].size < Page => Converted(step, Ids)
      /\ \A other \in Steps : RowOf[step] \in Behind[other] => Converted(other, Ids)
      /\ mig[m].from >= 2 => Converted("calls", Ids)
  <2>1. MigInv(m)
    BY DEF BackfillInv
  <2>2. Converted(step, {i \in Ids : i <= mig[m].cursor} \ mig[m].page)
    BY <1>2, <2>1 DEF MigInv, Steps
  <2>3. mig[m].size < Page => Converted(step, Ids \ mig[m].page)
    BY <1>2, <2>1 DEF MigInv, Steps
  <2>4. \A other \in Steps : RowOf[step] \in Behind[other] => Converted(other, Ids)
    BY <1>2, <2>1 DEF MigInv, Steps
  <2> QED
    BY <1>2, <2>1, <2>2, <2>3, <2>4 DEF MigInv, Converted
<1>6. Keeps /\ \A any \in Steps, i \in Ids : disk'[any][i] = disk[any][i]
  BY <1>4, SameRows
<1>7. RowsInv'
  <2>1. CASE step = "calls"
    BY <1>4, <1>5, <1>6, <2>1 DEF BackfillInv, RowsInv, Converted, Steps
  <2>2. CASE step = "chunks"
    BY <1>4, <1>5, <1>6, <2>2 DEF BackfillInv, RowsInv, Converted, Steps
  <2> QED
    BY <2>1, <2>2 DEF Steps
<1>8. MigInv(m)'
  <2>1. ASSUME NEW other \in Steps
        PROVE  /\ mig'[m].pc \in {other, RowOf[other]} =>
                    Converted(other, {i \in Ids : i <= mig[m].cursor} \ mig[m].page)'
               /\ mig'[m].pc # RowOf[other]
               /\ mig'[m].pc \in Behind[other] => Converted(other, Ids)'
    <3>1. CASE mig[m].size < Page
      <4>1. mig'[m].pc = EndOf[step]
        BY <1>3, <3>1
      <4>2. EndOf[step] \in Behind[other] => Converted(other, Ids)'
        <5>1. EndOf[step] \in Behind[other] => Converted(other, Ids)
          BY <1>5, <3>1, StepOrder
        <5> QED
          BY <1>6, <5>1 DEF Converted
      <4> QED
        BY <4>1, <4>2, StepOrder
    <3>2. CASE ~(mig[m].size < Page)
      <4>1. mig'[m].pc = step
        BY <1>3, <3>2
      <4>2. step \in {other, RowOf[other]} =>
              Converted(other, {i \in Ids : i <= mig[m].cursor} \ mig[m].page)'
        <5> SUFFICES ASSUME step \in {other, RowOf[other]}
                     PROVE  Converted(other, {i \in Ids : i <= mig[m].cursor} \ mig[m].page)'
          OBVIOUS
        <5>1. other = step
          BY StepOrder
        <5>2. Converted(other, {i \in Ids : i <= mig[m].cursor})
          BY <1>5, <5>1
        <5> QED
          BY <1>3, <1>6, <5>2 DEF Converted
      <4>3. step \in Behind[other] => Converted(other, Ids)'
        <5>1. step \in Behind[other] => Converted(other, Ids)
          BY <1>5, StepOrder
        <5> QED
          BY <1>6, <5>1 DEF Converted
      <4>4. step # RowOf[other]
        BY StepOrder
      <4> QED
        BY <4>1, <4>2, <4>3, <4>4
    <3> QED
      BY <3>1, <3>2
  <2>2. mig'[m].from >= 2 => Converted("calls", Ids)'
    BY <1>3, <1>5, <1>6 DEF Converted, Steps
  <2> QED
    BY <1>3, <2>1, <2>2 DEF MigInv, Steps
<1>9. StampMeansConverted'
  <2>1. disk.version \in Nat
    BY <1>1 DEF Datastore, Current
  <2> QED
    BY <1>4, <1>6, <2>1, StampKept
<1> QED
  BY <1>3, <1>6, <1>7, <1>8, <1>9, OthersKept

(* A step that goes on to another one of the chain.                        *)
LEMMA GotoInv ==
  ASSUME TypeOK, NEW m \in Migs, NEW next, Goto(m, next),
         Keeps, mig[m].page = {},
         next \in {"stamp2", "flip", "symbols", "chunks", "stamp5"},
         Converted("calls", Ids), next = "stamp5" => Converted("chunks", Ids),
         RowsInv
  PROVE  MigInv(m)'
<1>1. /\ mig'[m].pc = next /\ mig'[m].cursor = Cursor(next) /\ mig'[m].page = {}
  BY GotoIs
<1>2. \A any \in Steps, i \in Ids :
        disk[any][i] # Unconverted[any] => disk'[any][i] # Unconverted[any]
  BY DEF Keeps
<1>3. Converted("calls", Ids)'
  BY <1>2 DEF Converted, Steps
<1>4. next = "stamp5" => Converted("chunks", Ids)'
  BY <1>2 DEF Converted, Steps
<1>5. next = "chunks" => Converted("chunks", {i \in Ids : i <= mig[m].cursor} \ mig[m].page)'
  <2> SUFFICES ASSUME next = "chunks"
               PROVE  Converted("chunks", {i \in Ids : i <= mig[m].cursor} \ mig[m].page)'
    OBVIOUS
  <2>1. mig'[m].cursor = disk.chunkCursor
    BY <1>1 DEF Cursor
  <2>2. Converted("chunks", {i \in Ids : i <= disk.chunkCursor})
    BY DEF RowsInv
  <2> QED
    BY <1>2, <2>1, <2>2 DEF Converted, Steps
<1>6. ASSUME NEW other \in Steps
      PROVE  /\ mig'[m].pc \in {other, RowOf[other]} =>
                  Converted(other, {i \in Ids : i <= mig[m].cursor} \ mig[m].page)'
             /\ mig'[m].pc # RowOf[other]
             /\ mig'[m].pc \in Behind[other] => Converted(other, Ids)'
  <2>1. CASE other = "calls"
    <3>1. next \notin {other, RowOf[other]}
      BY <2>1 DEF RowOf
    <3>2. Converted(other, Ids)'
      BY <1>3, <2>1 DEF Converted
    <3> QED
      BY <1>1, <3>1, <3>2
  <2>2. CASE other = "chunks"
    <3>1. /\ next # RowOf[other] /\ RowOf[other] = "chunksRow"
          /\ next \in Behind[other] => next = "stamp5"
      BY <2>2 DEF RowOf, Behind
    <3>2. next = "chunks" =>
            Converted(other, {i \in Ids : i <= mig[m].cursor} \ mig[m].page)'
      BY <1>5, <2>2 DEF Converted
    <3>3. next \in Behind[other] => Converted(other, Ids)'
      BY <1>4, <2>2, <3>1 DEF Converted
    <3> QED
      BY <1>1, <2>2, <3>1, <3>2, <3>3
  <2> QED
    BY <2>1, <2>2 DEF Steps
<1> QED
  BY <1>1, <1>3, <1>6 DEF MigInv, Steps

LEMMA DropCursorBackfill ==
  ASSUME TypeOK, StampMeansConverted, BackfillInv, NEW m \in Migs,
         NEW step \in Steps, DropCursor(m, step)
  PROVE  StampMeansConverted' /\ BackfillInv'
<1> DEFINE next == IF step = "calls" THEN "stamp2" ELSE "stamp5"
<1>1. mig[m].pc = EndOf[step] /\ Goto(m, next)
  BY DEF DropCursor, Migrates
<1>2. disk \in Datastore /\ disk.version \in Nat
  BY DEF TypeOK, Datastore, Current
<1>3. /\ disk'.calls = disk.calls /\ disk'.chunks = disk.chunks
      /\ disk'.version = disk.version
      /\ disk'.callsCursor \in {disk.callsCursor, 0}
      /\ disk'.chunkCursor \in {disk.chunkCursor, 0}
  BY <1>2 DEF DropCursor, Datastore
<1>4. Keeps
  BY <1>3, SameRows
<1>5. RowsInv' /\ StampMeansConverted'
  BY <1>2, <1>3, <1>4, RowsKept, StampKept DEF BackfillInv
<1>6. MigInv(m)
  BY DEF BackfillInv
<1>7. /\ mig[m].page = {} /\ Converted("calls", Ids)
      /\ next = "stamp5" => Converted("chunks", Ids)
  <2>1. mig[m].page = {}
    BY <1>1, <1>6, StepOrder DEF MigInv
  <2>2. \A other \in Steps : EndOf[step] \in Behind[other] => Converted(other, Ids)
    BY <1>1, <1>6 DEF MigInv, Steps
  <2>3. CASE step = "calls"
    BY <2>1, <2>2, <2>3 DEF Behind, EndOf, Steps
  <2>4. CASE step = "chunks"
    BY <2>1, <2>2, <2>4 DEF Behind, EndOf, Steps
  <2> QED
    BY <2>3, <2>4 DEF Steps
<1>8. MigInv(m)'
  BY <1>1, <1>4, <1>7, GotoInv DEF BackfillInv
<1> QED
  BY <1>1, <1>4, <1>5, <1>8, GotoIs, OthersKept

LEMMA StampBackfill ==
  ASSUME TypeOK, StampMeansConverted, BackfillInv, NEW m \in Migs,
         NEW version \in 2 .. Current, Stamp(m, version)
  PROVE  StampMeansConverted' /\ BackfillInv'
<1>1. disk \in Datastore /\ disk' = [disk EXCEPT !.version = version]
  BY DEF TypeOK, Stamp
<1>2. /\ disk'.calls = disk.calls /\ disk'.chunks = disk.chunks
      /\ disk'.version = version /\ disk'.callsCursor = disk.callsCursor
      /\ disk'.chunkCursor = disk.chunkCursor
  BY <1>1 DEF Datastore
<1>3. Keeps
  BY <1>2, SameRows
<1>4. RowsInv'
  BY <1>2, <1>3, RowsKept DEF BackfillInv
<1>5. MigInv(m)
  BY DEF BackfillInv
<1>6. version \in {2, 3, 4, 5}
  BY DEF Current
<1>7. /\ version = 2 => mig[m].pc = "stamp2"
      /\ version = 3 => mig[m].pc = "flip"
      /\ version = 4 => mig[m].pc = "symbols"
      /\ version = 5 => mig[m].pc = "stamp5"
  <2>1. mig[m].pc = CASE version = 2 -> "stamp2" [] version = 3 -> "flip"
                      [] version = 4 -> "symbols" [] OTHER -> "stamp5"
    BY DEF Stamp, Migrates
  <2>2. CASE version = 2
    BY <2>1, <2>2
  <2>3. CASE version = 3
    BY <2>1, <2>3
  <2>4. CASE version = 4
    BY <2>1, <2>4
  <2>5. CASE version = 5
    BY <2>1, <2>5
  <2> QED
    BY <1>6, <2>2, <2>3, <2>4, <2>5
<1>8. /\ mig[m].page = {} /\ Converted("calls", Ids)
      /\ version = 5 => Converted("chunks", Ids)
  <2>1. mig[m].pc \in Behind.calls /\ (version = 5 => mig[m].pc \in Behind.chunks)
    BY <1>6, <1>7 DEF Behind
  <2>2. mig[m].pc \notin {"callsRow", "chunksRow"}
    BY <1>6, <1>7
  <2> QED
    BY <1>5, <2>1, <2>2 DEF MigInv
<1>9. StampMeansConverted'
  BY <1>2, <1>6, <1>8, ConvertedIs DEF StampMeansConverted
<1>10. MigInv(m)' /\ \A n \in Migs \ {m} : mig'[n] = mig[n]
  <2>1. CASE version = 5
    <3>1. mig' = [mig EXCEPT ![m] = NoMig]
      BY <2>1 DEF Stamp, Current
    <3> QED
      BY <3>1, PutIs, NoMigInv
  <2>2. CASE version # 5
    <3>1. Goto(m, StepFor(version))
      BY <2>2 DEF Stamp, Current
    <3>2. StepFor(version) \in {"flip", "symbols", "chunks"}
      BY <1>6, <2>2 DEF StepFor
    <3> QED
      BY <1>3, <1>8, <3>1, <3>2, GotoInv, GotoIs DEF BackfillInv
  <2> QED
    BY <2>1, <2>2
<1> QED
  BY <1>3, <1>4, <1>9, <1>10, OthersKept

LEMMA StepForIs ==
  ASSUME NEW version \in 0 .. 4
  PROVE  /\ StepFor(version) \in {"calls", "flip", "symbols", "chunks"}
         /\ StepFor(version) # "calls" => version >= 2
<1>1. CASE version < 2
  BY <1>1 DEF StepFor
<1>2. CASE version \in {2, 3, 4}
  BY <1>2 DEF StepFor
<1> QED
  BY <1>1, <1>2

LEMMA StartBackfill ==
  ASSUME TypeOK, StampMeansConverted, BackfillInv, NEW m \in Migs, StartMigration(m)
  PROVE  StampMeansConverted' /\ BackfillInv'
<1> DEFINE first == StepFor(mig[m].from)
           rec == [mig[m] EXCEPT !.clone = cached, !.pc = first,
                                 !.cursor = Cursor(first)]
<1>1. disk' = disk /\ mig' = [mig EXCEPT ![m] = IF cached = 0 THEN NoMig ELSE rec]
  BY DEF StartMigration
<1>2. /\ mig[m] \in Migration /\ mig[m].from \in 0 .. 4
      /\ mig[m].pc = "spawned" /\ mig[m].page = {}
      /\ mig[m].from >= 2 => Converted("calls", Ids)
  <2>1. mig[m] \in Migration /\ mig[m].from \in 0 .. 4
    BY MigrationTypes DEF Migration, Current
  <2> QED
    BY <2>1 DEF StartMigration, BackfillInv, MigInv
<1>3. /\ rec.pc = first /\ rec.cursor = Cursor(first) /\ rec.page = {}
      /\ rec.from = mig[m].from
  BY <1>2 DEF Migration
<1>4. /\ first \in {"calls", "flip", "symbols", "chunks"}
      /\ first # "calls" => mig[m].from >= 2
  BY <1>2, StepForIs
<1> HIDE DEF first, rec
<1>5. mig'[m] = (IF cached = 0 THEN NoMig ELSE rec)
      /\ \A n \in Migs \ {m} : mig'[n] = mig[n]
  <2> DEFINE put == IF cached = 0 THEN NoMig ELSE rec
  <2>1. mig' = [mig EXCEPT ![m] = put]
    BY <1>1
  <2> HIDE DEF put
  <2>2. mig'[m] = put /\ \A n \in Migs \ {m} : mig'[n] = mig[n]
    BY <2>1, PutIs
  <2> QED
    BY <2>2 DEF put
<1>6. MigInv(m)'
  <2>1. CASE cached = 0
    BY <1>5, <2>1, NoMigInv
  <2>2. CASE cached # 0
    <3>1. mig'[m] = rec
      BY <1>5, <2>2
    <3>2. mig'[m].from >= 2 => Converted("calls", Ids)'
      BY <1>1, <1>2, <1>3, <3>1 DEF Converted
    <3>3. ASSUME NEW other \in Steps
          PROVE  /\ mig'[m].pc \in {other, RowOf[other]} =>
                      Converted(other, {i \in Ids : i <= mig[m].cursor} \ mig[m].page)'
                 /\ mig'[m].pc # RowOf[other]
                 /\ mig'[m].pc \in Behind[other] => Converted(other, Ids)'
      <4>1. CASE other = "calls"
        <5>1. first # RowOf[other] /\ (first \in Behind[other] => first # "calls")
          BY <1>4, <4>1 DEF RowOf, Behind
        <5>2. first \in Behind[other] => Converted(other, Ids)'
          BY <1>1, <1>2, <1>4, <4>1, <5>1 DEF Converted
        <5>3. first = "calls" =>
                Converted(other, {i \in Ids : i <= mig[m].cursor} \ mig[m].page)'
          BY <1>1, <1>3, <3>1, <4>1 DEF Cursor, BackfillInv, RowsInv, Converted
        <5> QED
          BY <1>3, <3>1, <4>1, <5>1, <5>2, <5>3
      <4>2. CASE other = "chunks"
        <5>1. first # RowOf[other] /\ first \notin Behind[other]
          BY <1>4, <4>2 DEF RowOf, Behind
        <5>2. first = "chunks" =>
                Converted(other, {i \in Ids : i <= mig[m].cursor} \ mig[m].page)'
          BY <1>1, <1>3, <3>1, <4>2 DEF Cursor, BackfillInv, RowsInv, Converted
        <5> QED
          BY <1>3, <3>1, <4>2, <5>1, <5>2
      <4> QED
        BY <4>1, <4>2 DEF Steps
    <3> QED
      BY <1>3, <3>1, <3>2, <3>3 DEF MigInv, Steps
  <2> QED
    BY <2>1, <2>2
<1> QED
  BY <1>1, <1>5, <1>6, SameDisk, OthersKept

(* Nothing that happens to a datastore breaks the promise of its stamp.    *)
LEMMA BackfillStep ==
  ASSUME TypeOK, StampMeansConverted, BackfillInv, [Next]_vars
  PROVE  StampMeansConverted' /\ BackfillInv'
<1>1. ASSUME disk' = disk, mig' = mig PROVE StampMeansConverted' /\ BackfillInv'
  BY <1>1, SameDisk, MigKept DEF BackfillInv
<1>2. ASSUME NEW o \in Openers, Lookup(o) \/ OpenerStep(o)
      PROVE  StampMeansConverted' /\ BackfillInv'
  <2>1. CASE Publish(o)
    BY <2>1, PublishBackfill
  <2>2. CASE ~Publish(o)
    BY <1>1, <1>2, <2>2
       DEF OpenerStep, Lookup, EnterGate, OpenLocked, OpenDb, OpenFails, Finish
  <2> QED
    BY <2>1, <2>2
<1>3. ASSUME NEW m \in Migs, MigrationStep(m)
      PROVE  StampMeansConverted' /\ BackfillInv'
  <2>1. CASE MigrationFails(m)
    <3>1. disk' = disk /\ mig' = [mig EXCEPT ![m] = NoMig]
      BY <2>1 DEF MigrationFails
    <3> QED
      BY <3>1, PutIs, NoMigInv, SameDisk, OthersKept
  <2>2. ASSUME NEW step \in Steps, Backfill(m, step)
        PROVE  StampMeansConverted' /\ BackfillInv'
    BY <2>2, ReadPageBackfill, UpdateRowBackfill, PersistCursorBackfill,
       DropCursorBackfill DEF Backfill
  <2> QED
    BY <1>3, <2>1, <2>2, StartBackfill, StampBackfill DEF MigrationStep, Steps
<1>4. CASE Drain
  BY <1>1, <1>4 DEF Drain
<1>5. CASE UNCHANGED vars
  BY <1>1, <1>5 DEF vars
<1> QED
  BY <1>2, <1>3, <1>4, <1>5, RunBackfill, RemoverBackfill, StopBackfill DEF Next

LEMMA InitInv == Init => IInv
<1> SUFFICES ASSUME Init PROVE IInv
  OBVIOUS
<1>1. \A p \in Openers \cup {Remover} : pc[p] = "idle"
  BY DEF Init, AtRest
<1>2. OpensAreExclusive /\ GateHeld
  BY <1>1 DEF OpensAreExclusive, GateHeld
<1>3. disk.version = 1 /\ disk.callsCursor = 0 /\ disk.chunkCursor = 0
  <2>1. CASE disk = Fresh
    BY <2>1 DEF Fresh
  <2>2. CASE disk = Old
    BY <2>2 DEF Old, Fresh
  <2> QED
    BY <2>1, <2>2 DEF Init
<1>4. StampMeansConverted
  BY <1>3 DEF StampMeansConverted
<1>5. RowsInv
  <2>1. ASSUME NEW i \in Ids PROVE ~(i <= 0)
    BY ConstantTypes
  <2> QED
    BY <1>3, <2>1, Zenon DEF RowsInv, Converted
<1>6. ASSUME NEW m \in Migs PROVE MigInv(m)
  <2>1. mig[m].pc = "free" /\ mig[m].page = {} /\ mig[m].from = 0
    BY DEF Init, AtRest, NoMig
  <2>2. ASSUME NEW step \in Steps
        PROVE  mig[m].pc \notin {step, RowOf[step]} \cup Behind[step]
    <3>1. CASE step = "calls"
      BY <2>1, <3>1 DEF RowOf, Behind
    <3>2. CASE step = "chunks"
      BY <2>1, <3>2 DEF RowOf, Behind
    <3> QED
      BY <3>1, <3>2 DEF Steps
  <2> QED
    BY <2>1, <2>2 DEF MigInv, Steps
<1> QED
  BY <1>2, <1>4, <1>5, <1>6, InitTypes DEF IInv, BackfillInv

LEMMA Inductive == IInv /\ [Next]_vars => IInv'
BY NextTypes, GateStep, BackfillStep DEF IInv

LEMMA Invariant == Spec => []IInv
BY InitInv, Inductive, PTL DEF Spec

-----------------------------------------------------------------------------

(* Every variable keeps its type: a handle in the map is the datastore     *)
(* that holds the RocksDB lock, the attempts stay below their limits, and  *)
(* a migration works on the live datastore or on none.                     *)
THEOREM StoreTypes == Spec => []TypeOK
<1>1. IInv => TypeOK
  BY DEF IInv
<1> QED
  BY <1>1, Invariant, PTL

(* The gate of get_or_open and remove_index_dir: one task at a time opens  *)
(* the datastore, never beside one that is in the map and never during a   *)
(* removal, for any number of tasks and attempts.                          *)
THEOREM StoreOpens == Spec => []OpensAreExclusive
<1>1. IInv => OpensAreExclusive
  BY DEF IInv
<1> QED
  BY <1>1, Invariant, PTL

(* A version stamp is a promise about every row, whatever the size of a    *)
(* page and of the tables, however many migrations of a datastore are      *)
(* under way, and wherever the process stops.                              *)
THEOREM StoreStamps == Spec => []StampMeansConverted
<1>1. IInv => StampMeansConverted
  BY DEF IInv
<1> QED
  BY <1>1, Invariant, PTL

=============================================================================
