------------------------ MODULE EdgeResolutionProofs ------------------------
(***************************************************************************)
(* Proofs about EdgeResolution for any files, names, imports, batch sizes  *)
(* and caps.                                                               *)
(***************************************************************************)
EXTENDS EdgeResolution, FiniteSetTheorems, SequenceTheorems, TLAPS

-----------------------------------------------------------------------------
(* Selection of the callee.                                                *)

LEMMA MinFileIs ==
  ASSUME NEW S, S \subseteq Nat, S # {}
  PROVE  MinFile(S) \in S /\ \A g \in S : MinFile(S) <= g
<1>1. PICK f \in S : \A g \in S : ~(<<g, f>> \in OpToRel(<, Nat))
  BY NatLessThanWellFounded, WFMin
<1>2. \A g \in S : ~(g < f)
  BY <1>1 DEF OpToRel
<1>3. \E f0 \in S : \A g \in S : f0 <= g
  BY <1>2
<1> QED
  BY <1>3 DEF MinFile

LEMMA PreferIs ==
  ASSUME NEW S, S \subseteq Nat, S # {}
  PROVE  PreferHandWritten(S) \in S
BY MinFileIs DEF PreferHandWritten

LEMMA ByImportIs ==
  ASSUME EdgeAssumption, NEW S, NEW from \in Files, NEW imp \in Imports
  PROVE  ByImport(S, from, imp) \subseteq S
<1> DEFINE p == Probe(imp, from)
           hits == {i \in DOMAIN p : p[i] \in S}
<1>1. p \in Seq(Files)
  BY DEF EdgeAssumption
<1>2. hits \subseteq Nat
  BY <1>1
<1>3. hits # {} => MinFile(hits) \in hits
  BY <1>2, MinFileIs
<1>4. ByImport(S, from, imp) = IF hits = {} THEN {} ELSE {p[MinFile(hits)]}
  BY DEF ByImport
<1> QED
  BY <1>3, <1>4

(* The levels, one by one.                                                 *)
LEMMA LevelsAre ==
  ASSUME NEW S, NEW from, NEW imp
  PROVE  Levels(S, from, imp) =
           IF imp = NoImport THEN <<S \cap {from}, S>>
           ELSE <<ByImport(S, from, imp), S \cap Near(imp, from), S \cap {from}, S>>
BY DEF Levels

(* select_best_candidate chooses a candidate.                              *)
LEMMA BestIs ==
  ASSUME EdgeAssumption, NEW S, S \subseteq Files, S # {},
         NEW from \in Files, NEW imp \in Imports \cup {NoImport}
  PROVE  Best(S, from, imp) \in S
<1> DEFINE lv == Levels(S, from, imp)
           filled == {i \in DOMAIN lv : lv[i] # {}}
<1>1. filled \subseteq Nat /\ filled # {} /\ \A i \in filled : lv[i] \subseteq S
  <2>1. CASE imp = NoImport
    <3>1. lv = <<S \cap {from}, S>>
      BY <2>1, LevelsAre
    <3> HIDE DEF lv
    <3> QED
      BY <3>1
  <2>2. CASE imp # NoImport
    <3>1. lv = <<ByImport(S, from, imp), S \cap Near(imp, from), S \cap {from}, S>>
      BY <2>2, LevelsAre
    <3>2. ByImport(S, from, imp) \subseteq S
      BY <2>2, ByImportIs
    <3> HIDE DEF lv
    <3> QED
      BY <3>1, <3>2
  <2> QED
    BY <2>1, <2>2
<1>2. MinFile(filled) \in filled
  BY <1>1, MinFileIs
<1>3. lv[MinFile(filled)] \subseteq S /\ lv[MinFile(filled)] # {}
  BY <1>1, <1>2
<1>4. Best(S, from, imp) = PreferHandWritten(lv[MinFile(filled)])
  BY DEF Best
<1>5. Files \subseteq Nat
  BY DEF EdgeAssumption
<1> HIDE DEF lv, filled
<1> QED
  BY <1>3, <1>4, <1>5, PreferIs

RawRows == Files \X Names \X (Imports \cup {NoImport})

(* An edge is resolved to a symbol of the table.                           *)
LEMMA ResolveIs ==
  ASSUME EdgeAssumption, NEW rows \in SUBSET RawRows, NEW table
  PROVE  \A e \in Resolve(rows, table) :
           /\ e \in Files \X Files \X Names
           /\ <<e[2], e[3]>> \in table
<1> SUFFICES ASSUME NEW e \in Resolve(rows, table)
             PROVE  e \in Files \X Files \X Names /\ <<e[2], e[3]>> \in table
  OBVIOUS
<1>1. PICK row \in rows :
        /\ Candidates(table, row[2]) # {}
        /\ e = <<row[1], Best(Candidates(table, row[2]), row[1], row[3]), row[2]>>
  BY DEF Resolve
<1>2. row[1] \in Files /\ row[2] \in Names /\ row[3] \in Imports \cup {NoImport}
  BY DEF RawRows
<1>3. Candidates(table, row[2]) \subseteq Files
  BY DEF Candidates
<1>4. Best(Candidates(table, row[2]), row[1], row[3]) \in Candidates(table, row[2])
  BY <1>1, <1>2, <1>3, BestIs
<1> QED
  BY <1>1, <1>2, <1>3, <1>4 DEF Candidates

-----------------------------------------------------------------------------
(* Types, and what a run has in memory in which phase.                     *)

CallRows == Files \X Files \X Names
SymbolRows == Files \X Names
Tables == {"calls", "symbol", "raw_edge", "file_meta", "marker"}
Kinds == {"none", "rebuild", "incremental", "replay"}
Phases == {"idle", "delete", "symbols", "edges", "commit", "resolve", "write"}

Types ==
  /\ disk \in [Files -> Contents \cup {NoFile}]
  /\ meta \in [Files -> Contents \cup {NoFile}]
  /\ symbol \in SUBSET SymbolRows /\ pendSym \in SUBSET SymbolRows
  /\ raw \in SUBSET RawRows /\ ram \in SUBSET RawRows
  /\ calls \in SUBSET CallRows /\ edges \in SUBSET CallRows
  /\ run \in [kind : Kinds, affected : SUBSET Files, callers : SUBSET Files,
              scope : SUBSET Files]
  /\ phase \in Phases
  /\ todo \in Seq(Tables)
  /\ resolved \in BOOLEAN /\ overflowed \in BOOLEAN

(* A file is read while it is there: the tree changes between runs.        *)
Shape ==
  /\ phase = "idle" =>
       /\ run = NoRun /\ toStore = {} /\ pendSym = {} /\ pendMeta = {} /\ ram = {}
       /\ ~overflowed
  /\ phase # "write" => edges = {}
  /\ phase \in {"delete", "symbols", "edges", "commit"} =>
       run.kind \in {"rebuild", "incremental"}
  /\ toStore \subseteq Present /\ pendMeta \subseteq Present
  /\ phase = "edges" => inHand \in Present
  /\ phase = "delete" => todo # <<>>

LEMMA RowTypes ==
  ASSUME EdgeAssumption, Types, NEW f \in Present
  PROVE  f \in Files /\ Defs(f, disk[f]) \in SUBSET SymbolRows
         /\ Raw(f, disk[f]) \in SUBSET RawRows
<1>1. f \in Files /\ disk[f] \in Contents
  BY DEF Present, Types
<1>2. disk[f].defs \in SUBSET Names /\ disk[f].sites \in SUBSET Sites
  BY <1>1 DEF EdgeAssumption
<1>3. Defs(f, disk[f]) \in SUBSET SymbolRows
  BY <1>1, <1>2 DEF Defs, SymbolRows
<1>4. \A s \in disk[f].sites : <<f, s[1], s[2]>> \in RawRows
  BY <1>1, <1>2 DEF Sites, RawRows
<1>5. Raw(f, disk[f]) \in SUBSET RawRows
  BY <1>4 DEF Raw
<1> QED
  BY <1>1, <1>3, <1>5

LEMMA ResolveTypes ==
  ASSUME EdgeAssumption, NEW rows \in SUBSET RawRows, NEW table
  PROVE  Resolve(rows, table) \in SUBSET CallRows
BY ResolveIs DEF CallRows

LEMMA BeginTypes ==
  ASSUME Types, Shape, NEW kind \in {"rebuild", "incremental", "replay"},
         NEW affected \in SUBSET Files, NEW order \in Seq(Tables),
         NEW files \in SUBSET Present, kind # "replay" => order # <<>>,
         Begin(kind, affected, order, files)
  PROVE  Types' /\ Shape'
<1>1. {c[1] : c \in {c \in calls : c[2] \in affected}} \ affected \in SUBSET Files
  BY DEF Types, CallRows
<1>2. run' \in [kind : Kinds, affected : SUBSET Files, callers : SUBSET Files,
                scope : SUBSET Files]
  BY <1>1 DEF Begin, Kinds
<1>3. Types'
  BY <1>2 DEF Types, Begin, tables, memory, Phases
<1>4. Shape'
  BY DEF Shape, Begin, tables, memory, Present
<1> QED
  BY <1>3, <1>4

LEMMA Orders ==
  /\ AllOrder \in Seq(Tables) /\ AllOrder # <<>> /\ Head(AllOrder) = "calls"
  /\ BulkOrder \in Seq(Tables) /\ BulkOrder # <<>> /\ Head(BulkOrder) = "calls"
  /\ <<>> \in Seq(Tables)
BY DEF AllOrder, BulkOrder, Tables

LEMMA StartTypes ==
  ASSUME Types, Shape,
         StartRebuild \/ (\E F \in SUBSET Files : StartIncremental(F)) \/ StartReplay
  PROVE  Types' /\ Shape'
<1>1. Present \in SUBSET Files
  BY DEF Present
<1>2. CASE Rebuild
  BY <1>1, <1>2, BeginTypes, Orders DEF Rebuild
<1>3. ASSUME NEW F \in SUBSET Files, StartIncremental(F) PROVE Types' /\ Shape'
  <2>1. F \cap Present \in SUBSET Present
    OBVIOUS
  <2>2. Begin("incremental", F, BulkOrder, F \cap Present)
    BY <1>3 DEF StartIncremental
  <2> QED
    BY <2>1, <2>2, BeginTypes, Orders
<1>4. CASE Begin("replay", {}, <<>>, {})
  <2>1. {} \in SUBSET Files /\ {} \in SUBSET Present /\ <<>> \in Seq(Tables)
    BY Orders
  <2> QED
    BY <1>4, <2>1, BeginTypes
<1>5. StartRebuild => Rebuild
  BY DEF StartRebuild
<1>6. StartReplay => Rebuild \/ Begin("replay", {}, <<>>, {})
  BY DEF StartReplay
<1>7. CASE \E F \in SUBSET Files : StartIncremental(F)
  BY <1>3, <1>7
<1> QED
  BY <1>2, <1>4, <1>5, <1>6, <1>7

LEMMA DeleteTypes ==
  ASSUME Types, Shape, DeleteTable
  PROVE  Types' /\ Shape'
<1>1. todo' \in Seq(Tables) /\ (Len(todo) # 1 => todo' # <<>>)
  <2>1. todo \in Seq(Tables) /\ todo # <<>> /\ todo' = Tail(todo)
    BY DEF Types, DeleteTable
  <2>2. Tail(todo) \in Seq(Tables) /\ Len(Tail(todo)) = Len(todo) - 1 /\ Len(todo) \in Nat
    BY <2>1, HeadTailProperties
  <2>3. Tail(todo) = <<>> => Len(Tail(todo)) = 0
    BY EmptySeq
  <2> QED
    BY <2>1, <2>2, <2>3
<1>2. /\ calls' \in SUBSET CallRows /\ symbol' \in SUBSET SymbolRows
      /\ raw' \in SUBSET RawRows
  BY DEF Types, DeleteTable, Untouched
<1>3. meta' \in [Files -> Contents \cup {NoFile}] /\ resolved' \in BOOLEAN
  BY DEF Types, DeleteTable
<1>4. phase' \in {"symbols", "delete"} /\ (phase' = "delete" => Len(todo) # 1)
      /\ phase = "delete"
  BY DEF DeleteTable
<1>5. UNCHANGED <<disk, run, toStore, inHand, pendSym, pendMeta, ram, overflowed, edges>>
  BY DEF DeleteTable, memory
<1>6. Types'
  BY <1>1, <1>2, <1>3, <1>4, <1>5 DEF Types, Phases
<1>7. Shape'
  BY <1>1, <1>4, <1>5 DEF Shape, Present
<1> QED
  BY <1>6, <1>7

LEMMA StoreTypes ==
  ASSUME EdgeAssumption, Types, Shape,
         (\E f \in Files : StoreSymbols(f)) \/ StoreEdges \/ FlushTail \/ CommitTail
  PROVE  Types' /\ Shape'
<1>1. ASSUME NEW f \in Files, StoreSymbols(f) PROVE Types' /\ Shape'
  <2>1. f \in Present /\ Defs(f, disk[f]) \in SUBSET SymbolRows
    BY <1>1, RowTypes DEF StoreSymbols, Shape
  <2>2. symbol' \in SUBSET SymbolRows /\ pendSym' \in SUBSET SymbolRows
    BY <1>1, <2>1 DEF StoreSymbols, Types
  <2>3. /\ phase = "symbols" /\ phase' = "edges" /\ todo' = <<>>
        /\ toStore' = toStore \ {f} /\ inHand' = f
        /\ UNCHANGED <<disk, run, meta, raw, calls, resolved, pendMeta, ram, overflowed, edges>>
    BY <1>1 DEF StoreSymbols
  <2>4. Types'
    BY <2>2, <2>3 DEF Types, Phases
  <2>5. Shape'
    BY <2>1, <2>3 DEF Shape, Present
  <2> QED
    BY <2>4, <2>5
<1>2. CASE StoreEdges
  <2>1. inHand \in Present /\ Raw(inHand, disk[inHand]) \in SUBSET RawRows
    BY <1>2, RowTypes DEF StoreEdges, Shape
  <2>2. raw' \in SUBSET RawRows /\ ram' \in SUBSET RawRows /\ overflowed' \in BOOLEAN
    BY <1>2, <2>1 DEF StoreEdges, BufferEdges, Types
  <2>3. PICK flushed \in {{}, pendMeta} :
          Commit(flushed) /\ pendMeta' = (pendMeta \ flushed) \cup {inHand}
    BY <1>2 DEF StoreEdges
  <2>4. meta' \in [Files -> Contents \cup {NoFile}]
    BY <2>3 DEF Commit, Types
  <2>5. /\ phase = "edges" /\ phase' = "symbols"
        /\ UNCHANGED <<disk, run, symbol, calls, resolved, todo, toStore, pendSym, edges>>
    BY <1>2 DEF StoreEdges
  <2>6. Types'
    BY <2>2, <2>4, <2>5 DEF Types, Phases
  <2>7. Shape'
    BY <2>1, <2>3, <2>5 DEF Shape, Present
  <2> QED
    BY <2>6, <2>7
<1>3. CASE FlushTail
  <2>1. Types'
    BY <1>3 DEF FlushTail, Types, Phases
  <2>2. Shape'
    BY <1>3 DEF FlushTail, Shape, Present
  <2> QED
    BY <2>1, <2>2
<1>4. CASE CommitTail
  <2>1. meta' \in [Files -> Contents \cup {NoFile}]
    BY <1>4 DEF CommitTail, Commit, Types
  <2>2. Types'
    BY <1>4, <2>1 DEF CommitTail, Types, Phases
  <2>3. Shape'
    BY <1>4 DEF CommitTail, Shape, Present
  <2> QED
    BY <2>2, <2>3
<1> QED
  BY <1>1, <1>2, <1>3, <1>4

LEMMA PhaseTwoTypes ==
  ASSUME EdgeAssumption, Types, Shape,
         ResolveFromRam \/ ResolveFromTable \/ ResolveIncremental \/ FlushEdges
  PROVE  Types' /\ Shape'
<1>1. CASE ResolveFromRam
  <2>1. edges' \in SUBSET CallRows
    BY <1>1, ResolveTypes DEF ResolveFromRam, Types
  <2>2. Types'
    BY <1>1, <2>1 DEF ResolveFromRam, Types, tables, memory, Phases
  <2>3. Shape'
    BY <1>1 DEF ResolveFromRam, Shape, tables, memory, Present
  <2> QED
    BY <2>2, <2>3
<1>2. CASE ResolveFromTable
  <2>1. edges' \in SUBSET CallRows
    BY <1>2, ResolveTypes DEF ResolveFromTable, Types
  <2>2. Types'
    BY <1>2, <2>1 DEF ResolveFromTable, Types, memory, Phases
  <2>3. Shape'
    BY <1>2 DEF ResolveFromTable, Shape, memory, Present
  <2> QED
    BY <2>2, <2>3
<1>3. CASE ResolveIncremental
  <2>1. {e \in raw : e[1] \in ResolveSet} \in SUBSET RawRows
    BY DEF Types
  <2>2. edges' \in SUBSET CallRows
    BY <1>3, <2>1, ResolveTypes DEF ResolveIncremental
  <2>3. ResolveSet \in SUBSET Files
    BY DEF ResolveSet, Types, RawRows
  <2>4. run' = [run EXCEPT !.scope = ResolveSet] /\ calls' \in SUBSET CallRows
    BY <1>3 DEF ResolveIncremental, Types
  <2>5. run' \in [kind : Kinds, affected : SUBSET Files, callers : SUBSET Files,
                  scope : SUBSET Files]
    BY <2>3, <2>4 DEF Types
  <2>6. Types'
    BY <1>3, <2>2, <2>4, <2>5 DEF ResolveIncremental, Types, memory, Phases
  <2>7. Shape'
    BY <1>3 DEF ResolveIncremental, Shape, memory, Present
  <2> QED
    BY <2>6, <2>7
<1>4. CASE FlushEdges
  <2>1. calls' \in SUBSET CallRows /\ edges' \in SUBSET CallRows
    BY <1>4 DEF FlushEdges, Types
  <2>2. Types'
    BY <1>4, <2>1 DEF FlushEdges, Types, memory
  <2>3. Shape'
    BY <1>4 DEF FlushEdges, Shape, memory, Present
  <2> QED
    BY <2>2, <2>3
<1> QED
  BY <1>1, <1>2, <1>3, <1>4

LEMMA EndTypes ==
  ASSUME Types, Shape, (\E f \in Files : Edit(f)) \/ EndRun \/ Interrupt
  PROVE  Types' /\ Shape'
<1>1. NoRun \in [kind : Kinds, affected : SUBSET Files, callers : SUBSET Files,
                 scope : SUBSET Files]
  BY DEF NoRun, Kinds
<1>2. ASSUME NEW f \in Files, Edit(f) PROVE Types' /\ Shape'
  <2>1. disk' \in [Files -> Contents \cup {NoFile}]
    BY <1>2 DEF Edit, Types
  <2>2. Types'
    BY <1>2, <2>1 DEF Edit, Types, tables, memory
  <2>3. Shape'
    BY <1>2 DEF Edit, Shape, tables, memory
  <2> QED
    BY <2>2, <2>3
<1>3. CASE EndRun
  <2>1. Types'
    BY <1>1, <1>3, Orders DEF EndRun, Forget, Types, Phases
  <2>2. Shape'
    BY <1>3 DEF EndRun, Forget, Shape, Present
  <2> QED
    BY <2>1, <2>2
<1>4. CASE Interrupt
  <2>1. Types'
    BY <1>1, <1>4, Orders DEF Interrupt, Forget, Types, Phases, tables
  <2>2. Shape'
    BY <1>4 DEF Interrupt, Forget, Shape, Present, tables
  <2> QED
    BY <2>1, <2>2
<1> QED
  BY <1>2, <1>3, <1>4

LEMMA NextTypes ==
  ASSUME EdgeAssumption, Types, Shape, [Next]_vars
  PROVE  Types' /\ Shape'
<1>1. CASE UNCHANGED vars
  BY <1>1 DEF Types, Shape, vars, tables, memory, history, Present
<1> QED
  BY <1>1, StartTypes, DeleteTypes, StoreTypes, PhaseTwoTypes, EndTypes DEF Next

-----------------------------------------------------------------------------
(* No call dangles.                                                        *)

(* Calls into the affected files go before any symbol does, and what is    *)
(* still to be written points to symbols as well.                          *)
Points ==
  /\ CallsPointToSymbols
  /\ \A e \in edges : <<e[2], e[3]>> \in symbol
  /\ phase = "delete" =>
       Head(todo) = "calls" \/ \A c \in calls : c[2] \notin run.affected

LEMMA DeletePoints ==
  ASSUME Types, Shape, Points, DeleteTable
  PROVE  Points'
<1>1. run' = run /\ phase = "delete" /\ edges' = {}
  BY DEF DeleteTable, Shape
<1>2. CASE Head(todo) = "calls"
  <2>1. /\ calls' = {c \in Untouched(calls) : c[2] \notin run.affected}
        /\ symbol' = symbol
    BY <1>2 DEF DeleteTable
  <2> QED
    BY <1>1, <2>1 DEF Points, CallsPointToSymbols, Untouched
<1>3. CASE Head(todo) # "calls"
  <2>1. calls' = calls /\ symbol' \in {symbol, Untouched(symbol)}
    BY <1>3 DEF DeleteTable
  <2>2. \A c \in calls : c[2] \notin run.affected /\ <<c[2], c[3]>> \in symbol
    BY <1>1, <1>3 DEF Points, CallsPointToSymbols
  <2>3. \A c \in calls : <<c[2], c[3]>> \in Untouched(symbol)
    BY <2>2 DEF Untouched
  <2> QED
    BY <1>1, <2>1, <2>2, <2>3 DEF Points, CallsPointToSymbols
<1> QED
  BY <1>2, <1>3

LEMMA BeginPoints ==
  ASSUME Shape, Points, NEW kind, NEW affected, NEW order, NEW files,
         kind # "replay" => Head(order) = "calls",
         Begin(kind, affected, order, files)
  PROVE  Points'
<1>1. /\ calls' = calls /\ symbol' = symbol /\ edges' = edges /\ todo' = order
      /\ phase' = IF kind = "replay" THEN "resolve" ELSE "delete"
  BY DEF Begin, tables
<1> QED
  BY <1>1 DEF Points, CallsPointToSymbols

LEMMA NextPoints ==
  ASSUME EdgeAssumption, Types, Shape, Points, [Next]_vars
  PROVE  Points'
<1>1. ASSUME calls' = calls, edges' = edges, symbol \subseteq symbol',
             phase' # "delete" \/ UNCHANGED <<phase, todo, run>>
      PROVE  Points'
  BY <1>1 DEF Points, CallsPointToSymbols
<1>2. CASE StartRebuild \/ (\E F \in SUBSET Files : StartIncremental(F)) \/ StartReplay
  <2>1. CASE Rebuild
    BY <2>1, BeginPoints, Orders DEF Rebuild
  <2>2. ASSUME NEW F \in SUBSET Files, StartIncremental(F) PROVE Points'
    BY <2>2, BeginPoints, Orders DEF StartIncremental
  <2>3. CASE Begin("replay", {}, <<>>, {})
    BY <2>3, BeginPoints
  <2>4. StartRebuild => Rebuild
    BY DEF StartRebuild
  <2>5. StartReplay => Rebuild \/ Begin("replay", {}, <<>>, {})
    BY DEF StartReplay
  <2>6. CASE \E F \in SUBSET Files : StartIncremental(F)
    BY <2>2, <2>6
  <2> QED
    BY <1>2, <2>1, <2>3, <2>4, <2>5, <2>6
<1>3. ASSUME NEW f \in Files, Edit(f) \/ StoreSymbols(f) PROVE Points'
  BY <1>1, <1>3 DEF Edit, StoreSymbols, tables
<1>4. CASE StoreEdges
  BY <1>1, <1>4 DEF StoreEdges
<1>5. CASE FlushTail \/ CommitTail
  BY <1>1, <1>5 DEF FlushTail, CommitTail
<1>6. CASE ResolveFromRam
  <2>1. \A e \in edges' : <<e[2], e[3]>> \in symbol
    BY <1>6, ResolveIs DEF ResolveFromRam, Types
  <2> QED
    BY <1>6, <2>1 DEF ResolveFromRam, tables, Points, CallsPointToSymbols
<1>7. CASE ResolveFromTable
  <2>1. \A e \in edges' : <<e[2], e[3]>> \in symbol
    BY <1>7, ResolveIs DEF ResolveFromTable, Types
  <2> QED
    BY <1>7, <2>1 DEF ResolveFromTable, Points, CallsPointToSymbols
<1>8. CASE ResolveIncremental
  <2>1. {e \in raw : e[1] \in ResolveSet} \in SUBSET RawRows
    BY DEF Types
  <2>2. \A e \in edges' : <<e[2], e[3]>> \in symbol
    BY <1>8, <2>1, ResolveIs DEF ResolveIncremental
  <2>3. calls' \subseteq calls /\ symbol' = symbol /\ phase' = "write"
    BY <1>8 DEF ResolveIncremental
  <2> QED
    BY <2>2, <2>3 DEF Points, CallsPointToSymbols
<1>9. CASE FlushEdges
  BY <1>9 DEF FlushEdges, Points, CallsPointToSymbols
<1>10. CASE EndRun
  BY <1>10 DEF EndRun, Forget, Points, CallsPointToSymbols
<1>11. CASE Interrupt
  BY <1>11 DEF Interrupt, Forget, tables, Points, CallsPointToSymbols
<1>12. CASE UNCHANGED vars
  BY <1>1, <1>12 DEF vars, tables
<1> QED
  BY <1>2, <1>3, <1>4, <1>5, <1>6, <1>7, <1>8, <1>9, <1>10, <1>11, <1>12, DeletePoints
     DEF Next

-----------------------------------------------------------------------------
(* The symbols, raw edges and calls of some files of a content.            *)

DefsOf(content, S) == UNION {Defs(f, content[f]) : f \in S}
RawOf(content, S) == UNION {Raw(f, content[f]) : f \in S}
RefOn(content, S) == Resolve(RawOf(content, S), DefsOf(content, S))

LEMMA ReferenceIs ==
  ASSUME NEW content
  PROVE  Reference(content) = RefOn(content, {f \in Files : content[f] # NoFile})
BY DEF Reference, RefOn, RawOf, DefsOf

LEMMA FromIs ==
  ASSUME NEW content, NEW S
  PROVE  /\ \A s \in DefsOf(content, S) : s[1] \in S /\ s \in Defs(s[1], content[s[1]])
         /\ \A e \in RawOf(content, S) : e[1] \in S /\ e \in Raw(e[1], content[e[1]])
BY DEF DefsOf, RawOf, Defs, Raw

Without(rows, A) == {r \in rows : r[1] \notin A}

LEMMA CutIs ==
  ASSUME NEW content, NEW S, NEW A
  PROVE  /\ Without(DefsOf(content, S), A) = DefsOf(content, S \ A)
         /\ Without(RawOf(content, S), A) = RawOf(content, S \ A)
<1>1. \A s : s \in DefsOf(content, S) /\ s[1] \notin A => s \in DefsOf(content, S \ A)
  BY FromIs DEF DefsOf
<1>2. \A s \in DefsOf(content, S \ A) : s \in DefsOf(content, S) /\ s[1] \notin A
  <2>1. \A s \in DefsOf(content, S \ A) : s[1] \in S \ A
    BY FromIs
  <2>2. DefsOf(content, S \ A) \subseteq DefsOf(content, S)
    BY DEF DefsOf
  <2> QED
    BY <2>1, <2>2
<1>3. \A e : e \in RawOf(content, S) /\ e[1] \notin A => e \in RawOf(content, S \ A)
  BY FromIs DEF RawOf
<1>4. \A e \in RawOf(content, S \ A) : e \in RawOf(content, S) /\ e[1] \notin A
  <2>1. \A e \in RawOf(content, S \ A) : e[1] \in S \ A
    BY FromIs
  <2>2. RawOf(content, S \ A) \subseteq RawOf(content, S)
    BY DEF RawOf
  <2> QED
    BY <2>1, <2>2
<1>5. Without(DefsOf(content, S), A) = DefsOf(content, S \ A)
  BY <1>1, <1>2 DEF Without
<1>6. Without(RawOf(content, S), A) = RawOf(content, S \ A)
  BY <1>3, <1>4 DEF Without
<1> QED
  BY <1>5, <1>6

LEMMA DefsUnionIs ==
  ASSUME NEW content, NEW S, NEW T, NEW U, U = S \cup T
  PROVE  DefsOf(content, U) = DefsOf(content, S) \cup DefsOf(content, T)
BY DEF DefsOf

LEMMA RawUnionIs ==
  ASSUME NEW content, NEW S, NEW T, NEW U, U = S \cup T
  PROVE  RawOf(content, U) = RawOf(content, S) \cup RawOf(content, T)
BY DEF RawOf

LEMMA EmptyIs ==
  ASSUME NEW content
  PROVE  DefsOf(content, {}) = {} /\ RawOf(content, {}) = {}
BY DEF DefsOf, RawOf

LEMMA SingleIs ==
  ASSUME NEW content, NEW f
  PROVE  /\ DefsOf(content, {f}) = Defs(f, content[f])
         /\ RawOf(content, {f}) = Raw(f, content[f])
BY DEF DefsOf, RawOf

LEMMA SameContent ==
  ASSUME NEW content, NEW other, NEW S, \A f \in S : content[f] = other[f]
  PROVE  DefsOf(content, S) = DefsOf(other, S) /\ RawOf(content, S) = RawOf(other, S)
<1>1. \A f \in S : Defs(f, content[f]) = Defs(f, other[f]) /\ Raw(f, content[f]) = Raw(f, other[f])
  OBVIOUS
<1> QED
  BY <1>1 DEF DefsOf, RawOf

-----------------------------------------------------------------------------
(* The tables of the files.                                                *)

Has(t) == \E i \in DOMAIN todo : todo[i] = t
Old == Indexed \ run.affected
Stored == (run.affected \cap Present) \ toStore
Written == IF phase = "edges" THEN Stored \ {inHand} ELSE Stored

(* Nothing was interrupted in a way that leaves the tables incomplete.     *)
Known == run.kind = "rebuild" \/ clean \/ owed

(* The tables are those of the contents file_meta has committed.           *)
Consistent ==
  /\ symbol = DefsOf(meta, Indexed)
  /\ raw \cup ram \subseteq RawOf(meta, Indexed)

(* The rows of other files stay, those of affected ones go in turn.        *)
DeleteInv ==
  /\ toStore = run.affected \cap Present
  /\ pendSym = {} /\ pendMeta = {} /\ ram = {} /\ ~overflowed
  /\ Untouched(symbol) = DefsOf(meta, Old)
  /\ Untouched(raw) \subseteq RawOf(meta, Old)
  /\ Has("symbol") \/ symbol = Untouched(symbol)
  /\ Has("raw_edge") \/ raw = Untouched(raw)
  /\ Has("file_meta") \/ \A f \in run.affected : meta[f] = NoFile

(* The files stored so far are in the tables or in memory.                 *)
ScanInv ==
  /\ toStore \subseteq run.affected \cap Present
  /\ phase = "edges" => inHand \in Stored
  /\ symbol \cup pendSym = DefsOf(meta, Old) \cup DefsOf(disk, Stored)
  /\ raw \cup ram \subseteq RawOf(meta, Old) \cup RawOf(disk, Written)
  /\ RawOf(disk, Written) \subseteq raw \cup ram
  /\ pendMeta \subseteq Written
  /\ \A f \in run.affected :
       meta[f] = IF f \in Written \ pendMeta THEN disk[f] ELSE NoFile
  /\ phase = "commit" => toStore = {} /\ pendSym = {}

StoreInv ==
  Known =>
    /\ phase = "delete" => DeleteInv
    /\ phase \in {"symbols", "edges", "commit"} => ScanInv
    /\ phase \in {"idle", "resolve", "write"} => Consistent
    /\ phase \in {"resolve", "write"} =>
         RawOf(meta, Indexed \cap run.affected) \subseteq raw \cup ram

(* Where the raw edges of a rebuild are.                                   *)
RamInv ==
  /\ run.kind # "rebuild" => ram = {}
  /\ run.kind = "rebuild" =>
       /\ run.affected = Files
       /\ phase # "delete" => IF overflowed THEN ram = {} ELSE raw = {}
       /\ phase \in {"resolve", "write"} => meta = disk

LEMMA TailHas ==
  ASSUME todo \in Seq(Tables), todo # <<>>, todo' = Tail(todo)
  PROVE  /\ \A t : Has(t) => Head(todo) = t \/ Has(t)'
         /\ Len(todo) = 1 => \A t : ~Has(t)'
<1>1. /\ Tail(todo) \in Seq(Tables) /\ Len(Tail(todo)) = Len(todo) - 1
      /\ \A i \in 1 .. Len(Tail(todo)) : Tail(todo)[i] = todo[i + 1]
      /\ Len(todo) \in Nat
  BY HeadTailProperties
<1>2. DOMAIN todo = 1 .. Len(todo) /\ DOMAIN todo' = 1 .. Len(todo) - 1
  BY <1>1
<1>3. ASSUME NEW i \in DOMAIN todo, i # 1 PROVE todo'[i - 1] = todo[i] /\ i - 1 \in DOMAIN todo'
  BY <1>1, <1>2, <1>3
<1>4. Head(todo) = todo[1]
  OBVIOUS
<1>5. ASSUME NEW t, Has(t) PROVE Head(todo) = t \/ Has(t)'
  BY <1>3, <1>4, <1>5 DEF Has
<1>6. Len(todo) = 1 => DOMAIN todo' = {}
  BY <1>2
<1> QED
  BY <1>5, <1>6 DEF Has

LEMMA OrderHas ==
  ASSUME NEW order \in {AllOrder, BulkOrder}, todo' = order,
         NEW t \in {"calls", "symbol", "raw_edge", "file_meta"}
  PROVE  Has(t)'
<1>1. \E i \in DOMAIN order : order[i] = t
  BY DEF AllOrder, BulkOrder
<1> QED
  BY <1>1 DEF Has

(* A run begins with tables of which it keeps the rows of other files.     *)
LEMMA BeginStore ==
  ASSUME EdgeAssumption, Types, Shape, StoreInv, RamInv,
         NEW kind \in {"rebuild", "incremental", "replay"},
         NEW affected \in SUBSET Files, NEW order,
         kind # "replay" => order \in {AllOrder, BulkOrder},
         kind = "rebuild" => affected = Files, kind = "replay" => affected = {},
         Begin(kind, affected, order, affected \cap Present)
  PROVE  StoreInv' /\ RamInv'
<1>1. /\ phase = "idle" /\ run'.kind = kind /\ run'.affected = affected
      /\ phase' = (IF kind = "replay" THEN "resolve" ELSE "delete")
      /\ todo' = order /\ toStore' = affected \cap Present
      /\ UNCHANGED <<disk, meta, symbol, raw, calls, resolved, inHand, pendSym,
                     pendMeta, ram, overflowed, edges, clean, owed>>
  BY DEF Begin, tables, memory, history
<1>2. ram = {} /\ pendSym = {} /\ pendMeta = {} /\ ~overflowed /\ run = NoRun
  BY <1>1 DEF Shape
<1>3. RamInv'
  BY <1>1, <1>2 DEF RamInv
<1>4. CASE kind = "replay"
  <2>1. Known' => Known
    BY <1>1, <1>4 DEF Known
  <2>2. Known => Consistent'
    BY <1>1 DEF StoreInv, Consistent, Indexed
  <2>3. phase' = "resolve" /\ toStore' = affected \cap Present
    BY <1>1, <1>4
  <2>4. Known => RawOf(meta, Indexed \cap run.affected)' \subseteq raw' \cup ram'
    <3>1. Indexed' \cap run'.affected = {}
      BY <1>1, <1>4
    <3>2. RawOf(meta', {}) = {}
      BY EmptyIs
    <3> QED
      BY <3>1, <3>2
  <2>5. Known' => StoreInv'
    BY <2>1, <2>2, <2>3, <2>4 DEF StoreInv
  <2> QED
    BY <1>3, <2>5 DEF StoreInv
<1>5. CASE kind # "replay"
  <2>1. Known' => kind = "rebuild" \/ Consistent
    BY <1>1 DEF Known, StoreInv
  <2>2. Old' = Indexed \ affected /\ Indexed' = Indexed
    BY <1>1 DEF Old, Indexed
  <2>3. ASSUME Known'
        PROVE  /\ Without(symbol, affected) = DefsOf(meta, Indexed \ affected)
               /\ Without(raw, affected) \subseteq RawOf(meta, Indexed \ affected)
    <3>1. CASE kind = "rebuild"
      <4>1. Indexed \ affected = {}
        BY <3>1 DEF Indexed
      <4>2. Without(symbol, affected) = {} /\ Without(raw, affected) = {}
        BY <3>1 DEF Types, SymbolRows, RawRows, Without
      <4> QED
        BY <4>1, <4>2, EmptyIs
    <3>2. CASE Consistent
      <4>1. /\ Without(DefsOf(meta, Indexed), affected) = DefsOf(meta, Indexed \ affected)
            /\ Without(RawOf(meta, Indexed), affected) = RawOf(meta, Indexed \ affected)
        BY CutIs
      <4>2. Without(raw, affected) \subseteq Without(RawOf(meta, Indexed), affected)
        BY <3>2 DEF Consistent, Without
      <4> QED
        BY <3>2, <4>1, <4>2 DEF Consistent
    <3> QED
      BY <2>1, <2>3, <3>1, <3>2
  <2>4. Has("symbol")' /\ Has("raw_edge")' /\ Has("file_meta")'
    BY <1>1, <1>5, OrderHas
  <2>5. Present' = Present
    BY <1>1 DEF Present
  <2>6. Known' => DeleteInv'
    BY <1>1, <1>2, <2>2, <2>3, <2>4, <2>5 DEF DeleteInv, Untouched, Without
  <2> QED
    BY <1>1, <1>3, <1>5, <2>6 DEF StoreInv
<1> QED
  BY <1>3, <1>4, <1>5

(* A step that leaves the rows of file_meta of other files alone.          *)
LEMMA OldSame ==
  ASSUME Types, run' = run, \A f \in Files \ run.affected : meta'[f] = meta[f]
  PROVE  /\ Old' = Old
         /\ DefsOf(meta, Old)' = DefsOf(meta, Old)
         /\ RawOf(meta, Old)' = RawOf(meta, Old)
<1>1. Old' = Old
  BY DEF Old, Indexed
<1>2. \A f \in Old : meta[f] = meta'[f]
  BY DEF Old, Indexed
<1>3. DefsOf(meta, Old) = DefsOf(meta', Old) /\ RawOf(meta, Old) = RawOf(meta', Old)
  BY <1>2, SameContent
<1> QED
  BY <1>1, <1>3

(* The deletes are done: nothing is stored yet.                            *)
LEMMA DeletesDone ==
  ASSUME phase' = "symbols", DeleteInv', \A t : ~Has(t)'
  PROVE  ScanInv'
<1>1. ~Has("symbol")' /\ ~Has("raw_edge")' /\ ~Has("file_meta")'
  OBVIOUS
<1>2. Stored' = {} /\ Written' = {}
  BY DEF DeleteInv, Stored, Written
<1>3. DefsOf(disk', {}) = {} /\ RawOf(disk', {}) = {}
  BY EmptyIs
<1> QED
  BY <1>1, <1>2, <1>3 DEF DeleteInv, ScanInv

LEMMA DeleteStore ==
  ASSUME EdgeAssumption, Types, Shape, StoreInv, RamInv, DeleteTable
  PROVE  StoreInv' /\ RamInv'
<1>1. /\ phase = "delete" /\ todo # <<>> /\ todo' = Tail(todo)
      /\ phase' = IF Len(todo) = 1 THEN "symbols" ELSE "delete"
      /\ UNCHANGED <<disk, run, toStore, inHand, pendSym, pendMeta, ram, overflowed, clean, owed>>
  BY DEF DeleteTable, memory, history
<1>2. /\ \A t : Has(t) => Head(todo) = t \/ Has(t)'
      /\ Len(todo) = 1 => \A t : ~Has(t)'
  BY <1>1, TailHas DEF Types
<1>3. /\ symbol' = IF Head(todo) # "symbol" THEN symbol ELSE Untouched(symbol)
      /\ raw' = IF Head(todo) # "raw_edge" THEN raw ELSE Untouched(raw)
      /\ meta' = IF Head(todo) # "file_meta" THEN meta
                 ELSE [f \in Files |-> IF f \in run.affected THEN NoFile ELSE meta[f]]
  BY DEF DeleteTable
<1>4. /\ Untouched(symbol)' = Untouched(symbol) /\ Untouched(raw)' = Untouched(raw)
  BY <1>1, <1>3 DEF Untouched
<1>5. /\ DefsOf(meta, Old)' = DefsOf(meta, Old) /\ RawOf(meta, Old)' = RawOf(meta, Old)
  BY <1>1, <1>3, OldSame DEF Types
<1>6. run.affected \in SUBSET Files
  BY DEF Types
<1>7. ASSUME DeleteInv PROVE DeleteInv'
  <2>1. toStore' = (run.affected \cap Present)' /\ pendSym' = {} /\ pendMeta' = {}
        /\ ram' = {} /\ ~overflowed'
    BY <1>1, <1>7 DEF DeleteInv, Present
  <2>2. Untouched(symbol)' = DefsOf(meta, Old)' /\ Untouched(raw)' \subseteq RawOf(meta, Old)'
    BY <1>4, <1>5, <1>7 DEF DeleteInv
  <2>3. Has("symbol")' \/ symbol' = Untouched(symbol)'
    <3>1. Has("symbol") \/ symbol = Untouched(symbol)
      BY <1>7 DEF DeleteInv
    <3>2. Head(todo) = "symbol" \/ symbol = Untouched(symbol) \/ Has("symbol")'
      BY <3>1, <1>2
    <3> QED
      BY <3>2, <1>3, <1>4
  <2>4. Has("raw_edge")' \/ raw' = Untouched(raw)'
    <3>1. Has("raw_edge") \/ raw = Untouched(raw)
      BY <1>7 DEF DeleteInv
    <3>2. Head(todo) = "raw_edge" \/ raw = Untouched(raw) \/ Has("raw_edge")'
      BY <3>1, <1>2
    <3> QED
      BY <3>2, <1>3, <1>4
  <2>5. Has("file_meta")' \/ \A f \in run'.affected : meta'[f] = NoFile
    <3>1. Has("file_meta") \/ \A f \in run.affected : meta[f] = NoFile
      BY <1>7 DEF DeleteInv
    <3>2. Head(todo) = "file_meta" \/ (\A f \in run.affected : meta[f] = NoFile)
          \/ Has("file_meta")'
      BY <3>1, <1>2
    <3> QED
      BY <3>2, <1>1, <1>3, <1>6
  <2> QED
    BY <2>1, <2>2, <2>3, <2>4, <2>5 DEF DeleteInv
<1>8. Known' = Known
  BY <1>1 DEF Known
<1>9. Known => DeleteInv'
  BY <1>1, <1>7 DEF StoreInv
<1>10. StoreInv'
  BY <1>1, <1>2, <1>8, <1>9, DeletesDone DEF StoreInv
<1>11. RamInv'
  <2>1. CASE run.kind # "rebuild"
    BY <2>1, <1>1 DEF RamInv
  <2>2. CASE run.kind = "rebuild"
    <3>1. run'.affected = Files /\ phase' \notin {"resolve", "write"} /\ ~overflowed'
          /\ DeleteInv'
      BY <1>1, <1>9, <2>2 DEF RamInv, Known, DeleteInv
    <3>2. phase' # "delete" => raw' = Untouched(raw)'
      BY <1>1, <1>2, <3>1 DEF DeleteInv
    <3>3. \A r \in raw' : r[1] \in Files
      BY <1>3 DEF Types, RawRows, Untouched
    <3>4. phase' # "delete" => raw' = {}
      BY <3>1, <3>2, <3>3 DEF Untouched
    <3> QED
      BY <1>1, <2>2, <3>1, <3>4 DEF RamInv
  <2> QED
    BY <2>1, <2>2
<1> QED
  BY <1>10, <1>11

LEMMA SymbolsStore ==
  ASSUME EdgeAssumption, Types, Shape, StoreInv, RamInv, NEW f \in Files, StoreSymbols(f)
  PROVE  StoreInv' /\ RamInv'
<1>1. /\ phase = "symbols" /\ phase' = "edges" /\ f \in toStore
      /\ toStore' = toStore \ {f} /\ inHand' = f
      /\ UNCHANGED <<disk, run, meta, raw, calls, resolved, pendMeta, ram, overflowed,
                     clean, owed>>
  BY DEF StoreSymbols, history
<1>2. symbol' \cup pendSym' = symbol \cup pendSym \cup Defs(f, disk[f])
  BY DEF StoreSymbols
<1>3. /\ Old' = Old /\ Present' = Present
      /\ DefsOf(meta, Old)' = DefsOf(meta, Old) /\ RawOf(meta, Old)' = RawOf(meta, Old)
  BY <1>1, OldSame DEF Present
<1>4. ASSUME ScanInv PROVE ScanInv'
  <2>1. f \in run.affected \cap Present
    BY <1>1, <1>4 DEF ScanInv
  <2>2. Stored' = Stored \cup {f} /\ f \notin Stored
    BY <1>1, <1>3, <2>1 DEF Stored
  <2>3. Written' = Written /\ Written = Stored
    BY <1>1, <2>2 DEF Written
  <2>4. DefsOf(disk, Stored)' = DefsOf(disk, Stored) \cup Defs(f, disk[f])
    <3>1. DefsOf(disk, Stored') = DefsOf(disk, Stored) \cup DefsOf(disk, {f})
      BY <2>2, DefsUnionIs
    <3>2. DefsOf(disk, {f}) = Defs(f, disk[f])
      BY SingleIs
    <3> QED
      BY <1>1, <2>2, <3>1, <3>2
  <2>5. RawOf(disk, Written)' = RawOf(disk, Written)
    BY <1>1, <2>3
  <2>6. symbol' \cup pendSym' = DefsOf(meta, Old)' \cup DefsOf(disk, Stored)'
    BY <1>2, <1>3, <1>4, <2>4 DEF ScanInv
  <2>7. /\ raw' \cup ram' \subseteq RawOf(meta, Old)' \cup RawOf(disk, Written)'
        /\ RawOf(disk, Written)' \subseteq raw' \cup ram'
    BY <1>1, <1>3, <1>4, <2>5 DEF ScanInv
  <2>8. /\ toStore' \subseteq run'.affected \cap Present' /\ inHand' \in Stored'
        /\ pendMeta' \subseteq Written'
        /\ \A g \in run'.affected :
             meta'[g] = IF g \in Written' \ pendMeta' THEN disk'[g] ELSE NoFile
    BY <1>1, <1>3, <1>4, <2>2, <2>3 DEF ScanInv
  <2> QED
    BY <1>1, <2>6, <2>7, <2>8 DEF ScanInv
<1>5. StoreInv'
  BY <1>1, <1>4 DEF StoreInv, Known
<1>6. RamInv'
  BY <1>1 DEF RamInv
<1> QED
  BY <1>5, <1>6

LEMMA EdgesStore ==
  ASSUME EdgeAssumption, Types, Shape, StoreInv, RamInv, StoreEdges
  PROVE  StoreInv' /\ RamInv'
<1> DEFINE new == Raw(inHand, disk[inHand])
<1>1. /\ phase = "edges" /\ phase' = "symbols" /\ BufferEdges(new)
      /\ UNCHANGED <<disk, run, symbol, calls, resolved, toStore, pendSym, clean, owed>>
  BY DEF StoreEdges, history
<1>2. PICK flushed \in {{}, pendMeta} :
        Commit(flushed) /\ pendMeta' = (pendMeta \ flushed) \cup {inHand}
  BY DEF StoreEdges
<1>3. raw' \cup ram' = raw \cup ram \cup new
  BY <1>1 DEF BufferEdges
<1>4. meta' = [f \in Files |-> IF f \in flushed THEN disk[f] ELSE meta[f]]
  BY <1>2 DEF Commit
<1>5. ASSUME ScanInv PROVE ScanInv'
  <2>1. Present' = Present /\ Stored' = Stored
    BY <1>1 DEF Present, Stored
  <2>2. inHand \in Stored /\ Written = Stored \ {inHand} /\ Written' = Stored
    BY <1>1, <1>5, <2>1 DEF ScanInv, Written
  <2>3. Written \subseteq run.affected /\ Stored \subseteq run.affected /\ pendMeta \subseteq Written
    BY <1>5, <2>2 DEF ScanInv, Stored
  <2>4. \A f \in Files \ run.affected : meta'[f] = meta[f]
    BY <1>2, <1>4, <2>3
  <2>5. DefsOf(meta, Old)' = DefsOf(meta, Old) /\ RawOf(meta, Old)' = RawOf(meta, Old)
    BY <1>1, <2>4, OldSame
  <2>6. Written' = Written \cup {inHand}
    BY <2>2
  <2>7. RawOf(disk, Written)' = RawOf(disk, Written) \cup new
    <3>1. RawOf(disk, Written') = RawOf(disk, Written) \cup RawOf(disk, {inHand})
      BY <2>6, RawUnionIs
    <3>2. RawOf(disk, {inHand}) = new
      BY SingleIs
    <3> HIDE DEF new
    <3> QED
      BY <1>1, <2>6, <3>1, <3>2
  <2>8. symbol' \cup pendSym' = DefsOf(meta, Old)' \cup DefsOf(disk, Stored)'
    BY <1>1, <1>5, <2>1, <2>5 DEF ScanInv
  <2>9. /\ raw' \cup ram' \subseteq RawOf(meta, Old)' \cup RawOf(disk, Written)'
        /\ RawOf(disk, Written)' \subseteq raw' \cup ram'
    <3>1. /\ raw \cup ram \subseteq RawOf(meta, Old) \cup RawOf(disk, Written)
          /\ RawOf(disk, Written) \subseteq raw \cup ram
      BY <1>5 DEF ScanInv
    <3> HIDE DEF new
    <3> QED
      BY <3>1, <1>3, <2>5, <2>7
  <2>10. pendMeta' \subseteq Written'
    BY <1>2, <2>3, <2>6
  <2>11. run.affected \in SUBSET Files
    BY DEF Types
  <2>12. ASSUME NEW f \in run.affected
         PROVE  meta'[f] = IF f \in Written' \ pendMeta' THEN disk[f] ELSE NoFile
    <3>1. meta[f] = IF f \in Written \ pendMeta THEN disk[f] ELSE NoFile
      BY <1>5 DEF ScanInv
    <3>2. f \in Written' \ pendMeta' <=> f \in Written \ pendMeta \/ f \in flushed
      BY <1>2, <2>2, <2>3, <2>6
    <3> QED
      BY <1>4, <2>11, <3>1, <3>2
  <2>13. toStore' \subseteq run'.affected \cap Present'
    BY <1>1, <1>5, <2>1 DEF ScanInv
  <2> QED
    BY <1>1, <2>8, <2>9, <2>10, <2>12, <2>13 DEF ScanInv
<1>6. StoreInv'
  BY <1>1, <1>5 DEF StoreInv, Known
<1>7. RamInv'
  BY <1>1 DEF RamInv, BufferEdges
<1> QED
  BY <1>6, <1>7

LEMMA TailStore ==
  ASSUME EdgeAssumption, Types, Shape, StoreInv, RamInv, FlushTail
  PROVE  StoreInv' /\ RamInv'
<1>1. /\ phase = "symbols" /\ phase' = "commit" /\ toStore = {}
      /\ symbol' = symbol \cup pendSym /\ pendSym' = {}
      /\ UNCHANGED <<disk, meta, raw, run, toStore, inHand, pendMeta, ram, overflowed,
                     clean, owed>>
  BY DEF FlushTail, history
<1>2. Old' = Old /\ Stored' = Stored /\ Written' = Written /\ Present' = Present
  BY <1>1 DEF Old, Indexed, Stored, Written, Present
<1>3. /\ DefsOf(meta, Old)' = DefsOf(meta, Old) /\ RawOf(meta, Old)' = RawOf(meta, Old)
      /\ DefsOf(disk, Stored)' = DefsOf(disk, Stored)
      /\ RawOf(disk, Written)' = RawOf(disk, Written)
  BY <1>1, <1>2
<1>4. ScanInv => ScanInv'
  BY <1>1, <1>2, <1>3 DEF ScanInv
<1> QED
  BY <1>1, <1>4 DEF StoreInv, RamInv, Known

LEMMA CommitStore ==
  ASSUME EdgeAssumption, Types, Shape, StoreInv, RamInv, CommitTail
  PROVE  StoreInv' /\ RamInv'
<1> DEFINE T == run.affected \cap Present
<1>1. /\ phase = "commit" /\ phase' = "resolve"
      /\ meta' = [f \in Files |-> IF f \in pendMeta THEN disk[f] ELSE meta[f]]
      /\ UNCHANGED <<disk, symbol, raw, run, toStore, pendSym, ram, overflowed, clean, owed>>
  BY DEF CommitTail, Commit, history
<1>2. run.affected \in SUBSET Files
  BY DEF Types
<1>3. ASSUME ScanInv
      PROVE  /\ Consistent' /\ RawOf(meta, Indexed \cap run.affected)' \subseteq raw' \cup ram'
             /\ \A f \in run.affected : meta'[f] = disk[f]
  <2>1. toStore = {} /\ pendSym = {} /\ Stored = T /\ Written = T /\ pendMeta \subseteq T
    BY <1>1, <1>3 DEF ScanInv, Stored, Written
  <2>2. \A f \in run.affected : meta'[f] = IF f \in T THEN disk[f] ELSE NoFile
    BY <1>1, <1>2, <1>3, <2>1 DEF ScanInv
  <2>3. \A f \in Files \ run.affected : meta'[f] = meta[f]
    BY <1>1, <2>1
  <2>4. \A f \in run.affected : f \in T <=> disk[f] # NoFile
    BY <1>2 DEF Present
  <2>5. Indexed' = Old \cup T /\ Indexed' \cap run.affected = T
    BY <1>2, <2>2, <2>3, <2>4 DEF Indexed, Old
  <2>6. DefsOf(meta', Old) = DefsOf(meta, Old) /\ RawOf(meta', Old) = RawOf(meta, Old)
    BY <1>1, <2>3, OldSame
  <2>7. DefsOf(meta', T) = DefsOf(disk, T) /\ RawOf(meta', T) = RawOf(disk, T)
    <3>1. \A f \in T : meta'[f] = disk[f]
      BY <2>2
    <3> HIDE DEF T
    <3> QED
      BY <3>1, SameContent
  <2>8. /\ DefsOf(meta', Indexed') = DefsOf(meta, Old) \cup DefsOf(disk, T)
        /\ RawOf(meta', Indexed') = RawOf(meta, Old) \cup RawOf(disk, T)
    <3> HIDE DEF T
    <3>1. DefsOf(meta', Indexed') = DefsOf(meta', Old) \cup DefsOf(meta', T)
      BY <2>5, DefsUnionIs
    <3>2. RawOf(meta', Indexed') = RawOf(meta', Old) \cup RawOf(meta', T)
      BY <2>5, RawUnionIs
    <3> QED
      BY <2>5, <2>6, <2>7, <3>1, <3>2
  <2>9. /\ symbol = DefsOf(meta, Old) \cup DefsOf(disk, T)
        /\ raw \cup ram \subseteq RawOf(meta, Old) \cup RawOf(disk, T)
        /\ RawOf(disk, T) \subseteq raw \cup ram
    BY <1>3, <2>1 DEF ScanInv
  <2>10. Consistent'
    BY <1>1, <2>8, <2>9 DEF Consistent
  <2>11. RawOf(meta, Indexed \cap run.affected)' \subseteq raw' \cup ram'
    BY <1>1, <2>5, <2>7, <2>9
  <2>12. \A f \in run.affected : meta'[f] = disk[f]
    BY <2>2, <2>4
  <2> QED
    BY <2>10, <2>11, <2>12
<1>4. StoreInv'
  BY <1>1, <1>3 DEF StoreInv, Known
<1>5. RamInv'
  <2>1. run.kind = "rebuild" => run.affected = Files /\ ScanInv
    BY <1>1 DEF RamInv, StoreInv, Known
  <2>2. disk \in [Files -> Contents \cup {NoFile}] /\ meta' = [f \in Files |-> meta'[f]]
    BY <1>1 DEF Types
  <2>3. run.kind = "rebuild" => meta' = disk
    BY <1>3, <2>1, <2>2
  <2> QED
    BY <1>1, <2>3 DEF RamInv
<1> QED
  BY <1>4, <1>5

LEMMA PhaseTwoStore ==
  ASSUME Types, Shape, StoreInv, RamInv,
         ResolveFromRam \/ ResolveFromTable \/ ResolveIncremental \/ FlushEdges
  PROVE  StoreInv' /\ RamInv'
<1>1. /\ phase \in {"resolve", "write"} /\ phase' = "write"
      /\ UNCHANGED <<disk, meta, symbol, raw, ram, overflowed, clean, owed>>
      /\ run'.kind = run.kind /\ run'.affected = run.affected
  BY DEF ResolveFromRam, ResolveFromTable, ResolveIncremental, FlushEdges, tables, memory,
         history, Types
<1>2. Known' = Known /\ Consistent' = Consistent
  BY <1>1 DEF Known, Consistent, Indexed
<1>3. RawOf(meta, Indexed \cap run.affected)' = RawOf(meta, Indexed \cap run.affected)
  BY <1>1 DEF Indexed
<1> QED
  BY <1>1, <1>2, <1>3 DEF StoreInv, RamInv

(* After a run only the tables are left.                                   *)
LEMMA EndIdle ==
  ASSUME Shape, (\E f \in Files : Edit(f)) \/ EndRun \/ Interrupt
  PROVE  /\ phase' = "idle" /\ run'.kind = "none" /\ ram' = {}
         /\ UNCHANGED <<meta, symbol, raw, calls>>
         /\ Known' => Known /\ phase \in {"idle", "resolve", "write"}
<1>1. CASE \E f \in Files : Edit(f)
  BY <1>1 DEF Edit, tables, memory, history, Shape, NoRun, Known
<1>2. CASE EndRun
  BY <1>2 DEF EndRun, Forget, NoRun, Known
<1>3. CASE Interrupt
  BY <1>3 DEF Interrupt, Forget, tables, NoRun, Known
<1> QED
  BY <1>1, <1>2, <1>3

LEMMA EndStore ==
  ASSUME Types, Shape, StoreInv, RamInv, (\E f \in Files : Edit(f)) \/ EndRun \/ Interrupt
  PROVE  StoreInv' /\ RamInv'
<1>1. /\ phase' = "idle" /\ run'.kind = "none" /\ ram' = {}
      /\ UNCHANGED <<meta, symbol, raw>>
      /\ Known' => Known /\ phase \in {"idle", "resolve", "write"}
  BY EndIdle
<1>2. Known' => Consistent
  BY <1>1 DEF StoreInv
<1>3. Consistent => Consistent'
  BY <1>1 DEF Consistent, Indexed
<1>4. StoreInv'
  BY <1>1, <1>2, <1>3 DEF StoreInv
<1> QED
  BY <1>1, <1>4 DEF RamInv

(* The beginnings, as one step: what is deleted is what is read again.     *)
LEMMA StartIs ==
  ASSUME StartRebuild \/ (\E F \in SUBSET Files : StartIncremental(F)) \/ StartReplay
  PROVE  \E kind \in {"rebuild", "incremental", "replay"}, affected \in SUBSET Files,
            order \in {AllOrder, BulkOrder, <<>>} :
           /\ kind = "replay" <=> order = <<>>
           /\ kind = "rebuild" => affected = Files
           /\ kind = "replay" => affected = {} /\ raw # {}
           /\ Begin(kind, affected, order, affected \cap Present)
<1>1. AllOrder # <<>> /\ BulkOrder # <<>>
  BY Orders
<1>2. Files \cap Present = Present
  BY DEF Present
<1>3. CASE Rebuild
  BY <1>1, <1>2, <1>3 DEF Rebuild
<1>4. ASSUME NEW F \in SUBSET Files, StartIncremental(F)
      PROVE  Begin("incremental", F, BulkOrder, F \cap Present)
  BY <1>4 DEF StartIncremental
<1>5. CASE \E F \in SUBSET Files : StartIncremental(F)
  BY <1>1, <1>4, <1>5
<1>6. CASE raw # {} /\ Begin("replay", {}, <<>>, {})
  <2>1. {} \cap Present = {} /\ {} \in SUBSET Files
    OBVIOUS
  <2> QED
    BY <1>6, <2>1
<1>7. StartRebuild => Rebuild
  BY DEF StartRebuild
<1>8. StartReplay => Rebuild \/ (raw # {} /\ Begin("replay", {}, <<>>, {}))
  BY DEF StartReplay
<1> QED
  BY <1>3, <1>5, <1>6, <1>7, <1>8

LEMMA NextStore ==
  ASSUME EdgeAssumption, Types, Shape, StoreInv, RamInv, [Next]_vars
  PROVE  StoreInv' /\ RamInv'
<1>1. CASE StartRebuild \/ (\E F \in SUBSET Files : StartIncremental(F)) \/ StartReplay
  BY <1>1, StartIs, BeginStore
<1>2. CASE UNCHANGED vars
  <2>1. UNCHANGED <<disk, meta, symbol, raw, run, phase, todo, toStore, inHand, pendSym,
                    pendMeta, ram, overflowed, clean, owed>>
    BY <1>2 DEF vars, tables, memory, history
  <2>2. /\ Known' = Known /\ Old' = Old /\ Indexed' = Indexed /\ Stored' = Stored
        /\ Written' = Written /\ Present' = Present
    BY <2>1 DEF Known, Old, Indexed, Stored, Written, Present
  <2>3. DeleteInv' = DeleteInv /\ ScanInv' = ScanInv /\ Consistent' = Consistent
    BY <2>1, <2>2 DEF DeleteInv, ScanInv, Consistent, Untouched, Has
  <2> QED
    BY <2>1, <2>2, <2>3 DEF StoreInv, RamInv
<1> QED
  BY <1>1, <1>2, DeleteStore, SymbolsStore, EdgesStore, TailStore, CommitStore, PhaseTwoStore,
     EndStore DEF Next

-----------------------------------------------------------------------------
(* What a full resolution writes, and what an interrupted one leaves.      *)

(* The calls of a full resolution are those of all the raw edges there are.*)
WriteInv ==
  phase = "write" /\ run.kind # "incremental" =>
    calls \cup edges = Resolve(raw \cup ram, symbol)

EmptyInv ==
  run.kind = "rebuild" =>
    /\ phase = "delete" => Has("calls") \/ calls = {}
    /\ phase \in {"symbols", "edges", "commit", "resolve"} => calls = {}

(* The table has no raw edge or all: a replay is owed only if it has them. *)
OwedInv ==
  owed /\ (phase = "idle" \/ run.kind = "replay") =>
    (phase = "idle" /\ raw = {}) \/ RawOf(meta, Indexed) \subseteq raw

LEMMA BeginFull ==
  ASSUME OwedInv, NEW kind, NEW affected, NEW order, NEW files,
         kind # "replay" => order \in {AllOrder, BulkOrder}, kind = "replay" => raw # {},
         Begin(kind, affected, order, files)
  PROVE  WriteInv' /\ EmptyInv' /\ OwedInv'
<1>1. /\ phase = "idle" /\ run'.kind = kind /\ todo' = order
      /\ phase' = (IF kind = "replay" THEN "resolve" ELSE "delete")
      /\ UNCHANGED <<meta, raw, calls, owed>>
  BY DEF Begin, tables, history
<1>2. Indexed' = Indexed
  BY <1>1 DEF Indexed
<1>3. kind # "replay" => Has("calls")'
  BY <1>1, OrderHas
<1> QED
  BY <1>1, <1>2, <1>3 DEF WriteInv, EmptyInv, OwedInv

LEMMA DeleteFull ==
  ASSUME Types, Shape, RamInv, EmptyInv, DeleteTable
  PROVE  WriteInv' /\ EmptyInv' /\ OwedInv'
<1>1. /\ phase = "delete" /\ todo # <<>> /\ todo' = Tail(todo) /\ run' = run
      /\ phase' = (IF Len(todo) = 1 THEN "symbols" ELSE "delete")
      /\ calls' = (IF Head(todo) # "calls" THEN calls
                   ELSE {c \in Untouched(calls) : c[2] \notin run.affected})
  BY DEF DeleteTable
<1>2. /\ Has("calls") => Head(todo) = "calls" \/ Has("calls")'
      /\ Len(todo) = 1 => ~Has("calls")'
  BY <1>1, TailHas DEF Types
<1>3. run.kind = "rebuild" /\ Head(todo) = "calls" => calls' = {}
  BY <1>1 DEF Types, CallRows, RamInv, Untouched
<1>4. run.kind \in {"rebuild", "incremental"}
  BY <1>1 DEF Shape
<1>5. run.kind = "rebuild" => Has("calls")' \/ calls' = {}
  BY <1>1, <1>2, <1>3 DEF EmptyInv
<1> QED
  BY <1>1, <1>2, <1>4, <1>5 DEF WriteInv, EmptyInv, OwedInv

LEMMA StoreFull ==
  ASSUME Types, Shape, EmptyInv,
         (\E f \in Files : StoreSymbols(f)) \/ StoreEdges \/ FlushTail \/ CommitTail
  PROVE  WriteInv' /\ EmptyInv' /\ OwedInv'
<1>1. /\ phase \in {"symbols", "edges", "commit"} /\ run' = run /\ calls' = calls
      /\ phase' \in {"symbols", "edges", "commit", "resolve"}
  BY DEF StoreSymbols, StoreEdges, FlushTail, CommitTail
<1>2. run.kind \in {"rebuild", "incremental"}
  BY <1>1 DEF Shape
<1> QED
  BY <1>1, <1>2 DEF WriteInv, EmptyInv, OwedInv

LEMMA PhaseTwoFull ==
  ASSUME Types, Shape, RamInv, WriteInv, EmptyInv, OwedInv,
         ResolveFromRam \/ ResolveFromTable \/ ResolveIncremental \/ FlushEdges
  PROVE  WriteInv' /\ EmptyInv' /\ OwedInv'
<1>1. /\ phase \in {"resolve", "write"} /\ phase' = "write"
      /\ UNCHANGED <<meta, symbol, raw, ram, owed>> /\ run'.kind = run.kind
  BY DEF ResolveFromRam, ResolveFromTable, ResolveIncremental, FlushEdges, tables, memory,
         history, Types
<1>2. Indexed' = Indexed
  BY <1>1 DEF Indexed
<1>3. EmptyInv' /\ OwedInv'
  BY <1>1, <1>2 DEF EmptyInv, OwedInv
<1>4. CASE ResolveFromRam
  <2>1. raw = {} /\ calls = {}
    BY <1>4 DEF ResolveFromRam, FromRam, RamInv, EmptyInv
  <2>2. calls' = {} /\ edges' = Resolve(ram, symbol) /\ raw \cup ram = ram
    BY <1>4, <2>1 DEF ResolveFromRam, tables
  <2> QED
    BY <1>1, <1>3, <2>2 DEF WriteInv
<1>5. CASE ResolveFromTable
  <2>1. ram = {}
    BY <1>5 DEF ResolveFromTable, FromRam, RamInv
  <2>2. calls' = {} /\ edges' = Resolve(raw, symbol) /\ raw \cup ram = raw
    BY <1>5, <2>1 DEF ResolveFromTable
  <2> QED
    BY <1>1, <1>3, <2>2 DEF WriteInv
<1>6. CASE ResolveIncremental
  BY <1>1, <1>3, <1>6 DEF ResolveIncremental, WriteInv
<1>7. CASE FlushEdges
  <2>1. calls' \cup edges' = calls \cup edges /\ phase = "write"
    BY <1>7 DEF FlushEdges
  <2> QED
    BY <1>1, <1>3, <2>1 DEF WriteInv
<1> QED
  BY <1>3, <1>4, <1>5, <1>6, <1>7

LEMMA EndFull ==
  ASSUME Types, Shape, StoreInv, RamInv, OwedInv,
         (\E f \in Files : Edit(f)) \/ EndRun \/ Interrupt
  PROVE  WriteInv' /\ EmptyInv' /\ OwedInv'
<1>1. phase' = "idle" /\ run'.kind = "none" /\ meta' = meta /\ raw' = raw
  BY EndIdle
<1>2. Indexed' = Indexed
  BY <1>1 DEF Indexed
<1>3. OwedInv'
  <2>1. CASE \E f \in Files : Edit(f)
    <3>1. phase = "idle" /\ owed' = owed
      BY <2>1 DEF Edit, history
    <3> QED
      BY <1>1, <1>2, <3>1 DEF OwedInv
  <2>2. CASE EndRun
    BY <2>2 DEF EndRun, OwedInv
  <2>3. CASE Interrupt
    <3>1. owed' = (phase \in {"resolve", "write"}
                   /\ (run.kind = "rebuild" \/ (run.kind = "replay" /\ owed)))
      BY <2>3 DEF Interrupt
    <3>2. CASE phase \in {"resolve", "write"} /\ run.kind = "rebuild"
      <4>1. run.affected = Files /\ (IF overflowed THEN ram = {} ELSE raw = {})
        BY <3>2 DEF RamInv
      <4>2. RawOf(meta, Indexed \cap run.affected) \subseteq raw \cup ram
        BY <3>2 DEF StoreInv, Known
      <4>3. Indexed \cap run.affected = Indexed
        BY <4>1 DEF Indexed
      <4>4. raw = {} \/ RawOf(meta, Indexed) \subseteq raw
        BY <4>1, <4>2, <4>3
      <4> QED
        BY <1>1, <1>2, <4>4 DEF OwedInv
    <3>3. CASE phase \in {"resolve", "write"} /\ run.kind = "replay" /\ owed
      BY <1>1, <1>2, <3>3 DEF OwedInv
    <3>4. CASE ~owed'
      BY <3>4 DEF OwedInv
    <3> QED
      BY <3>1, <3>2, <3>3, <3>4
  <2> QED
    BY <2>1, <2>2, <2>3
<1> QED
  BY <1>1, <1>3 DEF WriteInv, EmptyInv

LEMMA NextFull ==
  ASSUME Types, Shape, StoreInv, RamInv, WriteInv, EmptyInv, OwedInv, [Next]_vars
  PROVE  WriteInv' /\ EmptyInv' /\ OwedInv'
<1>1. CASE StartRebuild \/ (\E F \in SUBSET Files : StartIncremental(F)) \/ StartReplay
  <2>1. PICK kind, affected, order :
          /\ kind = "replay" <=> order = <<>>
          /\ order \in {AllOrder, BulkOrder, <<>>}
          /\ kind = "replay" => raw # {}
          /\ Begin(kind, affected, order, affected \cap Present)
    BY <1>1, StartIs
  <2> QED
    BY <2>1, BeginFull
<1>2. CASE UNCHANGED vars
  <2>1. UNCHANGED <<meta, symbol, raw, calls, run, phase, todo, ram, edges, owed>>
    BY <1>2 DEF vars, tables, memory, history
  <2> QED
    BY <2>1 DEF WriteInv, EmptyInv, OwedInv, Has, Indexed
<1> QED
  BY <1>1, <1>2, DeleteFull, StoreFull, PhaseTwoFull, EndFull DEF Next

(* With all raw edges at hand a full resolution is the reference.          *)
LEMMA FullIs ==
  ASSUME Consistent, RawOf(meta, Indexed) \subseteq raw \cup ram
  PROVE  Resolve(raw \cup ram, symbol) = Reference(meta)
<1>1. Reference(meta) = RefOn(meta, Indexed)
  BY ReferenceIs DEF Indexed
<1>2. raw \cup ram = RawOf(meta, Indexed)
  BY DEF Consistent
<1> QED
  BY <1>1, <1>2 DEF Consistent, RefOn

LEMMA RebuildEnds ==
  ASSUME Shape, StoreInv, RamInv, WriteInv, EndRun, run.kind = "rebuild"
  PROVE  calls' = Reference(disk)
<1>1. phase = "write" /\ edges = {} /\ calls' = calls
  BY DEF EndRun
<1>2. Consistent /\ RawOf(meta, Indexed \cap run.affected) \subseteq raw \cup ram
  BY <1>1 DEF StoreInv, Known
<1>3. Indexed \cap run.affected = Indexed /\ meta = disk
  BY <1>1 DEF RamInv, Indexed
<1>4. calls = Resolve(raw \cup ram, symbol)
  BY <1>1 DEF WriteInv
<1> QED
  BY <1>1, <1>2, <1>3, <1>4, FullIs

LEMMA ReplayEnds ==
  ASSUME Shape, StoreInv, RamInv, WriteInv, OwedInv, EndRun, run.kind = "replay", owed
  PROVE  calls' = Reference(meta)
<1>1. phase = "write" /\ edges = {} /\ calls' = calls
  BY DEF EndRun
<1>2. Consistent /\ RawOf(meta, Indexed) \subseteq raw
  BY <1>1 DEF StoreInv, Known, OwedInv
<1>3. calls = Resolve(raw \cup ram, symbol)
  BY <1>1 DEF WriteInv
<1> QED
  BY <1>1, <1>2, <1>3, FullIs

-----------------------------------------------------------------------------
(* The choice of a callee depends on nothing but the chosen one, as long   *)
(* as candidates only go.                                                  *)

LEMMA MinFileStable ==
  ASSUME NEW S, NEW T, S \subseteq Nat, T \subseteq S, S # {}, MinFile(S) \in T
  PROVE  MinFile(T) = MinFile(S)
<1>1. MinFile(S) \in S /\ \A g \in S : MinFile(S) <= g
  BY MinFileIs
<1>2. MinFile(T) \in T /\ \A g \in T : MinFile(T) <= g
  <2>1. T \subseteq Nat /\ T # {}
    OBVIOUS
  <2> QED
    BY <2>1, MinFileIs
<1>3. MinFile(S) <= MinFile(T) /\ MinFile(T) <= MinFile(S)
  BY <1>1, <1>2
<1>4. MinFile(S) \in Nat /\ MinFile(T) \in Nat
  BY <1>1, <1>2
<1> QED
  BY <1>3, <1>4

LEMMA PreferStable ==
  ASSUME NEW S, NEW T, S \subseteq Nat, T \subseteq S, S # {}, PreferHandWritten(S) \in T
  PROVE  T # {} /\ PreferHandWritten(T) = PreferHandWritten(S)
<1>1. CASE S \ Generated # {}
  <2>1. PreferHandWritten(S) = MinFile(S \ Generated)
    BY <1>1 DEF PreferHandWritten
  <2>2. S \ Generated \subseteq Nat /\ T \ Generated \subseteq S \ Generated
    OBVIOUS
  <2>3. MinFile(S \ Generated) \in T \ Generated
    BY <1>1, <2>1, <2>2, MinFileIs
  <2>4. MinFile(T \ Generated) = MinFile(S \ Generated)
    BY <1>1, <2>2, <2>3, MinFileStable
  <2>5. PreferHandWritten(T) = MinFile(T \ Generated)
    BY <2>3 DEF PreferHandWritten
  <2> QED
    BY <2>1, <2>4, <2>5
<1>2. CASE S \ Generated = {}
  <2>1. T \ Generated = {}
    BY <1>2
  <2>2. PreferHandWritten(S) = MinFile(S)
    BY <1>2 DEF PreferHandWritten
  <2>3. PreferHandWritten(T) = MinFile(T)
    BY <2>1 DEF PreferHandWritten
  <2> QED
    BY <2>2, <2>3, MinFileStable
<1> QED
  BY <1>1, <1>2

(* One level of the choice, without and with fewer candidates.             *)
Shrinks(V, U, T) ==
  /\ V = {} => U = {}
  /\ V # {} /\ PreferHandWritten(V) \in T =>
       U # {} /\ PreferHandWritten(U) = PreferHandWritten(V)

LEMMA ByImportStable ==
  ASSUME EdgeAssumption, NEW S, NEW T, T \subseteq S, S \subseteq Files,
         NEW from \in Files, NEW imp \in Imports
  PROVE  Shrinks(ByImport(S, from, imp), ByImport(T, from, imp), T)
<1> DEFINE p == Probe(imp, from)
           hits(U) == {i \in DOMAIN p : p[i] \in U}
<1>1. p \in Seq(Files)
  BY DEF EdgeAssumption
<1>2. hits(S) \subseteq Nat /\ hits(T) \subseteq hits(S)
  <2>1. DOMAIN p \subseteq Nat
    BY <1>1
  <2> HIDE DEF p
  <2> QED
    BY <2>1
<1>3. \A U : ByImport(U, from, imp) = IF hits(U) = {} THEN {} ELSE {p[MinFile(hits(U))]}
  BY DEF ByImport
<1>4. ByImport(S, from, imp) = {} => ByImport(T, from, imp) = {}
  BY <1>2, <1>3
<1>5. ASSUME hits(S) # {}, PreferHandWritten(ByImport(S, from, imp)) \in T
      PROVE  ByImport(T, from, imp) = ByImport(S, from, imp)
  <2>1. MinFile(hits(S)) \in hits(S)
    BY <1>2, <1>5, MinFileIs
  <2>2. ByImport(S, from, imp) = {p[MinFile(hits(S))]} /\ p[MinFile(hits(S))] \in Files
    BY <1>1, <1>3, <1>5, <2>1
  <2>3. PreferHandWritten({p[MinFile(hits(S))]}) \in {p[MinFile(hits(S))]}
    <3>1. Files \subseteq Nat
      BY DEF EdgeAssumption
    <3> HIDE DEF hits, p
    <3>2. {p[MinFile(hits(S))]} \subseteq Nat /\ {p[MinFile(hits(S))]} # {}
      BY <2>2, <3>1
    <3> QED
      BY <3>2, PreferIs
  <2>4. p[MinFile(hits(S))] \in T
    <3> HIDE DEF hits, p
    <3> QED
      BY <1>5, <2>2, <2>3
  <2>5. MinFile(hits(S)) \in hits(T)
    BY <2>1, <2>4
  <2>6. MinFile(hits(T)) = MinFile(hits(S))
    <3> HIDE DEF hits, p
    <3> QED
      BY <1>2, <1>5, <2>5, MinFileStable
  <2> QED
    BY <1>3, <2>2, <2>5, <2>6
<1>6. ByImport(S, from, imp) # {} => hits(S) # {}
  BY <1>3
<1> HIDE DEF hits
<1> QED
  BY <1>4, <1>5, <1>6 DEF Shrinks

LEMMA LevelShrinks ==
  ASSUME NEW V, NEW T, V \subseteq Nat
  PROVE  Shrinks(V, V \cap T, T)
<1>1. ASSUME V # {}, PreferHandWritten(V) \in T
      PROVE  V \cap T # {} /\ PreferHandWritten(V \cap T) = PreferHandWritten(V)
  <2>1. PreferHandWritten(V) \in V \cap T
    BY <1>1, PreferIs
  <2> QED
    BY <1>1, <2>1, PreferStable
<1> QED
  BY <1>1 DEF Shrinks

LEMMA BestStable ==
  ASSUME NEW S, NEW T, S \subseteq Files, T \subseteq S, S # {},
         NEW from \in Files, NEW imp \in Imports \cup {NoImport}, Best(S, from, imp) \in T
  PROVE  Best(T, from, imp) = Best(S, from, imp)
<1> DEFINE lv == Levels(S, from, imp)
           lw == Levels(T, from, imp)
           full == {i \in DOMAIN lv : lv[i] # {}}
           rest == {i \in DOMAIN lw : lw[i] # {}}
           own(U) == U \cap {from}
           near(U) == U \cap Near(imp, from)
<1>1. S \subseteq Nat
  BY EdgeAssumption
<1>2. /\ DOMAIN lv \subseteq Nat /\ DOMAIN lw = DOMAIN lv /\ full # {}
      /\ \A i \in DOMAIN lv : Shrinks(lv[i], lw[i], T)
  <2>1. S \cap {from} \subseteq Nat /\ S \cap Near(imp, from) \subseteq Nat
    BY <1>1
  <2>2. T = S \cap T /\ T \cap {from} = (S \cap {from}) \cap T
        /\ T \cap Near(imp, from) = (S \cap Near(imp, from)) \cap T
    OBVIOUS
  <2>3. Shrinks(S, S \cap T, T) /\ Shrinks(S \cap {from}, (S \cap {from}) \cap T, T)
        /\ Shrinks(S \cap Near(imp, from), (S \cap Near(imp, from)) \cap T, T)
    BY <1>1, <2>1, LevelShrinks
  <2>4. Shrinks(S, T, T) /\ Shrinks(own(S), own(T), T) /\ Shrinks(near(S), near(T), T)
    BY <2>2, <2>3
  <2>5. CASE imp = NoImport
    <3>1. lv = <<own(S), S>> /\ lw = <<own(T), T>>
      BY <2>5, LevelsAre
    <3> HIDE DEF lv, lw, own, near
    <3>2. DOMAIN lv = 1 .. 2 /\ DOMAIN lw = 1 .. 2 /\ lv[2] = S
      BY <3>1
    <3>3. ASSUME NEW i \in 1 .. 2 PROVE Shrinks(lv[i], lw[i], T)
      <4>1. i = 1 \/ i = 2
        OBVIOUS
      <4> QED
        BY <2>4, <3>1, <4>1
    <3> QED
      BY <3>2, <3>3
  <2>6. CASE imp # NoImport
    <3>1. /\ lv = <<ByImport(S, from, imp), near(S), own(S), S>>
          /\ lw = <<ByImport(T, from, imp), near(T), own(T), T>>
      BY <2>6, LevelsAre
    <3>2. Shrinks(ByImport(S, from, imp), ByImport(T, from, imp), T)
      BY <2>6, ByImportStable, EdgeAssumption
    <3> HIDE DEF lv, lw, own, near
    <3>3. DOMAIN lv = 1 .. 4 /\ DOMAIN lw = 1 .. 4 /\ lv[4] = S
      BY <3>1
    <3>4. ASSUME NEW i \in 1 .. 4 PROVE Shrinks(lv[i], lw[i], T)
      <4>1. i = 1 \/ i = 2 \/ i = 3 \/ i = 4
        OBVIOUS
      <4> QED
        BY <2>4, <3>1, <3>2, <4>1
    <3> QED
      BY <3>3, <3>4
  <2> QED
    BY <2>5, <2>6
<1>3. Best(S, from, imp) = PreferHandWritten(lv[MinFile(full)])
      /\ Best(T, from, imp) = PreferHandWritten(lw[MinFile(rest)])
  BY DEF Best
<1> HIDE DEF lv, lw
<1>4. MinFile(full) \in full /\ full \subseteq Nat
  BY <1>2, MinFileIs
<1>5. /\ lw[MinFile(full)] # {}
      /\ PreferHandWritten(lw[MinFile(full)]) = PreferHandWritten(lv[MinFile(full)])
  BY <1>2, <1>3, <1>4 DEF Shrinks
<1>6. MinFile(full) \in rest /\ rest \subseteq full
  BY <1>2, <1>4, <1>5 DEF Shrinks
<1>7. MinFile(rest) = MinFile(full)
  BY <1>4, <1>6, MinFileStable
<1> QED
  BY <1>3, <1>5, <1>7

-----------------------------------------------------------------------------
(* The calls of files whose symbols come and go.                           *)

LEMMA RowsOf ==
  ASSUME EdgeAssumption, Types, NEW S \in SUBSET Indexed
  PROVE  RawOf(meta, S) \subseteq RawRows
<1>1. ASSUME NEW f \in S PROVE Raw(f, meta[f]) \subseteq RawRows
  <2>1. f \in Files /\ meta[f] \in Contents
    BY DEF Indexed, Types
  <2>2. meta[f].sites \in SUBSET Sites
    BY <2>1 DEF EdgeAssumption
  <2>3. \A s \in meta[f].sites : <<f, s[1], s[2]>> \in RawRows
    BY <2>1, <2>2 DEF Sites, RawRows
  <2> QED
    BY <2>3 DEF Raw
<1> QED
  BY <1>1 DEF RawOf

(* A call comes from a raw edge whose name has candidates.                 *)
LEMMA CallIs ==
  ASSUME NEW rows, NEW table, NEW c \in Resolve(rows, table)
  PROVE  \E e \in rows :
           /\ Candidates(table, e[2]) # {}
           /\ c = <<e[1], Best(Candidates(table, e[2]), e[1], e[3]), e[2]>>
           /\ c[1] = e[1] /\ c[2] = Best(Candidates(table, e[2]), e[1], e[3]) /\ c[3] = e[2]
BY DEF Resolve

(* The symbols of some files go: calls between the others stay right.      *)
LEMMA RefShrinks ==
  ASSUME EdgeAssumption, Types, NEW A, NEW c \in RefOn(meta, Indexed),
         c[1] \notin A, c[2] \notin A
  PROVE  c \in RefOn(meta, Indexed \ A)
<1> DEFINE old == DefsOf(meta, Indexed)
           new == DefsOf(meta, Indexed \ A)
<1>1. PICK e \in RawOf(meta, Indexed) :
        /\ Candidates(old, e[2]) # {}
        /\ c = <<e[1], Best(Candidates(old, e[2]), e[1], e[3]), e[2]>>
        /\ c[1] = e[1] /\ c[2] = Best(Candidates(old, e[2]), e[1], e[3]) /\ c[3] = e[2]
  BY CallIs DEF RefOn
<1>2. e \in RawRows /\ e[1] \in Files /\ e[3] \in Imports \cup {NoImport}
  BY RowsOf DEF RawRows
<1>3. e \in RawOf(meta, Indexed \ A)
  <2>1. Without(RawOf(meta, Indexed), A) = RawOf(meta, Indexed \ A)
    BY CutIs
  <2> QED
    BY <1>1, <2>1 DEF Without
<1>4. Without(old, A) = new
  BY CutIs
<1>5. /\ Candidates(old, e[2]) \subseteq Files
      /\ Candidates(new, e[2]) = Candidates(old, e[2]) \ A
  BY <1>4 DEF Candidates, Without
<1>6. Best(Candidates(old, e[2]), e[1], e[3]) \in Candidates(new, e[2])
  BY <1>1, <1>2, <1>5, BestIs
<1>7. Candidates(new, e[2]) \subseteq Candidates(old, e[2])
  BY <1>5
<1>8. Best(Candidates(new, e[2]), e[1], e[3]) = Best(Candidates(old, e[2]), e[1], e[3])
  <2> DEFINE V == Candidates(old, e[2])
             U == Candidates(new, e[2])
             from == e[1]
             imp == e[3]
  <2>1. V \subseteq Files /\ V # {} /\ U \subseteq V /\ Best(V, from, imp) \in U
    BY <1>1, <1>5, <1>6, <1>7
  <2>2. from \in Files /\ imp \in Imports \cup {NoImport}
    BY <1>2
  <2> HIDE DEF V, U, from, imp
  <2>3. Best(U, from, imp) = Best(V, from, imp)
    BY ONLY <2>1, <2>2, BestStable
  <2> QED
    BY <2>3 DEF V, U, from, imp
<1>9. c \in Resolve(RawOf(meta, Indexed \ A), new)
  BY <1>1, <1>3, <1>6, <1>8 DEF Resolve
<1> QED
  BY <1>9 DEF RefOn

(* Symbols of other names come: calls of this name stay right.             *)
LEMMA RefGrows ==
  ASSUME NEW content, NEW S, NEW T, S \subseteq T, NEW c \in RefOn(content, S),
         \A f \in T \ S : <<f, c[3]>> \notin DefsOf(content, T)
  PROVE  c \in RefOn(content, T)
<1> DEFINE old == DefsOf(content, S)
           new == DefsOf(content, T)
<1>1. PICK e \in RawOf(content, S) :
        /\ Candidates(old, e[2]) # {}
        /\ c = <<e[1], Best(Candidates(old, e[2]), e[1], e[3]), e[2]>>
        /\ c[3] = e[2]
  BY CallIs DEF RefOn
<1>2. e \in RawOf(content, T)
  BY <1>1 DEF RawOf
<1>3. \A f : <<f, e[2]>> \in new => f \in S
  <2>1. \A s \in new : s[1] \in T
    BY FromIs
  <2>2. \A f : <<f, e[2]>> \in new => f \in T
    BY <2>1
  <2> QED
    BY <1>1, <2>2
<1>4. Without(new, T \ S) = DefsOf(content, T \ (T \ S))
  BY CutIs
<1>5. T \ (T \ S) = S
  OBVIOUS
<1>6. \A f : <<f, e[2]>> \in new <=> <<f, e[2]>> \in old
  BY <1>3, <1>4, <1>5 DEF Without
<1>7. Candidates(new, e[2]) = Candidates(old, e[2])
  BY <1>6 DEF Candidates
<1>8. c \in Resolve(RawOf(content, T), new)
  BY <1>1, <1>2, <1>7 DEF Resolve
<1> QED
  BY <1>8 DEF RefOn

-----------------------------------------------------------------------------
(* Incremental runs without an interruption before.                        *)

(* A call of a file whose raw edges are in the table is a right one.       *)
RightOn(c, S) ==
  /\ c[1] \in S
  /\ Raw(c[1], meta[c[1]]) \subseteq raw => c \in RefOn(meta, S)

Outside(c) == c[1] \notin run.affected /\ c[2] \notin run.affected

CleanInv ==
  clean =>
    /\ phase = "idle" => \A c \in calls : RightOn(c, Indexed)
    /\ run.kind = "incremental" =>
         /\ phase # "write" => \A c \in calls : Outside(c) => RightOn(c, Old)
         /\ phase = "delete" => Has("calls") \/ \A c \in calls : Outside(c)
         /\ phase \notin {"delete", "write"} => \A c \in calls : Outside(c)
         /\ phase = "write" =>
              /\ \A c \in calls \cup edges : RightOn(c, Indexed)
              /\ RawComplete =>
                   {c \in Reference(meta) : c[1] \in run.scope} \subseteq calls \cup edges

LEMMA BeginClean ==
  ASSUME EdgeAssumption, Types, CleanInv, NEW kind, NEW affected, NEW order, NEW files,
         kind # "replay" => order \in {AllOrder, BulkOrder},
         Begin(kind, affected, order, files)
  PROVE  CleanInv'
<1>1. /\ phase = "idle" /\ run'.kind = kind /\ run'.affected = affected /\ todo' = order
      /\ phase' = (IF kind = "replay" THEN "resolve" ELSE "delete")
      /\ UNCHANGED <<meta, raw, calls, clean>>
  BY DEF Begin, tables, history
<1>2. Old' = Indexed \ affected
  BY <1>1 DEF Old, Indexed
<1>3. kind # "replay" => Has("calls")'
  BY <1>1, OrderHas
<1>4. ASSUME clean, NEW c \in calls, Outside(c)' PROVE RightOn(c, Old)'
  <2>1. c[1] \in Indexed /\ (Raw(c[1], meta[c[1]]) \subseteq raw => c \in RefOn(meta, Indexed))
    BY <1>1, <1>4 DEF CleanInv, RightOn
  <2>2. c[1] \notin affected /\ c[2] \notin affected
    BY <1>1, <1>4 DEF Outside
  <2>3. c \in RefOn(meta, Indexed) => c \in RefOn(meta, Indexed \ affected)
    BY <2>2, RefShrinks
  <2> QED
    BY <1>1, <1>2, <2>1, <2>2, <2>3 DEF RightOn
<1> QED
  BY <1>1, <1>3, <1>4 DEF CleanInv

(* Deletes and stores leave the rows of other files alone.                 *)
LEMMA RightKept ==
  ASSUME Types, run' = run, \A f \in Files \ run.affected : meta'[f] = meta[f],
         \A e \in raw' \ raw : e[1] \in run.affected,
         NEW c, RightOn(c, Old)
  PROVE  RightOn(c, Old)'
<1>1. /\ Old' = Old /\ DefsOf(meta, Old)' = DefsOf(meta, Old)
      /\ RawOf(meta, Old)' = RawOf(meta, Old)
  BY OldSame
<1>2. RefOn(meta', Old') = RefOn(meta, Old)
  BY <1>1 DEF RefOn
<1>3. c[1] \in Files \ run.affected
  BY DEF RightOn, Old, Indexed
<1>4. Raw(c[1], meta'[c[1]]) \subseteq raw' => Raw(c[1], meta[c[1]]) \subseteq raw
  <2>1. \A e \in Raw(c[1], meta[c[1]]) : e[1] = c[1]
    BY DEF Raw
  <2> QED
    BY <1>3, <2>1
<1> QED
  BY <1>1, <1>2, <1>4 DEF RightOn

LEMMA DeleteClean ==
  ASSUME Types, Shape, CleanInv, DeleteTable
  PROVE  CleanInv'
<1>1. /\ phase = "delete" /\ todo # <<>> /\ todo' = Tail(todo) /\ run' = run
      /\ phase' = (IF Len(todo) = 1 THEN "symbols" ELSE "delete")
      /\ calls' = (IF Head(todo) # "calls" THEN calls
                   ELSE {c \in Untouched(calls) : c[2] \notin run.affected})
      /\ raw' \subseteq raw /\ clean' = clean
      /\ \A f \in Files \ run.affected : meta'[f] = meta[f]
  BY DEF DeleteTable, history, Untouched, Types
<1>2. /\ Has("calls") => Head(todo) = "calls" \/ Has("calls")'
      /\ Len(todo) = 1 => ~Has("calls")'
  BY <1>1, TailHas DEF Types
<1>3. calls' \subseteq calls /\ (Head(todo) = "calls" => \A c \in calls' : Outside(c))
  BY <1>1 DEF Untouched, Outside
<1>4. ASSUME NEW c PROVE Outside(c)' = Outside(c) /\ (RightOn(c, Old) => RightOn(c, Old)')
  <2>1. Outside(c)' = Outside(c)
    BY <1>1 DEF Outside
  <2> QED
    BY <1>1, <2>1, RightKept
<1> QED
  BY <1>1, <1>2, <1>3, <1>4 DEF CleanInv

LEMMA StoreClean ==
  ASSUME Types, Shape, StoreInv, CleanInv,
         (\E f \in Files : StoreSymbols(f)) \/ StoreEdges \/ FlushTail \/ CommitTail
  PROVE  CleanInv'
<1>1. /\ phase \in {"symbols", "edges", "commit"} /\ run' = run /\ calls' = calls
      /\ phase' \in {"symbols", "edges", "commit", "resolve"} /\ clean' = clean
  BY DEF StoreSymbols, StoreEdges, FlushTail, CommitTail, history
<1>2. ASSUME clean, run.kind = "incremental"
      PROVE  /\ \A f \in Files \ run.affected : meta'[f] = meta[f]
             /\ \A e \in raw' \ raw : e[1] \in run.affected
  <2>1. ScanInv
    BY <1>1, <1>2 DEF StoreInv, Known
  <2>2. Stored \subseteq run.affected /\ pendMeta \subseteq run.affected
    BY <2>1 DEF ScanInv, Stored, Written
  <2>3. CASE StoreEdges
    <3>1. inHand \in run.affected /\ raw' = raw \cup Raw(inHand, disk[inHand])
      BY <1>2, <2>1, <2>2, <2>3 DEF ScanInv, StoreEdges, BufferEdges
    <3>2. \A e \in Raw(inHand, disk[inHand]) : e[1] = inHand
      BY DEF Raw
    <3> QED
      BY <2>2, <2>3, <3>1, <3>2 DEF StoreEdges, Commit
  <2>4. CASE (\E f \in Files : StoreSymbols(f)) \/ FlushTail
    BY <2>4 DEF StoreSymbols, FlushTail
  <2>5. CASE CommitTail
    BY <2>2, <2>5 DEF CommitTail, Commit
  <2> QED
    BY <2>3, <2>4, <2>5
<1>3. ASSUME NEW c PROVE Outside(c)' = Outside(c)
  BY <1>1 DEF Outside
<1>4. ASSUME clean, run.kind = "incremental", NEW c, RightOn(c, Old) PROVE RightOn(c, Old)'
  BY <1>1, <1>2, <1>4, RightKept
<1> QED
  BY <1>1, <1>3, <1>4 DEF CleanInv

(* Whoever calls a name of an affected file is resolved again.             *)
LEMMA ResolveClean ==
  ASSUME EdgeAssumption, Types, Shape, StoreInv, RamInv, CleanInv, clean, ResolveIncremental
  PROVE  /\ \A c \in calls' \cup edges' : RightOn(c, Indexed)'
         /\ RawComplete' =>
              {c \in Reference(meta)' : c[1] \in run'.scope} \subseteq calls' \cup edges'
<1> DEFINE S == ResolveSet
           again == {e \in raw : e[1] \in S}
<1>1. /\ phase = "resolve" /\ run.kind = "incremental" /\ run'.scope = S
      /\ calls' = {c \in calls : c[1] \notin S /\ c[2] \notin S}
      /\ edges' = Resolve(again, symbol)
      /\ UNCHANGED <<meta, symbol, raw, ram>>
  BY DEF ResolveIncremental, Types, memory
<1>2. Consistent /\ ram = {}
  BY <1>1 DEF StoreInv, RamInv, Known
<1>3. symbol = DefsOf(meta, Indexed) /\ raw \subseteq RawOf(meta, Indexed)
  BY <1>2 DEF Consistent
<1>4. Indexed' = Indexed /\ Reference(meta)' = RefOn(meta, Indexed)
      /\ RefOn(meta', Indexed') = RefOn(meta, Indexed)
  BY <1>1, ReferenceIs DEF Indexed
<1>5. ASSUME NEW c \in calls' PROVE RightOn(c, Indexed)'
  <2>1. c \in calls /\ c[1] \notin S /\ c[2] \notin S
    BY <1>1
  <2>2. RightOn(c, Old)
    BY <1>1, <2>1 DEF CleanInv
  <2>3. ASSUME Raw(c[1], meta[c[1]]) \subseteq raw PROVE c \in RefOn(meta, Indexed)
    <3>1. c \in RefOn(meta, Old)
      BY <2>2, <2>3 DEF RightOn
    <3>2. PICK e \in RawOf(meta, Old) : c[1] = e[1] /\ c[3] = e[2]
      BY <3>1, CallIs DEF RefOn
    <3>3. e \in raw
      BY <2>3, <3>2, FromIs
    <3>4. ASSUME NEW f \in Indexed \ Old, <<f, c[3]>> \in DefsOf(meta, Indexed) PROVE FALSE
      <4>1. f \in run.affected /\ <<f, e[2]>> \in symbol
        BY <1>3, <3>2, <3>4 DEF Old
      <4>2. \E s \in symbol : s[1] \in run.affected /\ s[2] = e[2]
        BY <4>1
      <4>3. e[1] \in S
        BY <3>3, <4>2 DEF ResolveSet
      <4> QED
        BY <2>1, <3>2, <4>3
    <3>5. Old \subseteq Indexed
      BY DEF Old
    <3> QED
      BY <3>1, <3>4, <3>5, RefGrows
  <2>4. c[1] \in Indexed
    BY <2>2 DEF RightOn, Old
  <2> QED
    BY <1>1, <1>4, <2>3, <2>4 DEF RightOn
<1>6. ASSUME NEW c \in edges' PROVE RightOn(c, Indexed)'
  <2>1. c \in Resolve(again, symbol)
    BY <1>1
  <2>2. PICK e \in again : c[1] = e[1]
    BY <2>1, CallIs
  <2>3. c[1] \in Indexed
    BY <1>3, <2>2, FromIs
  <2>4. c \in Resolve(RawOf(meta, Indexed), symbol)
    BY <1>3, <2>1 DEF Resolve
  <2>5. c \in RefOn(meta, Indexed)
    BY <1>3, <2>4 DEF RefOn
  <2> QED
    BY <1>4, <2>3, <2>5 DEF RightOn
<1>7. ASSUME RawComplete', NEW c \in Reference(meta)', c[1] \in S PROVE c \in edges'
  <2>1. \A f \in Indexed : Raw(f, meta[f]) \subseteq raw
    BY <1>1, <1>4, <1>7 DEF RawComplete
  <2>2. RawOf(meta, Indexed) \subseteq raw
    BY <2>1 DEF RawOf
  <2>3. c \in Resolve(RawOf(meta, Indexed), symbol)
    BY <1>3, <1>4, <1>7 DEF RefOn
  <2>4. PICK e \in RawOf(meta, Indexed) :
          /\ Candidates(symbol, e[2]) # {}
          /\ c = <<e[1], Best(Candidates(symbol, e[2]), e[1], e[3]), e[2]>>
          /\ c[1] = e[1]
    BY <2>3, CallIs
  <2>5. e \in again
    BY <1>7, <2>2, <2>4
  <2> QED
    BY <1>1, <2>4, <2>5 DEF Resolve
<1> QED
  BY <1>1, <1>5, <1>6, <1>7

LEMMA PhaseTwoClean ==
  ASSUME EdgeAssumption, Types, Shape, StoreInv, RamInv, CleanInv,
         ResolveFromRam \/ ResolveFromTable \/ ResolveIncremental \/ FlushEdges
  PROVE  CleanInv'
<1>1. /\ phase \in {"resolve", "write"} /\ phase' = "write"
      /\ UNCHANGED <<meta, raw, clean>> /\ run'.kind = run.kind
  BY DEF ResolveFromRam, ResolveFromTable, ResolveIncremental, FlushEdges, tables, memory,
         history, Types
<1>2. CASE ResolveFromRam \/ ResolveFromTable
  <2>1. run.kind # "incremental"
    BY <1>2 DEF ResolveFromRam, ResolveFromTable, FromRam
  <2> QED
    BY <1>1, <2>1 DEF CleanInv
<1>3. CASE ResolveIncremental
  <2>1. clean => /\ \A c \in calls' \cup edges' : RightOn(c, Indexed)'
                 /\ RawComplete' => {c \in Reference(meta)' : c[1] \in run'.scope}
                                      \subseteq calls' \cup edges'
    BY <1>3, ResolveClean
  <2> QED
    BY <1>1, <2>1 DEF CleanInv
<1>4. CASE FlushEdges
  <2>1. calls' \cup edges' = calls \cup edges /\ phase = "write" /\ run' = run
    BY <1>4 DEF FlushEdges
  <2>2. Indexed' = Indexed
    BY <1>1 DEF Indexed
  <2>3. ASSUME NEW c PROVE RightOn(c, Indexed)' = RightOn(c, Indexed)
    BY <1>1, <2>2 DEF RightOn
  <2>4. RawComplete' = RawComplete
    BY <1>1, <2>2 DEF RawComplete
  <2> QED
    BY <1>1, <2>1, <2>3, <2>4 DEF CleanInv
<1> QED
  BY <1>2, <1>3, <1>4

LEMMA EndClean ==
  ASSUME EdgeAssumption, Types, Shape, StoreInv, RamInv, WriteInv, CleanInv,
         (\E f \in Files : Edit(f)) \/ EndRun \/ Interrupt
  PROVE  CleanInv'
<1>1. phase' = "idle" /\ run'.kind = "none" /\ UNCHANGED <<meta, raw, calls>>
  BY EndIdle
<1>2. Indexed' = Indexed
  BY <1>1 DEF Indexed
<1>3. ASSUME NEW c PROVE RightOn(c, Indexed)' = RightOn(c, Indexed)
  BY <1>1, <1>2 DEF RightOn
<1>4. clean' => \A c \in calls : RightOn(c, Indexed)
  <2>1. CASE \E f \in Files : Edit(f)
    BY <2>1 DEF Edit, history, CleanInv
  <2>2. CASE EndRun /\ run.kind = "incremental"
    BY <2>2 DEF EndRun, CleanInv
  <2>3. ASSUME EndRun, run.kind # "incremental", clean', NEW c \in calls
        PROVE  RightOn(c, Indexed)
    <3>1. phase = "write" /\ edges = {} /\ Known
      BY <2>3 DEF EndRun, Known
    <3>2. Consistent
      BY <3>1 DEF StoreInv
    <3>3. c \in Resolve(raw \cup ram, symbol)
      BY <2>3, <3>1 DEF WriteInv
    <3>4. c \in RefOn(meta, Indexed)
      BY <3>2, <3>3 DEF Consistent, RefOn, Resolve
    <3>5. PICK e \in RawOf(meta, Indexed) : c[1] = e[1]
      BY <3>4, CallIs DEF RefOn
    <3>6. c[1] \in Indexed
      BY <3>5, FromIs
    <3> QED
      BY <3>4, <3>6 DEF RightOn
  <2>4. CASE Interrupt
    BY <2>4 DEF Interrupt
  <2> QED
    BY <2>1, <2>2, <2>3, <2>4
<1> QED
  BY <1>1, <1>3, <1>4 DEF CleanInv

LEMMA NextClean ==
  ASSUME EdgeAssumption, Types, Shape, StoreInv, RamInv, WriteInv, CleanInv, [Next]_vars
  PROVE  CleanInv'
<1>1. CASE StartRebuild \/ (\E F \in SUBSET Files : StartIncremental(F)) \/ StartReplay
  <2>1. PICK kind, affected, order :
          /\ kind = "replay" <=> order = <<>>
          /\ order \in {AllOrder, BulkOrder, <<>>}
          /\ Begin(kind, affected, order, affected \cap Present)
    BY <1>1, StartIs
  <2> QED
    BY <2>1, BeginClean
<1>2. CASE UNCHANGED vars
  <2>1. UNCHANGED <<meta, symbol, raw, calls, run, phase, todo, edges, clean>>
    BY <1>2 DEF vars, tables, memory, history
  <2>2. Indexed' = Indexed /\ Old' = Old /\ RawComplete' = RawComplete
    BY <2>1 DEF Indexed, Old, RawComplete
  <2>3. ASSUME NEW c
        PROVE  /\ RightOn(c, Indexed)' = RightOn(c, Indexed)
               /\ RightOn(c, Old)' = RightOn(c, Old)
               /\ Outside(c)' = Outside(c)
    BY <2>1, <2>2 DEF RightOn, Outside
  <2>4. Has("calls")' = Has("calls")
    BY <2>1 DEF Has
  <2> QED
    BY <2>1, <2>2, <2>3, <2>4 DEF CleanInv
<1> QED
  BY <1>1, <1>2, DeleteClean, StoreClean, PhaseTwoClean, EndClean DEF Next

LEMMA IncrementalEnds ==
  ASSUME Shape, CleanInv, EndRun, run.kind = "incremental", clean, RawComplete
  PROVE  /\ calls' \subseteq Reference(meta)
         /\ {c \in Reference(meta) : c[1] \in run.scope} \subseteq calls'
<1>1. phase = "write" /\ edges = {} /\ calls' = calls
  BY DEF EndRun
<1>2. /\ \A c \in calls : RightOn(c, Indexed)
      /\ {c \in Reference(meta) : c[1] \in run.scope} \subseteq calls
  BY <1>1 DEF CleanInv
<1>3. \A c \in calls : c \in RefOn(meta, Indexed)
  BY <1>2 DEF RightOn, RawComplete
<1>4. RefOn(meta, Indexed) = Reference(meta)
  BY ReferenceIs DEF Indexed
<1> QED
  BY <1>1, <1>2, <1>3, <1>4

-----------------------------------------------------------------------------
(* The inductive invariant and the theorems.                               *)

IInv ==
  /\ Types /\ Shape /\ Points
  /\ StoreInv /\ RamInv
  /\ WriteInv /\ EmptyInv /\ OwedInv
  /\ CleanInv

LEMMA InitIInv ==
  ASSUME Init
  PROVE  IInv
<1>1. Indexed = {}
  BY DEF Init, Indexed
<1>2. DefsOf(meta, {}) = {} /\ RawOf(meta, {}) = {}
  BY EmptyIs
<1>3. NoRun \in [kind : Kinds, affected : SUBSET Files, callers : SUBSET Files,
                 scope : SUBSET Files]
  BY DEF NoRun, Kinds
<1>4. Types
  BY <1>3, Orders DEF Init, Types, Phases
<1>5. Shape /\ Points
  BY DEF Init, Shape, Points, CallsPointToSymbols
<1>6. StoreInv
  BY <1>1, <1>2 DEF Init, StoreInv, Consistent
<1>7. RamInv /\ WriteInv /\ EmptyInv /\ OwedInv
  BY DEF Init, NoRun, RamInv, WriteInv, EmptyInv, OwedInv
<1>8. CleanInv
  BY DEF Init, CleanInv
<1> QED
  BY <1>4, <1>5, <1>6, <1>7, <1>8 DEF IInv

THEOREM IInvHolds == Spec => []IInv
<1>1. IInv /\ [Next]_vars => IInv'
  BY EdgeAssumption, NextTypes, NextPoints, NextStore, NextFull, NextClean DEF IInv
<1> QED
  BY InitIInv, <1>1, PTL DEF Spec

(* No call dangles, in any state of any run, crashed or not: deletes take  *)
(* the calls before the symbols, and resolution picks from the table       *)
(* (delete_files_data_bulk, select_best_candidate).                        *)
THEOREM NoCallDangles == Spec => []CallsPointToSymbols
<1>1. IInv => CallsPointToSymbols
  BY DEF IInv, Points
<1> QED
  BY IInvHolds, <1>1, PTL

(* A completed rebuild has the calls of its files, whether the raw edges   *)
(* stayed in RAM, overflowed into the table half-way or were never there.  *)
THEOREM RebuildIsExact == Spec => RebuildResolves
<1>1. IInv /\ [Next]_vars =>
        [EndRun /\ run.kind = "rebuild" => calls' = Reference(disk)]_vars
  BY RebuildEnds DEF IInv
<1> QED
  BY IInvHolds, <1>1, PTL DEF Spec, RebuildResolves

(* A replay after a rebuild interrupted in phase 2 makes up for it.        *)
THEOREM ReplayIsExact == Spec => ReplayRecovers
<1>1. IInv /\ [Next]_vars =>
        [EndRun /\ run.kind = "replay" /\ owed => calls' = Reference(meta)]_vars
  BY ReplayEnds DEF IInv
<1> QED
  BY IInvHolds, <1>1, PTL DEF Spec, ReplayRecovers

(* An incremental run leaves no stale call and completes those of the      *)
(* files it re-resolves (resolve_edges_incremental).                       *)
THEOREM IncrementalIsExact == Spec => IncrementalScoped
<1>1. IInv /\ [Next]_vars =>
        [EndRun /\ run.kind = "incremental" /\ clean /\ RawComplete =>
           /\ calls' \subseteq Reference(meta)
           /\ {c \in Reference(meta) : c[1] \in run.scope} \subseteq calls']_vars
  BY IncrementalEnds DEF IInv
<1> QED
  BY IInvHolds, <1>1, PTL DEF Spec, IncrementalScoped

=============================================================================
