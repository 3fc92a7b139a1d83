-------------------------- MODULE ComponentsProofs --------------------------
(***************************************************************************)
(* Proofs about four of the components MCComponents checks: what a visitor *)
(* hands down when it parses, the bridge and its trigger, the settings     *)
(* (the repositories two requests add, and the saved list), and the lines  *)
(* of a file on their way to an answer.  Each part proves an inductive     *)
(* invariant of the component's own specification; the theorems at the end *)
(* lift it to the composed one.                                            *)
(***************************************************************************)
EXTENDS MCComponents, Integers, Sequences, FiniteSetTheorems,
        SequenceTheorems, TLAPS, WellFoundedInduction

-----------------------------------------------------------------------------
(* Parsing (Parse).                                                        *)


(* Parsing: what a visitor hands down fits what it has extracted.          *)
AllNames == Names \cup {Anonymous}
Contexts == [scope : Seq(AllNames), parent : Seq(AllNames), within : Seq(Nat)]
Extracted == [fqn : Seq(AllNames), parent : Seq(AllNames), within : Seq(Nat),
              outOfLine : BOOLEAN]
CallEdges == [from : Seq(AllNames), within : Seq(Nat)]

(* The symbol a node is in.                                                *)
Around(extracted, within) == extracted[Parse!Last(within)]
IsIn(extracted, within) == within # <<>> /\ Parse!Last(within) \in DOMAIN extracted

(* The scope and the parent a node is given are those of the symbol around *)
(* it.                                                                     *)
Fits(extracted, c) ==
  \/ c.within = <<>> /\ c.scope = <<>> /\ c.parent = <<>>
  \/ /\ IsIn(extracted, c.within) /\ c.scope # <<>>
     /\ c.parent = Around(extracted, c.within).fqn
     /\ Around(extracted, c.within).outOfLine \/ c.scope = Around(extracted, c.within).fqn

ParentFits(extracted, s) ==
  \/ s.within = <<>> /\ s.parent = <<>>
  \/ IsIn(extracted, s.within) /\ s.parent = Around(extracted, s.within).fqn

CallerFits(extracted, e) ==
  /\ IsIn(extracted, e.within)
  /\ Around(extracted, e.within).outOfLine \/ e.from = Around(extracted, e.within).fqn

JoinInv ==
  /\ open \in Seq(Contexts) /\ symbols \in Seq(Extracted) /\ edges \in Seq(CallEdges)
  /\ \A d \in 1 .. Len(open) : Fits(symbols, open[d])
  /\ \A i \in 1 .. Len(symbols) : ParentFits(symbols, symbols[i])
  /\ \A i \in 1 .. Len(edges) : CallerFits(symbols, edges[i])

LEMMA JoinInit == Parse!Init => JoinInv
<1> SUFFICES ASSUME Parse!Init PROVE JoinInv
  OBVIOUS
<1>1. Parse!Root \in Contexts
  BY DEF Parse!Root, Contexts
<1>2. open = <<Parse!Root>> /\ Len(open) = 1 /\ open[1] = Parse!Root
  BY DEF Parse!Init
<1>3. open \in Seq(Contexts)
  BY <1>1, <1>2
<1>4. Fits(symbols, Parse!Root)
  BY DEF Fits, Parse!Root
<1>5. symbols = <<>> /\ edges = <<>>
  BY DEF Parse!Init
<1> QED
  BY <1>2, <1>3, <1>4, <1>5 DEF JoinInv

(* A symbol more leaves the ones before it where they are.                 *)
LEMMA OneMore ==
  ASSUME symbols \in Seq(Extracted), NEW x \in Extracted,
         symbols' = Append(symbols, x)
  PROVE  /\ symbols' \in Seq(Extracted) /\ Len(symbols') = Len(symbols) + 1
         /\ symbols'[Len(symbols) + 1] = x
         /\ DOMAIN symbols' = 1 .. Len(symbols) + 1
         /\ \A i \in 1 .. Len(symbols) : symbols'[i] = symbols[i]
BY AppendProperties

LEMMA FitStays ==
  ASSUME symbols \in Seq(Extracted), NEW x \in Extracted,
         symbols' = Append(symbols, x)
  PROVE  /\ \A c : Fits(symbols, c) => Fits(symbols', c)
         /\ \A s : ParentFits(symbols, s) => ParentFits(symbols', s)
         /\ \A e : CallerFits(symbols, e) => CallerFits(symbols', e)
<1>1. /\ DOMAIN symbols' = 1 .. Len(symbols) + 1 /\ Len(symbols) \in Nat
      /\ DOMAIN symbols = 1 .. Len(symbols)
      /\ \A i \in 1 .. Len(symbols) : symbols'[i] = symbols[i]
  BY OneMore
<1>2. ASSUME NEW w, IsIn(symbols, w)
      PROVE  IsIn(symbols', w) /\ Around(symbols', w) = Around(symbols, w)
  BY <1>1, <1>2 DEF IsIn, Around
<1> QED
  BY <1>2 DEF Fits, ParentFits, CallerFits

(* The chain of open nodes up to d, with or without one below.             *)
LEMMA Chain ==
  ASSUME JoinInv, NEW d \in DOMAIN open, NEW c \in Contexts,
         \/ open' = SubSeq(open, 1, d)
         \/ open' = Append(SubSeq(open, 1, d), c)
  PROVE  /\ open' \in Seq(Contexts)
         /\ \A i \in 1 .. Len(open') :
              open'[i] = c \/ \E j \in 1 .. Len(open) : open'[i] = open[j]
<1>1. open \in Seq(Contexts) /\ d \in 1 .. Len(open) /\ Len(open) \in Nat
  BY DEF JoinInv
<1> DEFINE outer == SubSeq(open, 1, d)
<1>2. /\ outer \in Seq(Contexts) /\ Len(outer) = d
      /\ \A i \in 1 .. d : outer[i] = open[i]
  <2>1. \A i \in 1 .. d : open[i] \in Contexts
    BY <1>1
  <2> QED
    BY <1>1, <2>1, SubSeqProperties
<1> HIDE DEF outer
<1>3. CASE open' = outer
  BY <1>1, <1>2, <1>3
<1>4. CASE open' = Append(outer, c)
  <2>1. /\ open' \in Seq(Contexts) /\ Len(open') = d + 1 /\ open'[d + 1] = c
        /\ \A i \in 1 .. d : open'[i] = outer[i]
    BY <1>2, <1>4, AppendProperties
  <2>2. ASSUME NEW i \in 1 .. d + 1
        PROVE  open'[i] = c \/ \E j \in 1 .. Len(open) : open'[i] = open[j]
    <3>1. CASE i = d + 1
      BY <2>1, <3>1
    <3>2. CASE i # d + 1
      <4>1. i \in 1 .. d
        BY <1>1, <3>2
      <4>2. open'[i] = open[i]
        BY <1>2, <2>1, <4>1
      <4>3. i \in 1 .. Len(open)
        BY <1>1, <4>1
      <4> QED
        BY <4>2, <4>3
    <3> QED
      BY <3>1, <3>2
  <2> QED
    BY <2>1, <2>2
<1> QED
  BY <1>3, <1>4 DEF outer

(* A node that is not a symbol changes nothing for the others.             *)
LEMMA PassKeeps ==
  ASSUME JoinInv, NEW d \in DOMAIN open,
         \/ open' = SubSeq(open, 1, d)
         \/ open' = Append(SubSeq(open, 1, d), open[d]),
         UNCHANGED <<symbols, edges>>
  PROVE  JoinInv'
<1>1. /\ open \in Seq(Contexts) /\ d \in 1 .. Len(open)
      /\ \A j \in 1 .. Len(open) : Fits(symbols, open[j])
  BY DEF JoinInv
<1>2. open[d] \in Contexts
  BY <1>1
<1>3. /\ open' \in Seq(Contexts)
      /\ \A i \in 1 .. Len(open') :
           open'[i] = open[d] \/ \E j \in 1 .. Len(open) : open'[i] = open[j]
  BY <1>2, Chain
<1>4. \A i \in 1 .. Len(open') : Fits(symbols, open'[i])
  BY <1>1, <1>3
<1> QED
  BY <1>3, <1>4 DEF JoinInv

LEMMA ScopeGrows ==
  ASSUME NEW s \in Seq(AllNames), NEW n \in AllNames
  PROVE  Append(s, n) \in Seq(AllNames) /\ Append(s, n) # <<>>
BY AppendProperties

(* A symbol, and what its children are given, if they are visited.         *)
LEMMA EmitKeeps ==
  ASSUME JoinInv, NEW d \in DOMAIN open, NEW name \in AllNames,
         NEW class \in {<<>>} \cup {<<n>> : n \in Names},
         Parse!Emit(open[d], class, name),
         \/ open' = SubSeq(open, 1, d)
         \/ open' = Append(SubSeq(open, 1, d), Parse!InnerContext(open[d], class, name)),
         UNCHANGED edges
  PROVE  JoinInv'
<1>1. /\ open \in Seq(Contexts) /\ d \in 1 .. Len(open)
      /\ symbols \in Seq(Extracted) /\ edges \in Seq(CallEdges)
      /\ \A j \in 1 .. Len(open) : Fits(symbols, open[j])
      /\ \A j \in 1 .. Len(symbols) : ParentFits(symbols, symbols[j])
      /\ \A j \in 1 .. Len(edges) : CallerFits(symbols, edges[j])
  <2>1. open \in Seq(Contexts)
    BY DEF JoinInv
  <2>2. d \in 1 .. Len(open)
    BY <2>1
  <2> QED
    BY ONLY JoinInv, <2>2 DEF JoinInv
<1> DEFINE c == open[d]
           fqn == Append(c.scope \o class, name)
           x == [fqn |-> fqn, parent |-> c.parent, within |-> c.within,
                 outOfLine |-> class # <<>>]
           inner == [scope |-> Append(c.scope, name), parent |-> fqn,
                     within |-> Append(c.within, Len(symbols) + 1)]
<1>2. c \in Contexts /\ Fits(symbols, c)
  BY <1>1
<1>3. /\ c.scope \in Seq(AllNames) /\ c.parent \in Seq(AllNames)
      /\ c.within \in Seq(Nat)
  BY <1>2 DEF Contexts
<1>4. class \in Seq(AllNames)
  <2>1. CASE class = <<>>
    BY <2>1
  <2>2. ASSUME NEW n \in Names, class = <<n>> PROVE class \in Seq(AllNames)
    BY <2>2 DEF AllNames
  <2> QED
    BY <2>1, <2>2
<1>5. fqn \in Seq(AllNames) /\ fqn # <<>>
  <2>1. c.scope \o class \in Seq(AllNames)
    BY <1>3, <1>4, ConcatProperties
  <2> QED
    BY <2>1, ScopeGrows
<1>6. symbols' = Append(symbols, x) /\ Parse!InnerContext(open[d], class, name) = inner
  BY DEF Parse!Emit, Parse!Qualified, Parse!InnerContext
<1>7. /\ Append(c.scope, name) \in Seq(AllNames)
      /\ Append(c.scope, name) # <<>>
  BY <1>3, ScopeGrows
<1>8. Len(symbols) \in Nat
  BY <1>1
<1>9. /\ Append(c.within, Len(symbols) + 1) \in Seq(Nat)
      /\ Append(c.within, Len(symbols) + 1) # <<>>
      /\ Parse!Last(Append(c.within, Len(symbols) + 1)) = Len(symbols) + 1
  BY <1>3, <1>8 DEF Parse!Last
<1>10. class = <<>> => fqn = Append(c.scope, name)
  BY <1>3
<1> HIDE DEF fqn, c
<1>11. x \in Extracted
  BY <1>3, <1>5 DEF Extracted
<1>12. inner \in Contexts
  BY <1>5, <1>7, <1>9 DEF Contexts
<1> HIDE DEF x
<1>13. /\ symbols' \in Seq(Extracted) /\ Len(symbols') = Len(symbols) + 1
       /\ symbols'[Len(symbols) + 1] = x
       /\ DOMAIN symbols' = 1 .. Len(symbols) + 1
       /\ \A i \in 1 .. Len(symbols) : symbols'[i] = symbols[i]
  BY <1>1, <1>6, <1>11, OneMore
<1>14. /\ \A z : Fits(symbols, z) => Fits(symbols', z)
       /\ \A z : ParentFits(symbols, z) => ParentFits(symbols', z)
       /\ \A z : CallerFits(symbols, z) => CallerFits(symbols', z)
  BY <1>1, <1>6, <1>11, FitStays
<1>15. Fits(symbols', inner)
  <2>1. /\ IsIn(symbols', inner.within)
        /\ Around(symbols', inner.within) = x
    BY <1>8, <1>9, <1>13 DEF IsIn, Around
  <2>2. x.fqn = fqn /\ x.outOfLine = (class # <<>>)
    BY DEF x
  <2> QED
    BY <1>7, <1>10, <2>1, <2>2 DEF Fits
<1>16. ParentFits(symbols', x)
  <2>1. x.parent = c.parent /\ x.within = c.within
    BY DEF x
  <2>2. ParentFits(symbols, x)
    BY <1>2, <2>1 DEF Fits, ParentFits
  <2> QED
    BY <1>14, <2>2
<1> HIDE DEF inner
<1>17. /\ open' \in Seq(Contexts)
       /\ \A i \in 1 .. Len(open') :
            open'[i] = inner \/ \E j \in 1 .. Len(open) : open'[i] = open[j]
  BY <1>6, <1>12, Chain
<1>18. \A i \in 1 .. Len(open') : Fits(symbols', open'[i])
  BY <1>1, <1>14, <1>15, <1>17
<1>19. \A i \in 1 .. Len(symbols') : ParentFits(symbols', symbols'[i])
  BY <1>1, <1>8, <1>13, <1>14, <1>16
<1>20. \A i \in 1 .. Len(edges') : CallerFits(symbols', edges'[i])
  BY <1>1, <1>14
<1> QED
  BY <1>1, <1>13, <1>17, <1>18, <1>19, <1>20 DEF JoinInv

(* A call, and the node it is.                                             *)
LEMMA CallKeeps ==
  ASSUME JoinInv, NEW d \in DOMAIN open, open[d].scope # <<>>,
         edges' = Append(edges, [from |-> Parse!Caller(open[d].scope),
                                 within |-> open[d].within]),
         open' = Append(SubSeq(open, 1, d), open[d]), UNCHANGED symbols
  PROVE  JoinInv'
<1>1. /\ open \in Seq(Contexts) /\ d \in 1 .. Len(open)
      /\ symbols \in Seq(Extracted) /\ edges \in Seq(CallEdges)
      /\ \A j \in 1 .. Len(open) : Fits(symbols, open[j])
      /\ \A j \in 1 .. Len(edges) : CallerFits(symbols, edges[j])
  BY DEF JoinInv
<1> DEFINE c == open[d]
           e == [from |-> c.scope, within |-> c.within]
<1>2. c \in Contexts /\ Fits(symbols, c)
  BY <1>1
<1>3. c.scope \in Seq(AllNames) /\ c.within \in Seq(Nat)
  BY <1>2 DEF Contexts
<1> HIDE DEF c
<1>4. Parse!Caller(c.scope) = c.scope
  <2> DEFINE s == c.scope
  <2>1. s \in Seq(AllNames) /\ Len(s) \in Nat /\ Len(s) # 0
    BY <1>3 DEF c
  <2> HIDE DEF s
  <2>2. Append(SubSeq(s, 1, Len(s) - 1), s[Len(s)]) = s
    BY <2>1
  <2> QED
    BY <2>2 DEF Parse!Caller, Parse!Qualified, Parse!Front, Parse!Last, s
<1>5. edges' = Append(edges, e)
  BY <1>4 DEF c
<1>6. e \in CallEdges
  BY <1>3 DEF CallEdges
<1>7. CallerFits(symbols, e)
  BY <1>2 DEF Fits, CallerFits, c
<1> HIDE DEF e
<1>8. /\ edges' \in Seq(CallEdges)
      /\ \A i \in 1 .. Len(edges') :
           edges'[i] = e \/ \E j \in 1 .. Len(edges) : edges'[i] = edges[j]
  BY <1>1, <1>5, <1>6, AppendProperties
<1>9. /\ open' \in Seq(Contexts)
      /\ \A i \in 1 .. Len(open') :
            open'[i] = c \/ \E j \in 1 .. Len(open) : open'[i] = open[j]
  BY <1>2, Chain DEF c
<1>10. \A i \in 1 .. Len(open') : Fits(symbols, open'[i])
  BY <1>1, <1>2, <1>9
<1>11. \A i \in 1 .. Len(edges') : CallerFits(symbols, edges'[i])
  BY <1>1, <1>7, <1>8
<1> QED
  BY <1>8, <1>9, <1>10, <1>11 DEF JoinInv

LEMMA VisitKeeps ==
  ASSUME JoinInv, NEW d \in DOMAIN open, NEW rule,
         NEW name \in Names \cup {Nameless}, Parse!VisitChild(d, rule, name)
  PROVE  JoinInv'
<1>1. CASE /\ name # Nameless
           /\ \/ Parse!Emit(open[d], <<>>, name)
                 /\ \/ open' = Append(SubSeq(open, 1, d), Parse!InnerContext(open[d], <<>>, name))
                    \/ open' = SubSeq(open, 1, d)
              \/ \E class \in Names :
                   /\ Parse!Emit(open[d], <<class>>, name)
                   /\ open' = Append(SubSeq(open, 1, d),
                                     Parse!InnerContext(open[d], <<class>>, name))
           /\ UNCHANGED edges
  <2>1. name \in AllNames
    BY <1>1 DEF AllNames
  <2>2. CASE Parse!Emit(open[d], <<>>, name)
             /\ \/ open' = Append(SubSeq(open, 1, d), Parse!InnerContext(open[d], <<>>, name))
                \/ open' = SubSeq(open, 1, d)
    BY <1>1, <2>1, <2>2, EmitKeeps
  <2>3. ASSUME NEW class \in Names, Parse!Emit(open[d], <<class>>, name),
               open' = Append(SubSeq(open, 1, d), Parse!InnerContext(open[d], <<class>>, name))
        PROVE  JoinInv'
    BY <1>1, <2>1, <2>3, EmitKeeps
  <2> QED
    BY <1>1, <2>2, <2>3
<1>2. CASE /\ Parse!Emit(open[d], <<>>, Anonymous)
           /\ open' = Append(SubSeq(open, 1, d), Parse!InnerContext(open[d], <<>>, Anonymous))
           /\ UNCHANGED edges
  BY <1>2, EmitKeeps DEF AllNames
<1>3. CASE /\ \/ open' = SubSeq(open, 1, d)
              \/ open' = Append(SubSeq(open, 1, d), open[d])
           /\ UNCHANGED <<symbols, edges>>
  BY <1>3, PassKeeps
<1>4. CASE /\ open[d].scope # <<>>
           /\ edges' = Append(edges, [from |-> Parse!Caller(open[d].scope),
                                      within |-> open[d].within])
           /\ open' = Append(SubSeq(open, 1, d), open[d]) /\ UNCHANGED symbols
  BY <1>4, CallKeeps
<1> QED
  BY <1>1, <1>2, <1>3, <1>4 DEF Parse!VisitChild

LEMMA JoinStep == JoinInv /\ [Parse!Next]_(Parse!vars) => JoinInv'
<1>1. ASSUME JoinInv, Parse!Visit PROVE JoinInv'
  BY <1>1, VisitKeeps DEF Parse!Visit
<1>2. ASSUME JoinInv, UNCHANGED Parse!vars PROVE JoinInv'
  BY <1>2 DEF JoinInv, Parse!vars
<1> QED
  BY <1>1, <1>2 DEF Parse!Next

LEMMA JoinInvIsEnough == JoinInv => Parse!NamesJoinUp
<1> SUFFICES ASSUME JoinInv PROVE Parse!NamesJoinUp
  OBVIOUS
<1>1. ASSUME NEW i \in DOMAIN edges
      PROVE  /\ edges[i].within # <<>>
             /\ \/ symbols[Parse!Last(edges[i].within)].outOfLine
                \/ edges[i].from = symbols[Parse!Last(edges[i].within)].fqn
  <2>1. CallerFits(symbols, edges[i])
    BY <1>1 DEF JoinInv
  <2> QED
    BY <2>1 DEF CallerFits, IsIn, Around
<1>2. ASSUME NEW i \in DOMAIN symbols
      PROVE  symbols[i].parent =
               IF symbols[i].within = <<>> THEN <<>>
               ELSE symbols[Parse!Last(symbols[i].within)].fqn
  <2>1. ParentFits(symbols, symbols[i])
    BY <1>2 DEF JoinInv
  <2> QED
    BY <2>1 DEF ParentFits, IsIn, Around
<1> QED
  BY <1>1, <1>2 DEF Parse!NamesJoinUp

-----------------------------------------------------------------------------
(* The bridge (Bridged).                                                   *)


(* The bridge.                                                             *)
ChangesFiles(h) ==
  Bridged!At(h, "write") \/ Bridged!At(h, "unlink") \/ Bridged!At(h, "save")

(* Who works on the files holds the lock, and what is being unlinked is    *)
(* owned by nobody.                                                        *)
LockInv ==
  /\ handler = [h \in Handlers |-> handler[h]]
  /\ \A h \in Handlers : ChangesFiles(h) => lock = h
  /\ worker = "save" => lock = "worker"
  /\ \A h \in Handlers :
       Bridged!At(h, "unlink") => \A p \in handler[h].paths : paths[p] = NoBlob
  /\ \A h \in Handlers :
       Bridged!At(h, "save") => handler[h].then \in {"idle", "register", "schedule"}

InStep(p) == disk[p] = paths[p] \/ (paths[p] = NoBlob /\ p \in orphans)

ToldInv ==
  /\ LockInv
  /\ \A p \in Bridged!Paths : ~Bridged!Changing(p) => InStep(p)
  /\ untold # {} => Bridged!TriggerComing \/ lost

LEMMA ToldInit == Bridged!Init => ToldInv
BY DEF Bridged!Init, ToldInv, LockInv, ChangesFiles, Bridged!At, Bridged!Idle, InStep,
   Bridged!Changing

(* A step of handler h leaves the others where they are.                   *)
LEMMA OthersStay ==
  ASSUME LockInv, NEW h \in Handlers, NEW next, Bridged!Goto(h, next)
  PROVE  /\ handler' = [g \in Handlers |-> handler'[g]]
         /\ handler'[h] = next
         /\ \A g \in Handlers \ {h} : handler'[g] = handler[g]
BY DEF LockInv, Bridged!Goto

(* With the lock free nobody changes a file.                               *)
LEMMA FreeIsQuiet ==
  ASSUME Bridged!BridgeAssumption, LockInv, lock = "free"
  PROVE  /\ \A h \in Handlers : ~ChangesFiles(h)
         /\ \A p : ~Bridged!Changing(p)
BY DEF Bridged!BridgeAssumption, LockInv, ChangesFiles, Bridged!Changing

(* The holder of the lock is alone with the files.                         *)
LEMMA HolderIsAlone ==
  ASSUME LockInv, NEW h \in Handlers, lock = h
  PROVE  \A g \in Handlers \ {h} : ~ChangesFiles(g)
BY DEF LockInv

LEMMA UploadKeeps ==
  ASSUME Bridged!BridgeAssumption, ToldInv, NEW h \in Handlers, Bridged!BatchUpload(h)
  PROVE  ToldInv'
<1>1. PICK uploaded :
        /\ Bridged!Enter(h) /\ lock' = h
        /\ Bridged!Goto(h, [step |-> "write", uploaded |-> uploaded])
        /\ UNCHANGED <<Bridged!state, registered, disk, Bridged!trigger, untold, lost, orphans>>
  BY DEF Bridged!BatchUpload
<1>2. LockInv /\ handler[h] = Bridged!Idle /\ lock = "free"
  BY <1>1 DEF ToldInv, Bridged!Enter
<1>3. /\ handler' = [g \in Handlers |-> handler'[g]]
      /\ handler'[h].step = "write"
      /\ \A g \in Handlers \ {h} : handler'[g] = handler[g]
  BY <1>1, <1>2, OthersStay
<1>4. \A g \in Handlers : ~ChangesFiles(g)
  BY <1>2, FreeIsQuiet
<1>5. LockInv'
  BY <1>1, <1>2, <1>3, <1>4 DEF LockInv, ChangesFiles, Bridged!At, Bridged!state,
     Bridged!trigger, Bridged!BridgeAssumption
<1>6. \A p \in Bridged!Paths : Bridged!Changing(p)' <=> Bridged!Changing(p)
  BY <1>3, <1>4 DEF Bridged!Changing, ChangesFiles, Bridged!At
<1>7. Bridged!TriggerComing => Bridged!TriggerComing'
  BY <1>1, <1>2, <1>3 DEF Bridged!TriggerComing, Bridged!At, Bridged!Idle,
     Bridged!trigger
<1> QED
  BY <1>1, <1>5, <1>6, <1>7 DEF ToldInv, InStep, Bridged!state

LEMMA WriteKeeps ==
  ASSUME Bridged!BridgeAssumption, ToldInv, NEW h \in Handlers, Bridged!WriteAll(h)
  PROVE  ToldInv'
<1> DEFINE uploaded == handler[h].uploaded
           written == {PathOf[b] : b \in Bridged!Range(uploaded)}
<1>1. /\ Bridged!At(h, "write")
      /\ disk' = Bridged!Placed(disk, uploaded) /\ paths' = Bridged!Placed(paths, uploaded)
      /\ untold' = untold \cup written
      /\ orphans' = orphans \ written
      /\ Bridged!Goto(h, [step |-> "save", then |-> "register"])
      /\ UNCHANGED <<checkpoints, registered, lock, Bridged!trigger, requests, lost>>
  BY DEF Bridged!WriteAll, Bridged!RecordUploads
<1>2. LockInv /\ lock = h
  BY <1>1 DEF ToldInv, LockInv, ChangesFiles
<1>3. /\ handler' = [g \in Handlers |-> handler'[g]]
      /\ handler'[h] = [step |-> "save", then |-> "register"]
      /\ \A g \in Handlers \ {h} : handler'[g] = handler[g]
  BY <1>1, <1>2, OthersStay
<1>4. \A g \in Handlers \ {h} : ~ChangesFiles(g)
  BY <1>2, HolderIsAlone
<1>5. \A p : ~Bridged!Changing(p) /\ ~Bridged!Changing(p)'
  BY <1>1, <1>3, <1>4 DEF Bridged!Changing, ChangesFiles, Bridged!At
<1>6. LockInv'
  BY <1>1, <1>2, <1>3, <1>4 DEF LockInv, ChangesFiles, Bridged!At, Bridged!trigger,
     Bridged!BridgeAssumption
<1>7. ASSUME NEW p \in Bridged!Paths
      PROVE  InStep(p)'
  <2>1. CASE {i \in DOMAIN uploaded : PathOf[uploaded[i]] = p} = {}
    <3>1. disk'[p] = disk[p] /\ paths'[p] = paths[p]
      BY <1>1, <2>1 DEF Bridged!Placed
    <3>2. p \notin written
      BY <2>1 DEF Bridged!Range
    <3>3. InStep(p)
      BY <1>5 DEF ToldInv
    <3> QED
      BY <1>1, <3>1, <3>2, <3>3 DEF InStep
  <2>2. CASE {i \in DOMAIN uploaded : PathOf[uploaded[i]] = p} # {}
    <3>1. disk'[p] = paths'[p]
      BY <1>1, <2>2 DEF Bridged!Placed
    <3> QED
      BY <3>1 DEF InStep
  <2> QED
    BY <2>1, <2>2
<1>8. Bridged!TriggerComing'
  BY <1>3 DEF Bridged!TriggerComing, Bridged!At
<1> QED
  BY <1>6, <1>7, <1>8 DEF ToldInv

LEMMA CheckpointKeeps ==
  ASSUME Bridged!BridgeAssumption, ToldInv, NEW h \in Handlers, Bridged!CheckpointBlobs(h)
  PROVE  ToldInv'
<1>1. PICK id \in {NoCheckpoint} \cup 0 .. requests, added, deleted \in SUBSET Blobs :
        /\ Bridged!Enter(h)
        /\ paths' = Bridged!Disowned(Bridged!Owned(deleted))
        /\ lock' = h
        /\ Bridged!Goto(h, [step |-> "unlink", paths |-> Bridged!Owned(deleted),
                            known |-> Bridged!Resolves(id),
                    set |-> Bridged!BlobSet(id, added, deleted), checkpoint |-> TRUE])
        /\ UNCHANGED <<checkpoints, registered, disk, Bridged!trigger, untold, lost, orphans>>
  BY DEF Bridged!CheckpointBlobs
<1> DEFINE gone == Bridged!Owned(deleted)
<1>2. LockInv /\ handler[h] = Bridged!Idle /\ lock = "free"
  BY <1>1 DEF ToldInv, Bridged!Enter
<1>3. /\ handler' = [g \in Handlers |-> handler'[g]]
      /\ handler'[h].step = "unlink" /\ handler'[h].paths = gone
      /\ \A g \in Handlers \ {h} : handler'[g] = handler[g]
  BY <1>1, <1>2, OthersStay
<1>4. \A g \in Handlers : ~ChangesFiles(g)
  BY <1>2, FreeIsQuiet
<1>5. gone \subseteq Bridged!Paths
  BY DEF Bridged!Owned, Bridged!Known, Bridged!Paths
<1> HIDE DEF gone
<1>6. paths' = [p \in Bridged!Paths |-> IF p \in gone THEN NoBlob ELSE paths[p]]
  BY <1>1 DEF Bridged!Disowned, gone
<1>7. LockInv'
  BY <1>1, <1>2, <1>3, <1>4, <1>5, <1>6
     DEF LockInv, ChangesFiles, Bridged!At, Bridged!trigger, Bridged!BridgeAssumption
<1>8. \A p \in Bridged!Paths : ~Bridged!Changing(p) /\ (Bridged!Changing(p)' <=> p \in gone)
  BY <1>3, <1>4 DEF Bridged!Changing, ChangesFiles, Bridged!At
<1>9. \A p \in Bridged!Paths : ~Bridged!Changing(p)' => InStep(p)'
  BY <1>1, <1>6, <1>8 DEF ToldInv, InStep
<1>10. Bridged!TriggerComing => Bridged!TriggerComing'
  BY <1>1, <1>2, <1>3 DEF Bridged!TriggerComing, Bridged!At, Bridged!Idle,
     Bridged!trigger
<1> QED
  BY <1>1, <1>7, <1>9, <1>10 DEF ToldInv

LEMMA RetrievalKeeps ==
  ASSUME Bridged!BridgeAssumption, ToldInv, NEW h \in Handlers, Bridged!CodebaseRetrieval(h)
  PROVE  ToldInv'
<1>1. PICK id \in {NoCheckpoint} \cup 0 .. requests, added, deleted \in SUBSET Blobs :
        /\ Bridged!Enter(h)
        /\ Bridged!Reconcile(h, id, added, deleted)
        /\ orphans' = orphans \cup Bridged!Owned(deleted)
        /\ UNCHANGED <<checkpoints, registered, disk, Bridged!trigger, untold, lost>>
  BY DEF Bridged!CodebaseRetrieval
<1> DEFINE dropped == Bridged!Owned(deleted)
           left == Bridged!Disowned(dropped)
           gone == {p \in Bridged!Paths :
                      left[p] \notin Bridged!BlobSet(id, added, deleted) \cup {NoBlob}}
<1>2. LockInv /\ handler[h] = Bridged!Idle /\ lock = "free"
  BY <1>1 DEF ToldInv, Bridged!Enter
<1>3. \A g \in Handlers : ~ChangesFiles(g)
  BY <1>2, FreeIsQuiet
<1>4. \A p \in Bridged!Paths : InStep(p)
  BY <1>2, FreeIsQuiet DEF ToldInv
<1>5. left = [p \in Bridged!Paths |-> IF p \in dropped THEN NoBlob ELSE paths[p]]
  BY DEF Bridged!Disowned
<1>6. orphans' = orphans \cup dropped
  BY <1>1
<1>7. CASE ~Bridged!Resolves(id)
  <2>1. paths' = left /\ lock' = lock /\ handler' = handler
    BY <1>1, <1>7 DEF Bridged!Reconcile
  <2> HIDE DEF left, dropped, gone
  <2>2. LockInv'
    BY <1>1, <1>2, <1>3, <2>1 DEF LockInv, ChangesFiles, Bridged!At, Bridged!trigger,
       Bridged!BridgeAssumption
  <2>3. \A p \in Bridged!Paths : InStep(p)'
    BY <1>1, <1>4, <1>5, <1>6, <2>1 DEF InStep
  <2>4. Bridged!TriggerComing => Bridged!TriggerComing'
    BY <1>1, <2>1 DEF Bridged!TriggerComing, Bridged!At, Bridged!trigger
  <2> QED
    BY <1>1, <2>2, <2>3, <2>4 DEF ToldInv
<1>8. CASE Bridged!Resolves(id)
  <2>1. /\ paths' = [p \in Bridged!Paths |-> IF p \in gone THEN NoBlob ELSE left[p]]
        /\ lock' = h
        /\ Bridged!Goto(h, [step |-> "unlink", paths |-> gone, known |-> TRUE,
                    set |-> {}, checkpoint |-> FALSE])
    BY <1>1, <1>8 DEF Bridged!Reconcile
  <2>2. gone \subseteq Bridged!Paths
    OBVIOUS
  <2> HIDE DEF left, dropped, gone
  <2>3. /\ handler' = [g \in Handlers |-> handler'[g]]
        /\ handler'[h].step = "unlink" /\ handler'[h].paths = gone
        /\ \A g \in Handlers \ {h} : handler'[g] = handler[g]
    BY <1>2, <2>1, OthersStay
  <2>4. LockInv'
    BY <1>1, <1>2, <1>3, <2>1, <2>2, <2>3
       DEF LockInv, ChangesFiles, Bridged!At, Bridged!trigger, Bridged!BridgeAssumption
  <2>5. \A p \in Bridged!Paths : Bridged!Changing(p)' <=> p \in gone
    BY <1>3, <2>3 DEF Bridged!Changing, ChangesFiles, Bridged!At
  <2>6. \A p \in Bridged!Paths : ~Bridged!Changing(p)' => InStep(p)'
    BY <1>1, <1>4, <1>5, <1>6, <2>1, <2>5 DEF InStep
  <2>7. Bridged!TriggerComing => Bridged!TriggerComing'
    BY <1>1, <1>2, <2>3 DEF Bridged!TriggerComing, Bridged!At, Bridged!Idle,
       Bridged!trigger
  <2> QED
    BY <1>1, <2>4, <2>6, <2>7 DEF ToldInv
<1> QED
  BY <1>7, <1>8

LEMMA UnlinkKeeps ==
  ASSUME Bridged!BridgeAssumption, ToldInv, NEW h \in Handlers, Bridged!Unlink(h)
  PROVE  ToldInv'
<1> DEFINE r == handler[h]
           after == IF r.known THEN [step |-> "save", then |-> IF r.paths = {} THEN "idle"
                                                                             ELSE "schedule"]
                               ELSE Bridged!Idle
<1>1. /\ Bridged!At(h, "unlink")
      /\ disk' = [p \in Bridged!Paths |-> IF p \in r.paths THEN NoBlob ELSE disk[p]]
      /\ untold' = untold \cup r.paths
      /\ Bridged!Goto(h, after)
      /\ IF r.known THEN lock' = lock /\ lost' = lost
                    ELSE lock' = "free" /\ lost' = (lost \/ r.paths # {})
      /\ UNCHANGED <<blobs, paths, registered, Bridged!trigger, requests, orphans>>
  BY DEF Bridged!Unlink
<1>2. LockInv /\ lock = h /\ \A p \in r.paths : paths[p] = NoBlob
  BY <1>1 DEF ToldInv, LockInv, ChangesFiles
<1>3. /\ handler' = [g \in Handlers |-> handler'[g]]
      /\ handler'[h] = after
      /\ \A g \in Handlers \ {h} : handler'[g] = handler[g]
  BY <1>1, <1>2, OthersStay
<1>4. \A g \in Handlers \ {h} : ~ChangesFiles(g)
  BY <1>2, HolderIsAlone
<1>5. after.step \in {"idle", "save"} /\ (after.step = "save" => after.then \in {"idle", "schedule"})
  BY DEF Bridged!Idle
<1>6. (after.step = "save") <=> r.known
  BY DEF Bridged!Idle
<1>7. r.known /\ r.paths # {} => after.step = "save" /\ after.then # "idle"
  OBVIOUS
<1> HIDE DEF after
<1>8. \A p : (Bridged!Changing(p) <=> p \in r.paths) /\ ~Bridged!Changing(p)'
  BY <1>1, <1>3, <1>4, <1>5 DEF Bridged!Changing, ChangesFiles, Bridged!At
<1>9. LockInv'
  BY <1>1, <1>2, <1>3, <1>4, <1>5, <1>6
     DEF LockInv, ChangesFiles, Bridged!At, Bridged!trigger, Bridged!BridgeAssumption
<1>10. \A p \in Bridged!Paths : InStep(p)'
  BY <1>1, <1>2, <1>8 DEF ToldInv, InStep
<1>11. Bridged!TriggerComing => Bridged!TriggerComing'
  BY <1>1, <1>3 DEF Bridged!TriggerComing, Bridged!At, Bridged!trigger
<1>12. r.known /\ r.paths # {} => Bridged!TriggerComing'
  BY <1>3, <1>7 DEF Bridged!TriggerComing, Bridged!At
<1>13. (untold # {})' => (Bridged!TriggerComing \/ lost)'
  BY <1>1, <1>11, <1>12 DEF ToldInv
<1> QED
  BY <1>9, <1>10, <1>13 DEF ToldInv

(* A step that leaves files, owners and what is being unlinked alone.      *)
LEMMA QuietKeeps ==
  ASSUME ToldInv, LockInv', UNCHANGED <<paths, disk, orphans>>,
         \A p : Bridged!Changing(p) => Bridged!Changing(p)',
         (untold # {})' => (Bridged!TriggerComing \/ lost)'
  PROVE  ToldInv'
BY DEF ToldInv, InStep

LEMMA SaveKeeps ==
  ASSUME Bridged!BridgeAssumption, ToldInv, NEW h \in Handlers, Bridged!Save(h)
  PROVE  ToldInv'
<1>1. /\ Bridged!At(h, "save") /\ lock' = "free"
      /\ Bridged!Goto(h, [step |-> handler[h].then])
      /\ UNCHANGED <<Bridged!state, registered, disk, Bridged!trigger, requests, untold,
                     lost, orphans>>
  BY DEF Bridged!Save
<1>2. LockInv /\ lock = h /\ handler[h].then \in {"idle", "register", "schedule"}
  BY <1>1 DEF ToldInv, LockInv, ChangesFiles
<1>3. /\ handler' = [g \in Handlers |-> handler'[g]]
      /\ handler'[h].step = handler[h].then
      /\ \A g \in Handlers \ {h} : handler'[g] = handler[g]
  BY <1>1, <1>2, OthersStay
<1>4. \A g \in Handlers \ {h} : ~ChangesFiles(g)
  BY <1>2, HolderIsAlone
<1>5. LockInv'
  BY <1>1, <1>2, <1>3, <1>4 DEF LockInv, ChangesFiles, Bridged!At, Bridged!trigger,
     Bridged!BridgeAssumption
<1>6. \A p : Bridged!Changing(p) => Bridged!Changing(p)'
  BY <1>1, <1>3 DEF Bridged!Changing, Bridged!At
<1>7. Bridged!TriggerComing => Bridged!TriggerComing'
  BY <1>1, <1>2, <1>3 DEF Bridged!TriggerComing, Bridged!At, Bridged!trigger
<1> QED
  BY <1>1, <1>5, <1>6, <1>7, QuietKeeps DEF ToldInv, Bridged!state

LEMMA TellKeeps ==
  ASSUME Bridged!BridgeAssumption, ToldInv, NEW h \in Handlers,
         Bridged!EnsureRegistered(h) \/ Bridged!ScheduleIndexTrigger(h)
  PROVE  ToldInv'
<1>1. PICK next : /\ Bridged!At(h, "register") \/ Bridged!At(h, "schedule")
                  /\ Bridged!Goto(h, next) /\ next.step \in {"idle", "schedule"}
                  /\ UNCHANGED <<Bridged!state, disk, lock, requests, untold, orphans>>
                  /\ \/ next.step = "schedule" /\ worker' = worker /\ lost' = lost
                     \/ next.step = "idle" /\ worker' = worker /\ lost' = (lost \/ untold # {})
                     \/ /\ next.step = "idle" /\ lost' = lost /\ dirty' = TRUE
                        /\ worker' = IF worker = "none" THEN "sleep" ELSE worker
  BY DEF Bridged!EnsureRegistered, Bridged!ScheduleIndexTrigger, Bridged!Fail,
     Bridged!Idle, Bridged!trigger
<1>2. LockInv
  BY DEF ToldInv
<1>3. /\ handler' = [g \in Handlers |-> handler'[g]]
      /\ handler'[h] = next
      /\ \A g \in Handlers \ {h} : handler'[g] = handler[g]
  BY <1>1, <1>2, OthersStay
<1>4. LockInv'
  BY <1>1, <1>2, <1>3 DEF LockInv, ChangesFiles, Bridged!At, Bridged!state
<1>5. \A p : Bridged!Changing(p) => Bridged!Changing(p)'
  BY <1>1, <1>3 DEF Bridged!Changing, Bridged!At
<1>6. (untold # {})' => (Bridged!TriggerComing \/ lost)'
  BY <1>1, <1>3 DEF Bridged!TriggerComing, Bridged!At
<1> QED
  BY <1>1, <1>4, <1>5, <1>6, QuietKeeps DEF Bridged!state

LEMMA WorkerKeeps ==
  ASSUME Bridged!BridgeAssumption, ToldInv,
         Bridged!Wake \/ Bridged!FireFails \/ Bridged!FireRegisters \/ Bridged!Send
           \/ Bridged!MarkTriggered \/ Bridged!EndRound
  PROVE  ToldInv'
<1>1. LockInv
  BY DEF ToldInv
<1>2. UNCHANGED <<Bridged!state, disk, handler, orphans>>
  BY DEF Bridged!Wake, Bridged!FireFails, Bridged!FireRegisters, Bridged!Send,
     Bridged!MarkTriggered, Bridged!EndRound
<1>3. LockInv'
  <2>1. CASE Bridged!MarkTriggered
    <3>1. \A h \in Handlers : ~ChangesFiles(h)
      BY <2>1, <1>1, FreeIsQuiet DEF Bridged!MarkTriggered
    <3> QED
      BY <1>1, <1>2, <2>1, <3>1 DEF Bridged!MarkTriggered, LockInv, ChangesFiles,
         Bridged!At, Bridged!state
  <2>2. CASE Bridged!EndRound
    BY <1>1, <1>2, <2>2 DEF Bridged!EndRound, LockInv, ChangesFiles, Bridged!At,
       Bridged!state, Bridged!BridgeAssumption
  <2>3. CASE Bridged!Wake \/ Bridged!FireFails \/ Bridged!FireRegisters \/ Bridged!Send
    BY <1>1, <1>2, <2>3
       DEF Bridged!Wake, Bridged!FireFails, Bridged!FireRegisters, Bridged!Send,
          LockInv, ChangesFiles, Bridged!At, Bridged!state
  <2> QED
    BY <2>1, <2>2, <2>3
<1>4. \A p : Bridged!Changing(p) => Bridged!Changing(p)'
  BY <1>2 DEF Bridged!Changing, Bridged!At
<1> DEFINE Waits == \E h \in Handlers : \/ Bridged!At(h, "register") \/ Bridged!At(h, "schedule")
                                       \/ (Bridged!At(h, "save") /\ handler[h].then # "idle")
<1>5. Waits => Waits'
  BY <1>2 DEF Bridged!At
<1>6. Bridged!TriggerComing <=> (dirty /\ worker # "none") \/ worker \in {"register", "send"} \/ Waits
  BY DEF Bridged!TriggerComing
<1>7. Bridged!TriggerComing' <=>
        (dirty' /\ worker' # "none") \/ worker' \in {"register", "send"} \/ Waits'
  BY DEF Bridged!TriggerComing
<1> HIDE DEF Waits
<1>8. (untold # {})' => (Bridged!TriggerComing \/ lost)'
  BY <1>5, <1>6, <1>7
     DEF Bridged!Wake, Bridged!FireFails, Bridged!FireRegisters, Bridged!Send,
        Bridged!MarkTriggered, Bridged!EndRound, ToldInv
<1> QED
  BY <1>2, <1>3, <1>4, <1>8, QuietKeeps DEF Bridged!state

LEMMA ToldStep ==
  ASSUME Bridged!BridgeAssumption, ToldInv, [Bridged!Next]_(Bridged!vars)
  PROVE  ToldInv'
<1>1. CASE Bridged!Next
  BY <1>1, UploadKeeps, WriteKeeps, CheckpointKeeps, RetrievalKeeps, UnlinkKeeps,
     SaveKeeps, TellKeeps, WorkerKeeps DEF Bridged!Next
<1>2. CASE UNCHANGED Bridged!vars
  BY <1>2 DEF Bridged!vars, Bridged!state, Bridged!trigger, ToldInv, LockInv,
     ChangesFiles, Bridged!At, InStep, Bridged!Changing,
              Bridged!TriggerComing
<1> QED
  BY <1>1, <1>2

LEMMA ToldInvIsEnough == ToldInv => Bridged!EngineIsTold
BY DEF ToldInv, InStep, Bridged!EngineIsTold

-----------------------------------------------------------------------------
(* The settings (Settings).                                                *)


OnClients(f) == f = [c \in Clients |-> f[c]]
InRepos(list) == \A i \in DOMAIN list : list[i] \in Settings!Repos
Storing == {"persist", "swap", "register"}

(* A boot is alone, and before the process is up; only a PUT stores, and   *)
(* what it stores is normalised.                                           *)
TaskInv ==
  /\ OnClients(pc) /\ OnClients(goal) /\ OnClients(doc)
  /\ \A c \in Clients : pc[c] # "idle" /\ goal[c] = "boot" =>
       ~up /\ \A d \in Clients : pc[d] # "idle" => d = c
  /\ \A c \in Clients : pc[c] \in Storing => goal[c] = "put"
  /\ \A c \in Clients : pc[c] \in {"persist", "swap"} => InRepos(doc[c].repos)

(* The claims of a request are entries that have happened.                 *)
ClaimInv ==
  /\ OnClients(owed) /\ age \in [Settings!Repos -> Nat]
  /\ \A c \in Clients : pc[c] # "register" => owed[c] = {}
  /\ \A c \in Clients : \A x \in owed[c] :
       x.repo \in Settings!Repos /\ x.age \in Nat /\ x.age <= age[x.repo]
  /\ Settings!AddedOnce

OnceInv == TaskInv /\ ClaimInv

LEMMA OnceInit == Settings!Init => OnceInv
BY DEF Settings!Init, OnceInv, TaskInv, ClaimInv, OnClients, Settings!AddedOnce, Storing

(* Claims stay apart while none is made.                                   *)
LEMMA ClaimsStay ==
  ASSUME TaskInv, ClaimInv, NEW c \in Clients, NEW s, Settings!Goto(c, s),
         pc[c] # "register", s # "register", owed' = owed, age' = age
  PROVE  ClaimInv'
BY DEF TaskInv, ClaimInv, OnClients, Settings!Goto, Settings!AddedOnce

(* The steps of a load.                                                    *)
LEMMA LoadKeeps ==
  ASSUME OnceInv, NEW c \in Clients, NEW g, Settings!Load(c, g)
  PROVE  OnceInv'
<1>1. /\ pc[c] = "idle" /\ Settings!Goto(c, "bootstrap")
      /\ goal' = [goal EXCEPT ![c] = g]
      /\ up' = up /\ doc' = doc /\ owed' = owed /\ age' = age
      /\ IF g = "boot" THEN ~up /\ \A d \in Clients : pc[d] = "idle" ELSE up
  BY DEF Settings!Load
<1>2. TaskInv'
  BY <1>1 DEF OnceInv, TaskInv, OnClients, Settings!Goto, Storing
<1> QED
  BY <1>1, <1>2, ClaimsStay DEF OnceInv

LEMMA LoadingKeeps ==
  ASSUME OnceInv, NEW c \in Clients,
         \/ Settings!Bootstrap(c) \/ Settings!ReadFile(c) \/ Settings!Resave(c)
         \/ Settings!Normalise(c)
         \/ Settings!Answer(c) \/ Settings!AutoAdd(c)
  PROVE  OnceInv'
<1>1. PICK s \in {"idle", "read", "failed", "resave", "normalise", "loaded"} :
        Settings!Goto(c, s)
  BY DEF Settings!Bootstrap, Settings!ReadFile, Settings!Resave, Settings!Normalise,
     Settings!Answer, Settings!AutoAdd
<1>2. /\ pc[c] \notin Storing \cup {"idle"}
      /\ up' = up /\ goal' = goal /\ owed' = owed /\ age' = age
      /\ \E d : doc' = [doc EXCEPT ![c] = d]
  <2>1. \E d : doc' = [doc EXCEPT ![c] = d]
    <3>1. doc = [doc EXCEPT ![c] = doc[c]]
      BY DEF OnceInv, TaskInv, OnClients
    <3> QED
      BY <3>1 DEF Settings!Bootstrap, Settings!ReadFile, Settings!Resave,
         Settings!Normalise, Settings!Answer, Settings!AutoAdd
  <2> QED
    BY <2>1 DEF Settings!Bootstrap, Settings!ReadFile, Settings!Resave,
       Settings!Normalise, Settings!Answer, Settings!AutoAdd, Storing
<1>3. TaskInv'
  BY <1>1, <1>2 DEF OnceInv, TaskInv, OnClients, Settings!Goto, Storing
<1>4. pc[c] # "register" /\ s # "register"
  BY <1>2 DEF Storing
<1> QED
  BY <1>1, <1>2, <1>3, <1>4, ClaimsStay DEF OnceInv

LEMMA BootKeeps ==
  ASSUME OnceInv, NEW c \in Clients, Settings!Boot(c)
  PROVE  OnceInv'
<1>1. /\ pc[c] \in {"loaded", "failed"} /\ goal[c] = "boot"
      /\ Settings!Goto(c, "idle") /\ goal' = goal /\ doc' = doc /\ owed' = owed
      /\ age' \in [Settings!Repos -> Nat]
  BY DEF Settings!Boot, OnceInv, ClaimInv
<1>2. \A d \in Clients : pc'[d] = "idle"
  BY <1>1 DEF OnceInv, TaskInv, OnClients, Settings!Goto
<1>3. \A d \in Clients : owed[d] = {}
  BY <1>1 DEF OnceInv, TaskInv, ClaimInv
<1>4. TaskInv'
  BY <1>1, <1>2 DEF OnceInv, TaskInv, OnClients, Settings!Goto, Storing
<1>5. ClaimInv'
  BY <1>1, <1>3 DEF OnceInv, ClaimInv, OnClients, Settings!AddedOnce
<1> QED
  BY <1>4, <1>5 DEF OnceInv

LEMMA PutKeeps ==
  ASSUME OnceInv, NEW c \in Clients, NEW list \in Settings!Lists, Settings!Put(c, list)
  PROVE  OnceInv'
<1>1. /\ up /\ pc[c] = "idle"
      /\ doc' = [doc EXCEPT ![c] = Settings!Document(CurrentVersion, Settings!Normalised(list))]
      /\ goal' = [goal EXCEPT ![c] = "put"] /\ Settings!Goto(c, "persist")
      /\ up' = up /\ owed' = owed /\ age' = age
  BY DEF Settings!Put
<1>2. InRepos(Settings!Normalised(list))
  BY DEF InRepos, Settings!Normalised, Settings!Lists, Settings!SeqOf, Settings!Repos
<1>3. Settings!Document(CurrentVersion, Settings!Normalised(list)).repos =
        Settings!Normalised(list)
  BY DEF Settings!Document
<1>4. TaskInv'
  BY <1>1, <1>2, <1>3 DEF OnceInv, TaskInv, OnClients, Settings!Goto, Storing
<1> QED
  BY <1>1, <1>4, ClaimsStay DEF OnceInv

LEMMA PersistKeeps ==
  ASSUME OnceInv, NEW c \in Clients, Settings!Persist(c)
  PROVE  OnceInv'
<1>1. PICK s \in {"swap", "idle"} : Settings!Goto(c, s)
  BY DEF Settings!Persist
<1>2. /\ pc[c] = "persist"
      /\ up' = up /\ goal' = goal /\ doc' = doc /\ owed' = owed /\ age' = age
  BY DEF Settings!Persist
<1>3. TaskInv'
  BY <1>1, <1>2 DEF OnceInv, TaskInv, OnClients, Settings!Goto, Storing
<1> QED
  BY <1>1, <1>2, <1>3, ClaimsStay DEF OnceInv

(* An entry is newer than every claim there is.                            *)
LEMMA SwapKeeps ==
  ASSUME OnceInv, NEW c \in Clients, Settings!Swap(c)
  PROVE  OnceInv'
<1>1. /\ pc[c] = "swap" /\ Settings!Goto(c, "register")
      /\ up' = up /\ goal' = goal /\ doc' = doc
      /\ mem' = doc[c].repos /\ Settings!Enter
      /\ owed' = [owed EXCEPT ![c] = Settings!Claims(doc[c].repos)]
  BY DEF Settings!Swap
<1>2. TaskInv'
  BY <1>1 DEF OnceInv, TaskInv, OnClients, Settings!Goto, Storing
<1>3. InRepos(mem') /\ OnClients(owed) /\ age \in [Settings!Repos -> Nat]
  BY <1>1 DEF OnceInv, TaskInv, ClaimInv
<1>4. /\ age' \in [Settings!Repos -> Nat]
      /\ \A r \in Settings!Repos : age[r] <= age'[r]
      /\ \A i \in DOMAIN mem' :
           ~Settings!Contains(mem, mem'[i]) => age'[mem'[i]] = age[mem'[i]] + 1
  BY <1>1, <1>3 DEF Settings!Enter, InRepos, Settings!Contains
<1> DEFINE new == Settings!Claims(mem')
<1>5. \A x \in new :
        x.repo \in Settings!Repos /\ x.age = age'[x.repo] /\ x.age = age[x.repo] + 1
  BY <1>3, <1>4 DEF Settings!Claims, InRepos
<1> HIDE DEF new
<1>6. OnClients(owed') /\ owed'[c] = new /\ \A d \in Clients \ {c} : owed'[d] = owed[d]
  BY <1>1, <1>3 DEF OnClients, new
<1>7. pc'[c] = "register" /\ \A d \in Clients \ {c} : pc'[d] = pc[d]
  BY <1>1 DEF Settings!Goto, OnceInv, TaskInv, OnClients
<1>8. \A d \in Clients : \A y \in owed[d] :
        y.repo \in Settings!Repos /\ y.age \in Nat /\ y.age <= age[y.repo]
  BY DEF OnceInv, ClaimInv
<1>9. \A d \in Clients : \A y \in owed'[d] :
        y.repo \in Settings!Repos /\ y.age \in Nat /\ y.age <= age'[y.repo]
  BY <1>3, <1>4, <1>5, <1>6, <1>8
<1>10. \A d \in Clients \ {c} : \A x \in new, y \in owed[d] :
         <<x.repo, x.age>> # <<y.repo, y.age>>
  BY <1>3, <1>5, <1>8
<1>11. Settings!AddedOnce'
  BY <1>6, <1>10 DEF Settings!AddedOnce, OnceInv, ClaimInv
<1>12. \A d \in Clients : pc'[d] # "register" => owed'[d] = {}
  BY <1>6, <1>7 DEF OnceInv, ClaimInv
<1> QED
  BY <1>2, <1>4, <1>6, <1>9, <1>11, <1>12 DEF OnceInv, ClaimInv

LEMMA ClaimKeeps ==
  ASSUME OnceInv, NEW c \in Clients, Settings!RegisterAdded(c)
  PROVE  OnceInv'
<1>1. /\ pc[c] = "register" /\ up' = up /\ goal' = goal /\ doc' = doc /\ age' = age
      /\ \/ pc' = pc /\ \E x \in owed[c] : owed' = [owed EXCEPT ![c] = @ \ {x}]
         \/ Settings!Goto(c, "idle") /\ owed[c] = {} /\ owed' = owed
  BY DEF Settings!RegisterAdded
<1>2. TaskInv'
  BY <1>1 DEF OnceInv, TaskInv, OnClients, Settings!Goto, Storing
<1>3. CASE pc' = pc /\ \E x \in owed[c] : owed' = [owed EXCEPT ![c] = @ \ {x}]
  <2>1. OnClients(owed') /\ \A d \in Clients : owed'[d] \subseteq owed[d]
    BY <1>3 DEF OnceInv, ClaimInv, OnClients
  <2> QED
    BY <1>1, <1>2, <1>3, <2>1 DEF OnceInv, ClaimInv, Settings!AddedOnce
<1>4. CASE Settings!Goto(c, "idle") /\ owed[c] = {} /\ owed' = owed
  BY <1>1, <1>2, <1>4 DEF OnceInv, TaskInv, ClaimInv, OnClients, Settings!Goto,
     Settings!AddedOnce
<1> QED
  BY <1>1, <1>3, <1>4

LEMMA OnceStep ==
  ASSUME OnceInv, [Settings!Next]_(Settings!vars)
  PROVE  OnceInv'
<1>1. CASE Settings!HandEdit \/ UNCHANGED Settings!vars
  BY <1>1 DEF Settings!HandEdit, Settings!vars, OnceInv, TaskInv, ClaimInv, OnClients,
     Settings!AddedOnce
<1>2. CASE Settings!Crash
  BY <1>2 DEF Settings!Crash, OnceInv, TaskInv, ClaimInv, OnClients, Settings!AddedOnce,
     Storing
<1>3. CASE Settings!Next /\ ~Settings!HandEdit /\ ~Settings!Crash
  BY <1>3, LoadKeeps, LoadingKeeps, BootKeeps, PutKeeps, PersistKeeps, SwapKeeps,
     ClaimKeeps DEF Settings!Next
<1> QED
  BY <1>1, <1>2, <1>3

LEMMA OnceInvIsEnough == OnceInv => Settings!AddedOnce
BY DEF OnceInv, ClaimInv

Orders(kept, list) ==
  /\ Settings!Range(kept) = Settings!Range(list)
  /\ \A i, j \in DOMAIN kept : i < j => Settings!Before(list, kept[i], kept[j])

LEMMA SameCardinality == \A S : Settings!Cardinality(S) = Cardinality(S)
BY DEF Settings!Cardinality, Cardinality

(* Nothing comes before and after the same name.                           *)
LEMMA BeforeIsStrict ==
  ASSUME NEW n \in Nat, NEW S, NEW list \in [1 .. n -> S], NEW r, NEW q,
         Settings!Before(list, r, q), Settings!Before(list, q, r)
  PROVE  FALSE
<1>1. PICK i \in 1 .. n : list[i] = r /\ \A j \in 1 .. i : list[j] # q
  BY DEF Settings!Before
<1>2. PICK k \in 1 .. n : list[k] = q /\ \A j \in 1 .. k : list[j] # r
  BY DEF Settings!Before
<1>3. i \in 1 .. k \/ k \in 1 .. i
  OBVIOUS
<1> QED
  BY <1>1, <1>2, <1>3

(* One name more at the end.                                               *)
LEMMA OrderGrows ==
  ASSUME NEW S, NEW n \in Nat, NEW list \in [1 .. n + 1 -> S],
         NEW m \in Nat, NEW kept \in [1 .. m -> S],
         Orders(kept, [i \in 1 .. n |-> list[i]])
  PROVE  \E k \in Nat : \E longer \in [1 .. k -> S] : Orders(longer, list)
<1> DEFINE before == [i \in 1 .. n |-> list[i]]
           x == list[n + 1]
<1>1. Settings!Range(list) = Settings!Range(before) \cup {x}
  BY DEF Settings!Range
<1>2. ASSUME NEW r, NEW q, Settings!Before(before, r, q)
      PROVE  Settings!Before(list, r, q)
  <2>1. PICK i \in 1 .. n : before[i] = r /\ \A j \in 1 .. i : before[j] # q
    BY <1>2 DEF Settings!Before
  <2>2. \A j \in 1 .. i : j \in 1 .. n
    OBVIOUS
  <2>3. \A j \in 1 .. n : before[j] = list[j]
    OBVIOUS
  <2>4. i \in DOMAIN list
    OBVIOUS
  <2> HIDE DEF before
  <2> QED
    BY <2>1, <2>2, <2>3, <2>4 DEF Settings!Before
<1>3. Orders(kept, before)
  OBVIOUS
<1>4. CASE x \in Settings!Range(before)
  <2>1. Orders(kept, list)
    BY <1>1, <1>2, <1>3, <1>4 DEF Orders
  <2> QED
    BY <2>1
<1>5. CASE x \notin Settings!Range(before)
  <2> DEFINE longer == [i \in 1 .. m + 1 |-> IF i <= m THEN kept[i] ELSE x]
  <2>1. longer \in [1 .. m + 1 -> S] /\ m + 1 \in Nat
    OBVIOUS
  <2>2. Settings!Range(kept) = Settings!Range(before)
    BY <1>3 DEF Orders
  <2>3. Settings!Range(longer) = Settings!Range(kept) \cup {x}
    <3>1. DOMAIN longer = 1 .. m + 1 /\ DOMAIN kept = 1 .. m
      OBVIOUS
    <3>2. longer[m + 1] = x /\ m + 1 \in 1 .. m + 1
      OBVIOUS
    <3>3. \A i \in 1 .. m : i \in 1 .. m + 1 /\ longer[i] = kept[i]
      OBVIOUS
    <3>4. \A i \in 1 .. m + 1 : i = m + 1 \/ i \in 1 .. m
      OBVIOUS
    <3> HIDE DEF longer, x
    <3> QED
      BY <3>1, <3>2, <3>3, <3>4 DEF Settings!Range
  <2>4. ASSUME NEW i \in 1 .. m + 1, NEW j \in 1 .. m + 1, i < j
        PROVE  Settings!Before(list, longer[i], longer[j])
    <3>1. CASE j <= m
      <4>1. longer[i] = kept[i] /\ longer[j] = kept[j] /\ i \in 1 .. m /\ j \in 1 .. m
        BY <2>4, <3>1
      <4>2. Settings!Before(before, kept[i], kept[j])
        BY <1>3, <2>4, <4>1 DEF Orders
      <4> QED
        BY <1>2, <4>1, <4>2
    <3>2. CASE ~(j <= m)
      <4>1. i \in 1 .. m /\ longer[i] = kept[i] /\ longer[j] = x
        BY <2>4, <3>2
      <4>2. kept[i] \in Settings!Range(before)
        BY <2>2, <4>1 DEF Settings!Range
      <4>3. PICK l \in 1 .. n : before[l] = kept[i]
        BY <4>2 DEF Settings!Range
      <4>4. list[l] = kept[i] /\ \A k \in 1 .. l : list[k] # x
        <5>1. \A k \in 1 .. n : before[k] = list[k] /\ before[k] # x
          BY <1>5 DEF Settings!Range
        <5> QED
          BY <4>3, <5>1
      <4> QED
        BY <4>1, <4>4 DEF Settings!Before
    <3> QED
      BY <3>1, <3>2
  <2>5. Orders(longer, list)
    BY <1>1, <2>2, <2>3, <2>4 DEF Orders
  <2> QED
    BY <2>1, <2>5
<1> QED
  BY <1>4, <1>5

(* Every list can be deduplicated: by the shortest that could not.         *)
LEMMA OrderExists ==
  ASSUME NEW S
  PROVE  \A n \in Nat : \A list \in [1 .. n -> S] :
           \E m \in Nat : \E kept \in [1 .. m -> S] : Orders(kept, list)
<1> DEFINE Fine(list) == \E m \in Nat : \E kept \in [1 .. m -> S] : Orders(kept, list)
           Bad == {n \in Nat : \E list \in [1 .. n -> S] : ~Fine(list)}
<1> SUFFICES ASSUME Bad # {} PROVE FALSE
  OBVIOUS
<1>1. PICK n \in Bad : \A k \in Bad : ~(<<k, n>> \in OpToRel(<, Nat))
  BY NatLessThanWellFounded, WFMin, Bad \subseteq Nat
<1>2. n \in Nat /\ \A k \in Bad : ~(k < n)
  BY <1>1 DEF OpToRel
<1>3. PICK list \in [1 .. n -> S] : ~Fine(list)
  BY <1>1
<1>4. CASE n = 0
  <2>1. Orders(list, list)
    BY <1>4 DEF Orders
  <2> QED
    BY <1>2, <1>3, <2>1
<1>5. CASE n # 0
  <2> DEFINE before == [i \in 1 .. n - 1 |-> list[i]]
  <2>1. n - 1 \in Nat /\ n - 1 < n /\ before \in [1 .. n - 1 -> S]
    BY <1>2, <1>5
  <2>2. n - 1 \notin Bad
    BY <1>2, <2>1
  <2>3. Fine(before)
    BY <2>1, <2>2
  <2>4a. PICK m \in Nat : \E k \in [1 .. m -> S] : Orders(k, before)
    BY <2>3
  <2>4. PICK kept \in [1 .. m -> S] : Orders(kept, before)
    BY <2>4a
  <2>5. list \in [1 .. (n - 1) + 1 -> S]
    BY <1>2
  <2>6. Fine(list)
    BY ONLY <2>1, <2>4, <2>5, OrderGrows
  <2> QED
    BY <1>3, <2>6
<1> QED
  BY <1>4, <1>5

LEMMA DeduplicatedExists ==
  ASSUME NEW S, NEW n \in Nat, NEW list \in [1 .. n -> S]
  PROVE  Settings!Deduplicated(list) # {}
<1>a. PICK m \in Nat : \E k \in [1 .. m -> S] : Orders(k, list)
  BY OrderExists
<1>1. PICK kept \in [1 .. m -> S] : Orders(kept, list)
  BY <1>a
<1>2. kept \in Bijection(1 .. m, Settings!Range(list))
  <2>1. kept \in [1 .. m -> Settings!Range(list)]
    BY <1>1 DEF Orders, Settings!Range
  <2>2. \A r \in Settings!Range(list) : \E i \in 1 .. m : kept[i] = r
    BY <1>1 DEF Orders, Settings!Range
  <2>3. \A i, j \in 1 .. m : i < j => kept[i] # kept[j]
    BY <1>1, BeforeIsStrict DEF Orders
  <2>4. IsInjective(kept)
    BY <2>1, <2>3 DEF IsInjective
  <2> QED
    BY <2>1, <2>2, <2>4 DEF Bijection, Injection, Surjection
<1>3. Settings!Cardinality(Settings!Range(list)) = m
  BY <1>2, FS_CountingElements, SameCardinality DEF ExistsBijection
<1>4. kept \in [1 .. m -> Settings!Range(list)]
  BY <1>2 DEF Bijection, Injection
<1>5. kept \in Settings!Deduplicated(list)
  BY <1>1, <1>3, <1>4 DEF Settings!Deduplicated, Orders
<1> QED
  BY <1>5

(* Deduplicating again changes nothing: the order of first places is the   *)
(* same.                                                                   *)
LEMMA DeduplicatedAgain ==
  ASSUME NEW S, NEW n \in Nat, NEW list \in [1 .. n -> S],
         NEW kept \in Settings!Deduplicated(list)
  PROVE  Settings!Deduplicated(kept) = Settings!Deduplicated(list)
<1> DEFINE m == Settings!Cardinality(Settings!Range(list))
<1>1. /\ kept \in [1 .. m -> Settings!Range(list)]
      /\ Settings!Range(kept) = Settings!Range(list)
      /\ \A i, j \in 1 .. m : i < j => Settings!Before(list, kept[i], kept[j])
  BY DEF Settings!Deduplicated
<1> HIDE DEF m
<1>2. m \in Nat
  <2>1. DOMAIN list = 1 .. n
    OBVIOUS
  <2>2. IsFiniteSet(1 .. n)
    BY FS_Interval
  <2>3. list \in Surjection(1 .. n, Settings!Range(list))
    BY DEF Surjection, Settings!Range
  <2>4. IsFiniteSet(Settings!Range(list))
    BY <2>2, <2>3, FS_Surjection DEF ExistsSurjection
  <2> QED
    BY <2>4, FS_CardinalityType, SameCardinality DEF m
<1>3. ASSUME NEW r \in Settings!Range(list), NEW q \in Settings!Range(list)
      PROVE  Settings!Before(kept, r, q) <=> Settings!Before(list, r, q)
  <2>1. PICK i \in 1 .. m : kept[i] = r
    BY <1>1, <1>3 DEF Settings!Range
  <2>2. PICK k \in 1 .. m : kept[k] = q
    BY <1>1, <1>3 DEF Settings!Range
  <2>3. ASSUME Settings!Before(kept, r, q) PROVE Settings!Before(list, r, q)
    <3>1. PICK l \in 1 .. m : kept[l] = r /\ \A j \in 1 .. l : kept[j] # q
      BY <1>1, <2>3 DEF Settings!Before
    <3>2. l < k
      BY <1>2, <2>2, <3>1
    <3> QED
      BY <1>1, <2>2, <3>1, <3>2
  <2>4. ASSUME Settings!Before(list, r, q) PROVE Settings!Before(kept, r, q)
    <3>1. \A j \in 1 .. i : kept[j] # q
      <4> SUFFICES ASSUME NEW j \in 1 .. i, kept[j] = q PROVE FALSE
        OBVIOUS
      <4>1. CASE j = i
        <5>1. r = q
          BY <2>1, <4>1
        <5> QED
          BY <2>4, <5>1, BeforeIsStrict
      <4>2. CASE j < i
        <5>1. j \in 1 .. m
          BY <1>2, <4>2
        <5>2. Settings!Before(list, q, r)
          BY <1>1, <2>1, <4>2, <5>1
        <5> QED
          BY <2>4, <5>2, BeforeIsStrict
      <4> QED
        BY <1>2, <4>1, <4>2
    <3>2. DOMAIN kept = 1 .. m
      BY <1>1
    <3> QED
      BY <2>1, <3>1, <3>2 DEF Settings!Before
  <2> QED
    BY <2>3, <2>4
<1>4. ASSUME NEW other \in [1 .. m -> Settings!Range(list)]
      PROVE  (\A i, j \in DOMAIN other : i < j => Settings!Before(kept, other[i], other[j]))
               <=> (\A i, j \in DOMAIN other : i < j => Settings!Before(list, other[i], other[j]))
  BY <1>3
<1>5. Settings!Deduplicated(kept) =
        {other \in [1 .. m -> Settings!Range(list)] :
           /\ Settings!Range(other) = Settings!Range(list)
           /\ \A i, j \in DOMAIN other : i < j => Settings!Before(kept, other[i], other[j])}
  BY <1>1 DEF Settings!Deduplicated, m
<1>6. Settings!Deduplicated(list) =
        {other \in [1 .. m -> Settings!Range(list)] :
           /\ Settings!Range(other) = Settings!Range(list)
           /\ \A i, j \in DOMAIN other : i < j => Settings!Before(list, other[i], other[j])}
  BY DEF Settings!Deduplicated, m
<1> QED
  BY <1>4, <1>5, <1>6

(* ensure_dir_and_load: cleaning a clean list changes nothing.             *)
LEMMA CanonicalAgain ==
  ASSUME Settings!SettingsAssumption, NEW list \in Seq(Spellings)
  PROVE  /\ Settings!Canonical(list) \in Seq(Settings!Repos)
         /\ Settings!Canonical(Settings!Canonical(list)) = Settings!Canonical(list)
<1> DEFINE names == Settings!Normalised(list)
           n == Len(list)
           kept == Settings!Canonical(list)
<1>1. n \in Nat /\ list \in [1 .. n -> Spellings]
  BY LenProperties
<1>2. names \in [1 .. n -> Settings!Repos]
  BY <1>1 DEF Settings!Normalised, Settings!Repos
<1> HIDE DEF n, names
<1>3. kept \in Settings!Deduplicated(names)
  BY <1>1, <1>2, DeduplicatedExists DEF Settings!Canonical, names
<1>4. /\ kept \in [1 .. Settings!Cardinality(Settings!Range(names)) -> Settings!Range(names)]
      /\ Settings!Range(names) \subseteq Settings!Repos
  BY <1>2, <1>3 DEF Settings!Deduplicated, Settings!Range
<1>5. Settings!Normalised(kept) = kept
  BY <1>4 DEF Settings!Normalised, Settings!SettingsAssumption
<1>6. Settings!Deduplicated(kept) = Settings!Deduplicated(names)
  BY <1>1, <1>2, <1>3, DeduplicatedAgain
<1>7. Settings!Canonical(kept) = kept
  BY <1>5, <1>6 DEF Settings!Canonical, names
<1>8. Settings!Cardinality(Settings!Range(names)) \in Nat
  <2>1. IsFiniteSet(1 .. n)
    BY <1>1, FS_Interval
  <2>2. names \in Surjection(1 .. n, Settings!Range(names))
    BY <1>2 DEF Surjection, Settings!Range
  <2>3. IsFiniteSet(Settings!Range(names))
    BY <2>1, <2>2, FS_Surjection DEF ExistsSurjection
  <2> QED
    BY <2>3, FS_CardinalityType, SameCardinality
<1>9. kept \in Seq(Settings!Repos)
  <2> HIDE DEF kept
  <2>1. kept \in [1 .. Settings!Cardinality(Settings!Range(names)) -> Settings!Repos]
    BY <1>4
  <2> QED
    BY <1>8, <2>1, SeqDef
<1> QED
  BY <1>7, <1>9

Documents ==
  [kind : {"absent", "corrupt", "json"}, version : Nat, fields : SUBSET Nat,
   repos : Seq(Spellings)]
HeldIn(list, lists) == \E old \in lists : Settings!Canonical(old) = Settings!Canonical(list)

(* The live list, and what a task has read, are a list the file has held,  *)
(* up to spelling and repetitions; what a PUT is about to swap in is one.  *)
SavedInv ==
  /\ file \in Documents /\ file.repos \in saved
  /\ doc \in [Clients -> Documents]
  /\ pc = [c \in Clients |-> pc[c]]
  /\ \A c \in Clients :
       pc[c] \in {"resave", "normalise", "loaded"} => HeldIn(doc[c].repos, saved)
  /\ \A c \in Clients : pc[c] = "swap" => doc[c].repos \in saved
  /\ up => HeldIn(mem, saved)

LEMMA AbsentIsOne == Settings!Absent \in Documents /\ Settings!Absent.repos = <<>>
BY DEF Settings!Absent, Documents

LEMMA DocumentIsOne ==
  ASSUME Settings!SettingsAssumption, NEW v \in Nat, NEW list \in Seq(Spellings)
  PROVE  Settings!Document(v, list) \in Documents /\ Settings!Document(v, list).repos = list
<1>1. 2 .. v \in SUBSET Nat
  OBVIOUS
<1> QED
  BY <1>1 DEF Settings!Document, Documents

LEMMA ListsAre == Settings!Lists \subseteq Seq(Spellings)
<1> SUFFICES ASSUME NEW list \in Settings!Lists PROVE list \in Seq(Spellings)
  OBVIOUS
<1>1. PICK m \in 0 .. 2 : list \in [1 .. m -> Spellings]
  BY DEF Settings!Lists, Settings!SeqOf
<1>2. m \in Nat
  OBVIOUS
<1> QED
  BY <1>1, <1>2, SeqDef

LEMMA ListOfOne ==
  ASSUME NEW s \in Spellings
  PROVE  <<s>> \in Seq(Spellings)
OBVIOUS

LEMMA HandWrittenAre ==
  ASSUME Settings!SettingsAssumption
  PROVE  Settings!HandWritten \subseteq Documents
<1> SUFFICES ASSUME NEW d \in Settings!HandWritten PROVE d \in Documents
  OBVIOUS
<1>1. CASE d = Settings!Absent
  BY <1>1, AbsentIsOne
<1>2. CASE d = Settings!Corrupt
  BY <1>2, AbsentIsOne DEF Settings!Corrupt, Documents
<1>3. ASSUME NEW v \in {1, CurrentVersion + 1},
             NEW list \in {<<>>} \cup {<<s>> : s \in Spellings}, d = Settings!Document(v, list)
      PROVE  d \in Documents
  <2>1. v \in Nat
    BY DEF Settings!SettingsAssumption
  <2>2. list \in Seq(Spellings)
    <3>1. <<>> \in Seq(Spellings)
      OBVIOUS
    <3>2. \A s \in Spellings : <<s>> \in Seq(Spellings)
      BY ListOfOne
    <3> QED
      BY <3>1, <3>2
  <2> QED
    BY <1>3, <2>1, <2>2, DocumentIsOne
<1>4. ASSUME NEW list \in Settings!Lists,
             d = [Settings!Document(CurrentVersion, list) EXCEPT !.fields = {}]
      PROVE  d \in Documents
  <2>1. CurrentVersion \in Nat /\ list \in Seq(Spellings)
    BY ListsAre DEF Settings!SettingsAssumption
  <2>2. Settings!Document(CurrentVersion, list) \in Documents
    BY <2>1, DocumentIsOne
  <2> QED
    BY <1>4, <2>2 DEF Documents
<1> QED
  BY <1>1, <1>2, <1>3, <1>4 DEF Settings!HandWritten

LEMMA MigratedIsOne ==
  ASSUME Settings!SettingsAssumption, NEW d \in Documents
  PROVE  Settings!Migrated(d) \in Documents /\ Settings!Migrated(d).repos = d.repos
<1> DEFINE fields == d.fields \cup Settings!Migrations(d.version)
<1>1. d = [kind |-> d.kind, version |-> d.version, fields |-> d.fields, repos |-> d.repos]
  BY DEF Documents
<1>2. fields \in SUBSET Nat
  BY DEF Documents, Settings!Migrations, Settings!SettingsAssumption
<1>3. Settings!Migrated(d) = [d EXCEPT !.fields = fields, !.version = CurrentVersion]
  BY DEF Settings!Migrated
<1> HIDE DEF fields
<1>4. Settings!Migrated(d) = [kind |-> d.kind, version |-> CurrentVersion, fields |-> fields,
                     repos |-> d.repos]
  BY <1>1, <1>3
<1> QED
  BY <1>2, <1>4 DEF Documents, Settings!SettingsAssumption

LEMMA AmendedIsOne ==
  ASSUME NEW d \in Documents, NEW list \in Seq(Spellings), NEW v \in Nat
  PROVE  [d EXCEPT !.repos = list, !.version = v] \in Documents
<1> DEFINE e == [d EXCEPT !.repos = list]
<1>1. e \in Documents
  BY DEF Documents
<1>2. [d EXCEPT !.repos = list, !.version = v] = [e EXCEPT !.version = v]
  OBVIOUS
<1> HIDE DEF e
<1>3. [e EXCEPT !.version = v] \in Documents
  BY <1>1 DEF Documents
<1> QED
  BY <1>2, <1>3

LEMMA SavedInit ==
  ASSUME Settings!SettingsAssumption, Settings!Init
  PROVE  SavedInv
BY HandWrittenAre, AbsentIsOne DEF Settings!Init, SavedInv

(* A document is written, or none.                                         *)
LEMMA Written ==
  ASSUME SavedInv, NEW d \in Documents, Settings!WriteFile(d) \/ Settings!Unwritten
  PROVE  file' \in Documents /\ file'.repos \in saved' /\ saved \subseteq saved'
BY DEF SavedInv, Settings!WriteFile, Settings!Unwritten

LEMMA InMore ==
  ASSUME NEW list, NEW some, NEW more, some \subseteq more, HeldIn(list, some)
  PROVE  HeldIn(list, more)
BY DEF HeldIn

(* A task moves on with a document in hand.                                *)
LEMMA TaskMoves ==
  ASSUME SavedInv, NEW c \in Clients, NEW s, NEW d \in Documents,
         file' \in Documents, file'.repos \in saved', saved \subseteq saved',
         doc' = [doc EXCEPT ![c] = d], Settings!Goto(c, s),
         s \in {"resave", "normalise", "loaded"} => HeldIn(d.repos, saved'),
         s = "swap" => d.repos \in saved',
         up' => HeldIn(mem', saved')
  PROVE  SavedInv'
<1>1. doc' \in [Clients -> Documents] /\ pc' = [x \in Clients |-> pc'[x]]
  BY DEF SavedInv, Settings!Goto
<1>2. doc'[c] = d /\ pc'[c] = s
  BY DEF SavedInv, Settings!Goto
<1>3. \A x \in Clients \ {c} : doc'[x] = doc[x] /\ pc'[x] = pc[x]
  BY DEF SavedInv, Settings!Goto
<1>4. \A x \in Clients \ {c} :
        /\ pc[x] \in {"resave", "normalise", "loaded"} => HeldIn(doc[x].repos, saved')
        /\ pc[x] = "swap" => doc[x].repos \in saved'
  BY InMore DEF SavedInv
<1> QED
  BY <1>1, <1>2, <1>3, <1>4 DEF SavedInv

(* The same without a new document in hand.                                *)
LEMMA TaskMovesOn ==
  ASSUME SavedInv, NEW c \in Clients, NEW s,
         file' \in Documents, file'.repos \in saved', saved \subseteq saved',
         doc' = doc, Settings!Goto(c, s),
         s \in {"resave", "normalise", "loaded"} => HeldIn(doc[c].repos, saved'),
         s = "swap" => doc[c].repos \in saved',
         up' => HeldIn(mem', saved')
  PROVE  SavedInv'
<1>1. doc[c] \in Documents /\ doc' = [doc EXCEPT ![c] = doc[c]]
  BY DEF SavedInv
<1> QED
  BY <1>1, TaskMoves

LEMMA NewListKeeps ==
  ASSUME SavedInv, saved \subseteq saved'
  PROVE  /\ up => HeldIn(mem, saved')
         /\ \A c \in Clients :
              /\ doc[c] \in Documents
              /\ pc[c] \in {"resave", "normalise", "loaded"} => HeldIn(doc[c].repos, saved')
BY InMore DEF SavedInv

(* Steps that write the document in hand, or nothing.                      *)
LEMMA WritingKeeps ==
  ASSUME SavedInv, NEW c \in Clients, NEW s, NEW d \in Documents,
         Settings!WriteFile(d) \/ Settings!Unwritten, Settings!Goto(c, s), doc' = doc,
         up' => up /\ mem' = mem,
         \/ s \in {"idle", "failed", "read", "bootstrap", "register"}
         \/ s = "normalise" /\ pc[c] = "resave"
         \/ s = "swap" /\ doc[c].repos \in saved'
  PROVE  SavedInv'
<1>1. file' \in Documents /\ file'.repos \in saved' /\ saved \subseteq saved'
  BY Written
<1>2. up' => HeldIn(mem', saved')
  BY <1>1, NewListKeeps
<1>3. pc[c] = "resave" => HeldIn(doc[c].repos, saved')
  BY <1>1, NewListKeeps
<1> QED
  BY <1>1, <1>2, <1>3, TaskMovesOn

LEMMA ReadingKeeps ==
  ASSUME Settings!SettingsAssumption, SavedInv, NEW c \in Clients, Settings!ReadFile(c)
  PROVE  SavedInv'
<1> DEFINE readable == file.kind = "json" /\ file.version \in 1 .. CurrentVersion
           d == IF readable THEN Settings!Migrated(file) ELSE doc[c]
           s == IF ~readable THEN "failed"
                ELSE IF file.version < CurrentVersion THEN "resave" ELSE "normalise"
<1>1. /\ doc' = [doc EXCEPT ![c] = d] /\ Settings!Goto(c, s)
      /\ UNCHANGED <<file, mem, up, saved>>
  BY DEF Settings!ReadFile
<1>2. d \in Documents /\ (readable => d.repos = file.repos)
  BY MigratedIsOne DEF SavedInv
<1>3. s \in {"resave", "normalise", "loaded"} => d.repos \in saved
  BY <1>2 DEF SavedInv
<1>4. s # "swap"
  OBVIOUS
<1> HIDE DEF d, s, readable
<1>5. /\ file' \in Documents /\ file'.repos \in saved' /\ saved \subseteq saved'
      /\ up' => HeldIn(mem', saved')
  BY <1>1 DEF SavedInv
<1>6. s \in {"resave", "normalise", "loaded"} => HeldIn(d.repos, saved')
  BY <1>1, <1>3 DEF HeldIn
<1> QED
  BY <1>1, <1>2, <1>4, <1>5, <1>6, TaskMoves

LEMMA NormalisingKeeps ==
  ASSUME Settings!SettingsAssumption, SavedInv, NEW c \in Clients, Settings!Normalise(c)
  PROVE  SavedInv'
<1> DEFINE clean == [doc[c] EXCEPT !.repos = Settings!Canonical(doc[c].repos)]
<1>1. /\ pc[c] = "normalise" /\ Settings!Goto(c, "loaded")
      /\ doc' = [doc EXCEPT ![c] = clean]
      /\ Settings!WriteFile(clean) \/ Settings!Unwritten
      /\ UNCHANGED <<mem, up>>
  BY DEF Settings!Normalise
<1>2. doc[c] \in Documents /\ doc[c].repos \in Seq(Spellings)
  BY DEF SavedInv, Documents
<1>3. /\ Settings!Canonical(doc[c].repos) \in Seq(Settings!Repos)
      /\ Settings!Canonical(Settings!Canonical(doc[c].repos)) = Settings!Canonical(doc[c].repos)
  BY <1>2, CanonicalAgain
<1>4. Settings!Canonical(doc[c].repos) \in Seq(Spellings)
  BY <1>3, SeqMonotonic DEF Settings!SettingsAssumption
<1>5. clean \in Documents /\ clean.repos = Settings!Canonical(doc[c].repos)
  BY <1>2, <1>4 DEF Documents
<1> HIDE DEF clean
<1>6. file' \in Documents /\ file'.repos \in saved' /\ saved \subseteq saved'
  BY <1>1, <1>5, Written
<1>7. HeldIn(doc[c].repos, saved') /\ (up' => HeldIn(mem', saved'))
  BY <1>1, <1>6, NewListKeeps
<1>8. HeldIn(clean.repos, saved')
  BY <1>3, <1>5, <1>7 DEF HeldIn
<1> QED
  BY <1>1, <1>5, <1>6, <1>7, <1>8, TaskMoves

LEMMA BootingKeeps ==
  ASSUME SavedInv, NEW c \in Clients, Settings!Boot(c)
  PROVE  SavedInv'
<1>1. /\ pc[c] \in {"loaded", "failed"} /\ Settings!Goto(c, "idle") /\ doc' = doc
      /\ up' => pc[c] = "loaded" /\ mem' = doc[c].repos
      /\ UNCHANGED <<file, saved>>
  BY DEF Settings!Boot
<1>2. up' => HeldIn(mem', saved')
  BY <1>1 DEF SavedInv
<1>3. file' \in Documents /\ file'.repos \in saved' /\ saved \subseteq saved'
  BY <1>1 DEF SavedInv
<1> QED
  BY <1>1, <1>2, <1>3, TaskMovesOn

LEMMA AutoAddKeeps ==
  ASSUME Settings!SettingsAssumption, SavedInv, NEW c \in Clients, Settings!AutoAdd(c)
  PROVE  SavedInv'
<1> DEFINE d == [doc[c] EXCEPT !.repos = Append(doc[c].repos, goal[c]),
                               !.version = CurrentVersion]
<1>1. /\ goal[c] \in Settings!Repos /\ Settings!Goto(c, "idle") /\ doc' = doc
      /\ Settings!WriteFile(d) \/ Settings!Unwritten
      /\ UNCHANGED <<mem, up>>
  BY DEF Settings!AutoAdd
<1>2. doc[c] \in Documents
  BY DEF SavedInv
<1>3. Append(doc[c].repos, goal[c]) \in Seq(Spellings)
  BY <1>1, <1>2, AppendProperties DEF Documents, Settings!SettingsAssumption
<1>4. d \in Documents
  <2> DEFINE list == Append(doc[c].repos, goal[c])
  <2>1. list \in Seq(Spellings) /\ CurrentVersion \in Nat
    BY <1>3 DEF Settings!SettingsAssumption
  <2> HIDE DEF list
  <2>2. [doc[c] EXCEPT !.repos = list, !.version = CurrentVersion] \in Documents
    BY <1>2, <2>1, AmendedIsOne
  <2> QED
    BY <2>2 DEF list
<1> HIDE DEF d
<1>5. up' => up /\ mem' = mem
  BY <1>1
<1> QED
  BY <1>1, <1>4, <1>5, WritingKeeps

LEMMA PuttingKeeps ==
  ASSUME Settings!SettingsAssumption, SavedInv, NEW c \in Clients, NEW list \in Settings!Lists,
         Settings!Put(c, list)
  PROVE  SavedInv'
<1> DEFINE d == Settings!Document(CurrentVersion, Settings!Normalised(list))
<1>1. /\ doc' = [doc EXCEPT ![c] = d] /\ Settings!Goto(c, "persist")
      /\ UNCHANGED <<file, saved, mem, up>>
  BY DEF Settings!Put
<1>2. Settings!Normalised(list) \in Seq(Spellings)
  <2>1. PICK m \in 0 .. 2 : list \in [1 .. m -> Spellings]
    BY DEF Settings!Lists, Settings!SeqOf
  <2>2. Settings!Normalised(list) \in [1 .. m -> Spellings]
    BY <2>1 DEF Settings!Normalised, Settings!SettingsAssumption, Settings!Repos
  <2> QED
    BY <2>2, SeqDef
<1>3. d \in Documents
  BY <1>2, DocumentIsOne DEF Settings!SettingsAssumption
<1> HIDE DEF d
<1>4. /\ file' \in Documents /\ file'.repos \in saved' /\ saved \subseteq saved'
      /\ up' => HeldIn(mem', saved')
  BY <1>1 DEF SavedInv
<1> QED
  BY <1>1, <1>3, <1>4, TaskMoves

LEMMA SwappingKeeps ==
  ASSUME SavedInv, NEW c \in Clients, Settings!Swap(c)
  PROVE  SavedInv'
<1>1. /\ pc[c] = "swap" /\ mem' = doc[c].repos /\ Settings!Goto(c, "register")
      /\ UNCHANGED <<file, saved, doc, up>>
  BY DEF Settings!Swap
<1>2. HeldIn(mem', saved')
  BY <1>1 DEF SavedInv, HeldIn
<1>3. file' \in Documents /\ file'.repos \in saved' /\ saved \subseteq saved'
  BY <1>1 DEF SavedInv
<1> QED
  BY <1>1, <1>2, <1>3, TaskMovesOn

LEMMA SavedStep ==
  ASSUME Settings!SettingsAssumption, SavedInv, [Settings!Next]_(Settings!vars)
  PROVE  SavedInv'
<1>0. /\ \A c \in Clients : doc[c] \in Documents
      /\ Settings!Document(CurrentVersion, <<>>) \in Documents
  <2>1. <<>> \in Seq(Spellings) /\ CurrentVersion \in Nat
    BY DEF Settings!SettingsAssumption
  <2>2. Settings!Document(CurrentVersion, <<>>) \in Documents
    BY <2>1, DocumentIsOne
  <2> QED
    BY <2>2 DEF SavedInv
<1>1. ASSUME NEW c \in Clients, NEW g, Settings!Load(c, g) PROVE SavedInv'
  BY <1>0, <1>1, WritingKeeps DEF Settings!Load, Settings!Unwritten
<1>2. ASSUME NEW c \in Clients, Settings!Bootstrap(c) PROVE SavedInv'
  BY <1>0, <1>2, WritingKeeps DEF Settings!Bootstrap
<1>3. ASSUME NEW c \in Clients, Settings!Resave(c) PROVE SavedInv'
  BY <1>0, <1>3, WritingKeeps DEF Settings!Resave
<1>4. ASSUME NEW c \in Clients, Settings!Answer(c) PROVE SavedInv'
  BY <1>0, <1>4, WritingKeeps DEF Settings!Answer, Settings!Unwritten
<1>5. ASSUME NEW c \in Clients, Settings!Persist(c) PROVE SavedInv'
  <2>1. Settings!WriteFile(doc[c]) => doc[c].repos \in saved'
    BY DEF Settings!WriteFile
  <2> QED
    BY <1>0, <1>5, <2>1, WritingKeeps DEF Settings!Persist
<1>6. ASSUME NEW c \in Clients, Settings!RegisterAdded(c) PROVE SavedInv'
  <2>1. UNCHANGED <<file, mem, up, doc, saved>> /\ (pc' = pc \/ Settings!Goto(c, "idle"))
    BY <1>6 DEF Settings!RegisterAdded
  <2>2. CASE pc' = pc
    BY <2>1, <2>2 DEF SavedInv
  <2>3. CASE Settings!Goto(c, "idle")
    BY <1>0, <2>1, <2>3, WritingKeeps DEF Settings!Unwritten
  <2> QED
    BY <2>1, <2>2, <2>3
<1>7. ASSUME Settings!HandEdit PROVE SavedInv'
  <2>1. PICK d \in Documents : Settings!WriteFile(d)
    BY <1>7, HandWrittenAre DEF Settings!HandEdit
  <2>2. file' \in Documents /\ file'.repos \in saved' /\ saved \subseteq saved'
    BY <2>1, Written
  <2>3. UNCHANGED <<mem, up, pc, doc>>
    BY <1>7 DEF Settings!HandEdit
  <2> QED
    BY <2>2, <2>3, NewListKeeps DEF SavedInv
<1>8. ASSUME Settings!Crash PROVE SavedInv'
  BY <1>8 DEF Settings!Crash, SavedInv
<1>9. ASSUME UNCHANGED Settings!vars PROVE SavedInv'
  BY <1>9 DEF Settings!vars, SavedInv
<1> QED
  BY <1>1, <1>2, <1>3, <1>4, <1>5, <1>6, <1>7, <1>8, <1>9, ReadingKeeps,
     NormalisingKeeps,
     BootingKeeps, AutoAddKeeps, PuttingKeeps, SwappingKeeps DEF Settings!Next

LEMMA SavedInvIsEnough == SavedInv => Settings!MemoryWasSaved
BY DEF SavedInv, HeldIn, Settings!MemoryWasSaved

-----------------------------------------------------------------------------
(* Loops: a set of numbers has a least one, and what a step keeps holds at *)
(* every step.                                                             *)
LEMMA Least ==
  ASSUME NEW T, T \subseteq Nat, T # {}
  PROVE  \E n \in T : \A m \in T : ~(m < n)
<1> DEFINE R == {ss \in Nat \X Nat : ss[1] < ss[2]}
<1>1. IsWellFoundedOn(R, Nat)
  BY NatLessThanWellFounded DEF OpToRel
<1>2. \A m, n \in T : m < n => <<m, n>> \in R
  OBVIOUS
<1> HIDE DEF R
<1>3. PICK n \in T : \A m \in T : <<m, n>> \notin R
  BY <1>1, WFMin
<1> QED
  BY <1>2, <1>3

LEMMA UpTo ==
  ASSUME NEW N \in Nat, NEW S, 0 \in S,
         \A n \in 1 .. N : n - 1 \in S => n \in S
  PROVE  \A n \in 0 .. N : n \in S
<1> SUFFICES ASSUME NEW k \in 0 .. N, k \notin S PROVE FALSE
  OBVIOUS
<1> DEFINE T == {n \in 0 .. N : n \notin S}
<1>1. T \subseteq Nat /\ T # {}
  OBVIOUS
<1> HIDE DEF T
<1>2. PICK n \in T : \A m \in T : ~(m < n)
  BY <1>1, Least
<1>3. n \in 1 .. N /\ n - 1 \in 0 .. N
  BY <1>2 DEF T
<1>4. n - 1 \in S
  BY <1>2, <1>3 DEF T
<1> QED
  BY <1>2, <1>3, <1>4 DEF T

(* A loop: a step function on All, taken N times from d.                   *)
Runs(f, N, d, taken) ==
  f[0] = d /\ \A n \in 1 .. N : f[n] = taken[<<f[n - 1], n>>]

LEMMA Loop ==
  ASSUME NEW N \in Nat, NEW All, NEW d \in All, NEW taken \in [All \X (1 .. N) -> All]
  PROVE  \E f \in [0 .. N -> All] : Runs(f, N, d, taken)
<1> DEFINE S == {n \in 0 .. N : \E f \in [0 .. n -> All] : Runs(f, n, d, taken)}
<1>1. 0 \in S
  <2> DEFINE f == [n \in 0 .. 0 |-> d]
  <2>1. f \in [0 .. 0 -> All] /\ Runs(f, 0, d, taken)
    BY DEF Runs
  <2> QED
    BY <2>1
<1>2. ASSUME NEW n \in 1 .. N, n - 1 \in S PROVE n \in S
  <2>1. PICK f \in [0 .. n - 1 -> All] : Runs(f, n - 1, d, taken)
    BY <1>2
  <2> DEFINE g == [i \in 0 .. n |-> IF i = n THEN taken[<<f[n - 1], n>>] ELSE f[i]]
  <2>2. f[n - 1] \in All
    OBVIOUS
  <2>3. g \in [0 .. n -> All]
    BY <2>2
  <2>4. \A i \in 0 .. n - 1 : g[i] = f[i]
    OBVIOUS
  <2>5. g[n] = taken[<<g[n - 1], n>>]
    <3>1. g[n] = taken[<<f[n - 1], n>>]
      OBVIOUS
    <3>2. g[n - 1] = f[n - 1]
      BY <2>4
    <3> QED
      BY ONLY <3>1, <3>2
  <2> HIDE DEF g
  <2>6. ASSUME NEW i \in 1 .. n PROVE g[i] = taken[<<g[i - 1], i>>]
    <3>1. CASE i = n
      BY <2>5, <3>1
    <3>2. CASE i # n
      <4>1. i \in 1 .. n - 1 /\ i - 1 \in 0 .. n - 1 /\ i \in 0 .. n - 1
        BY <3>2
      <4> QED
        BY <2>1, <2>4, <4>1 DEF Runs
    <3> QED
      BY <3>1, <3>2
  <2>7. g[0] = d
    BY <2>1, <2>4 DEF Runs
  <2> QED
    BY <2>3, <2>6, <2>7 DEF Runs
<1> HIDE DEF S
<1>3. N \in S
  BY <1>1, <1>2, UpTo
<1> QED
  BY <1>3 DEF S

-----------------------------------------------------------------------------
(* The lines of a file (Snip).                                             *)

Span == {r \in [from : Nat, to : Nat] : r.from <= r.to}

(* Ordered by where they begin.                                            *)
Rising(s) == \A i, j \in 1 .. Len(s) : i < j => s[i].from <= s[j].from

LEMMA SpanIs ==
  ASSUME NEW r \in Span
  PROVE  r.from \in Nat /\ r.to \in Nat /\ r.from <= r.to
BY DEF Span

LEMMA SnipMaxIs ==
  ASSUME NEW a \in Nat, NEW b \in Nat
  PROVE  Snip!Max({a, b}) = IF a < b THEN b ELSE a
<1>1. \E u \in {a, b} : \A v \in {a, b} : u >= v
  OBVIOUS
<1>2. Snip!Max({a, b}) \in {a, b} /\ \A v \in {a, b} : Snip!Max({a, b}) >= v
  BY <1>1 DEF Snip!Max
<1> QED
  BY <1>2

LEMMA SnipMinIs ==
  ASSUME NEW a \in Nat, NEW b \in Nat
  PROVE  Snip!Min({a, b}) = IF a < b THEN a ELSE b
<1>1. \E u \in {a, b} : \A v \in {a, b} : u <= v
  OBVIOUS
<1>2. Snip!Min({a, b}) \in {a, b} /\ \A v \in {a, b} : Snip!Min({a, b}) <= v
  BY <1>1 DEF Snip!Min
<1> QED
  BY <1>2

(* The module of the snippets counts as this one does.                     *)
LEMMA SnipCounts == \A S : Snip!Cardinality(S) = Cardinality(S)
BY DEF Snip!Cardinality, Cardinality

(* An order of a finite set has each element, and once.                    *)
LEMMA OrderIs ==
  ASSUME NEW S, IsFiniteSet(S), NEW s \in Snip!SetToSeqs(S)
  PROVE  /\ s \in Seq(S) /\ Len(s) = Cardinality(S) /\ DOMAIN s = 1 .. Len(s)
         /\ \A x \in S : \E i \in 1 .. Len(s) : s[i] = x
         /\ \A i, j \in 1 .. Len(s) : i # j => s[i] # s[j]
<1> DEFINE n == Cardinality(S)
<1>1. n \in Nat
  BY FS_CardinalityType
<1>2. s \in [1 .. n -> S] /\ \A i, j \in 1 .. n : i # j => s[i] # s[j]
  BY SnipCounts DEF Snip!SetToSeqs
<1> HIDE DEF n
<1>3. s \in Seq(S) /\ Len(s) = n /\ DOMAIN s = 1 .. n
  BY <1>1, <1>2
<1>4. s \in Injection(1 .. n, S)
  BY <1>2 DEF Injection, IsInjective
<1>5. IsFiniteSet(1 .. n) /\ Cardinality(1 .. n) = n
  <2>1. /\ IsFiniteSet(1 .. n)
        /\ Cardinality(1 .. n) = IF 1 > n THEN 0 ELSE n - 1 + 1
    BY <1>1, FS_Interval
  <2> QED
    BY <1>1, <2>1
<1>6. s \in Surjection(1 .. n, S)
  BY <1>4, <1>5, FS_Injection DEF n
<1>7. \A x \in S : \E i \in 1 .. n : s[i] = x
  BY <1>6 DEF Surjection
<1> QED
  BY <1>2, <1>3, <1>7 DEF n

-----------------------------------------------------------------------------
(* Ranges that overlap or touch become one.                                *)

(* n ranges have been looked at: those left are apart, begin no later than *)
(* what follows, and have every line.                                      *)
Apart(done) == \A i, j \in 1 .. Len(done) : i < j => done[i].to + 1 < done[j].from
HasLine(done, x) == \E i \in 1 .. Len(done) : x \in Snip!LinesOf(done[i])
Coalescing(done, sorted, n) ==
  /\ done \in Seq(Span)
  /\ Apart(done)
  /\ n > 0 => done # <<>>
  /\ \A i \in 1 .. Len(done) : \A j \in 1 .. Len(sorted) : n <= j => done[i].from <= sorted[j].from
  /\ \A i \in 1 .. n : \A x \in Snip!LinesOf(sorted[i]) : HasLine(done, x)

(* A sequence with another last element.                                   *)
Moved(s, b) == Append(Snip!Front(s), b)

(* Element by element.                                                     *)
LEMMA LastGoes ==
  ASSUME NEW A, NEW s \in Seq(A), s # <<>>, NEW b \in A
  PROVE  /\ Moved(s, b) \in Seq(A) /\ Len(Moved(s, b)) = Len(s) /\ Len(s) \in Nat \ {0}
         /\ \A i \in 1 .. Len(s) - 1 : Moved(s, b)[i] = s[i]
         /\ Moved(s, b)[Len(s)] = b
         /\ Snip!Last(s) = s[Len(s)]
<1> PICK n : n = Len(s)
  OBVIOUS
<1> PICK u : u = SubSeq(s, 1, n - 1)
  OBVIOUS
<1>1. n \in Nat \ {0}
  OBVIOUS
<1>2. u \in Seq(A) /\ Len(u) = n - 1 /\ \A i \in 1 .. n - 1 : u[i] = s[i]
  <2>1. \A i \in 1 .. n - 1 : s[i] \in A
    OBVIOUS
  <2>2. 1 \in Int /\ n - 1 \in Int
    BY ONLY <1>1
  <2>3. /\ u \in Seq(A)
        /\ Len(u) = IF 1 <= n - 1 THEN n - 1 - 1 + 1 ELSE 0
        /\ \A i \in 1 .. n - 1 - 1 + 1 : u[i] = s[1 + i - 1]
    BY ONLY <2>1, <2>2, SubSeqProperties, u = SubSeq(s, 1, n - 1)
  <2> QED
    BY ONLY <1>1, <2>3
<1>3. Moved(s, b) = Append(u, b)
  BY DEF Snip!Front, Moved
<1>4. /\ Append(u, b) \in Seq(A) /\ Len(Append(u, b)) = Len(u) + 1
      /\ \A i \in 1 .. Len(u) : Append(u, b)[i] = u[i]
      /\ Append(u, b)[Len(u) + 1] = b
  BY <1>2
<1>5. n - 1 + 1 = n
  BY <1>1
<1> QED
  BY <1>1, <1>2, <1>3, <1>4, <1>5 DEF Snip!Last

(* The same of a sequence with one more element.                           *)
LEMMA OneAppended ==
  ASSUME NEW A, NEW s \in Seq(A), NEW b \in A, NEW t, t = Append(s, b)
  PROVE  /\ t \in Seq(A) /\ Len(t) = Len(s) + 1 /\ Len(s) \in Nat
         /\ \A i \in 1 .. Len(s) : t[i] = s[i]
         /\ t[Len(s) + 1] = b
OBVIOUS

(* A range that grows to the end of another.                               *)
Grown(a, e) == [a EXCEPT !.to = Snip!Max({@, e})]

LEMMA RangeGrows ==
  ASSUME NEW a \in Span, NEW e \in Nat
  PROVE  /\ Grown(a, e) \in Span /\ Grown(a, e).from = a.from
         /\ Grown(a, e).to = (IF a.to < e THEN e ELSE a.to)
         /\ Grown(a, e).to >= e /\ Grown(a, e).to >= a.to
<1>1. a.from \in Nat /\ a.to \in Nat /\ a.from <= a.to /\ a \in [from : Nat, to : Nat]
  BY DEF Span
<1>2. Snip!Max({a.to, e}) = IF a.to < e THEN e ELSE a.to
  BY <1>1, SnipMaxIs
<1> PICK t : t = IF a.to < e THEN e ELSE a.to
  OBVIOUS
<1> PICK b : b = Grown(a, e)
  OBVIOUS
<1>3. t \in Nat /\ a.from <= t /\ t >= e /\ t >= a.to
  BY <1>1
<1>4. b = [a EXCEPT !.to = t]
  BY <1>2 DEF Grown
<1>5. b \in [from : Nat, to : Nat] /\ b.from = a.from /\ b.to = t
  BY ONLY <1>1, <1>3, <1>4
<1> QED
  BY <1>3, <1>5 DEF Span

(* One range more: the last one grows, or the range comes after it.        *)
LEMMA CoalesceKeeps ==
  ASSUME NEW sorted \in Seq(Span), Rising(sorted), NEW n \in 1 .. Len(sorted),
         NEW done, Coalescing(done, sorted, n - 1)
  PROVE  Coalescing(Snip!Coalesce(done, sorted[n]), sorted, n)
<1> DEFINE r == sorted[n]
<1> PICK m : m = Len(done)
  OBVIOUS
<1>1. r \in Span /\ n \in Nat /\ Len(sorted) \in Nat /\ n \in 1 .. Len(sorted)
  OBVIOUS
<1>2. r.from \in Nat /\ r.to \in Nat /\ r.from <= r.to
  BY <1>1, SpanIs
<1>3. /\ done \in Seq(Span) /\ m \in Nat
      /\ \A i \in 1 .. m : done[i] \in Span /\ done[i].from \in Nat /\ done[i].to \in Nat
                           /\ done[i].from <= done[i].to
  BY SpanIs DEF Coalescing
<1>4. \A i \in 1 .. m : done[i].from <= r.from
  BY <1>1 DEF Coalescing
<1>5. \A j \in 1 .. Len(sorted) : n <= j => r.from <= sorted[j].from
  <2>1. \A j \in 1 .. Len(sorted) : sorted[j] \in Span /\ sorted[j].from \in Nat
    BY SpanIs
  <2>2. ASSUME NEW j \in 1 .. Len(sorted), n <= j PROVE r.from <= sorted[j].from
    <3>1. CASE n = j
      BY <1>2, <3>1
    <3>2. CASE n # j
      BY <1>1, <2>2, <3>2 DEF Rising
    <3> QED
      BY <3>1, <3>2
  <2> QED
    BY <2>2
<1>6. \A i \in 1 .. m : \A j \in 1 .. Len(sorted) : n <= j => done[i].from <= sorted[j].from
  <2>1. \A j \in 1 .. Len(sorted) : n <= j => n - 1 <= j
    BY <1>1
  <2> QED
    BY <2>1 DEF Coalescing
<1>7. \A i \in 1 .. n - 1 : \A x \in Snip!LinesOf(sorted[i]) : HasLine(done, x)
  BY DEF Coalescing
<1>8. Apart(done)
  BY DEF Coalescing
<1>9. \A i \in 1 .. n : i \in 1 .. n - 1 \/ i = n
  BY <1>1
<1> HIDE DEF r
<1>10. CASE done # <<>> /\ r.from <= Snip!Last(done).to + 1
  <2> PICK b : b = Grown(Snip!Last(done), r.to)
    OBVIOUS
  <2> PICK q : q = Moved(done, b)
    OBVIOUS
  <2>1. Snip!Coalesce(done, r) = q
    BY <1>10 DEF Snip!Coalesce, Grown, Moved
  <2>2. Snip!Last(done) = done[m] /\ m \in 1 .. m
    BY <1>3, <1>10 DEF Snip!Last
  <2>3. /\ b \in Span /\ b.from = done[m].from
        /\ b.to = (IF done[m].to < r.to THEN r.to ELSE done[m].to)
        /\ b.to >= r.to /\ b.to >= done[m].to
    <3>1. b = Grown(done[m], r.to)
      BY <2>2
    <3> QED
      BY ONLY <1>2, <1>3, <2>2, <3>1, RangeGrows
  <2>4. /\ q \in Seq(Span) /\ Len(q) = m /\ \A i \in 1 .. m - 1 : q[i] = done[i]
        /\ q[m] = b
    <3>1. done \in Seq(Span) /\ b \in Span /\ done # <<>>
      BY <1>3, <1>10, <2>3
    <3>2. /\ Moved(done, b) \in Seq(Span) /\ Len(Moved(done, b)) = Len(done)
          /\ \A i \in 1 .. Len(done) - 1 : Moved(done, b)[i] = done[i]
          /\ Moved(done, b)[Len(done)] = b
      BY ONLY <3>1, LastGoes
    <3> QED
      BY ONLY <3>2, m = Len(done), q = Moved(done, b)
  <2>5. \A i \in 1 .. m : q[i].from = done[i].from
    <3>1. \A i \in 1 .. m : i \in 1 .. m - 1 \/ i = m
      BY <1>3
    <3> QED
      BY <2>3, <2>4, <3>1
  <2>6. Apart(q)
    <3>1. ASSUME NEW i \in 1 .. m, NEW j \in 1 .. m, i < j PROVE q[i].to + 1 < q[j].from
      <4>1. i \in 1 .. m - 1
        BY <1>3, <3>1
      <4> QED
        BY <1>8, <2>4, <2>5, <3>1, <4>1 DEF Apart
    <3> QED
      BY <2>4, <3>1 DEF Apart
  <2>7. ASSUME NEW x, HasLine(done, x) PROVE HasLine(q, x)
    <3>1. PICK i \in 1 .. m : x \in Snip!LinesOf(done[i])
      BY <2>7 DEF HasLine
    <3>2. i \in 1 .. m - 1 \/ i = m
      BY <1>3
    <3>3. CASE i \in 1 .. m - 1
      BY <2>4, <3>1, <3>3 DEF HasLine
    <3>4. CASE i = m
      <4>1. /\ x \in Int /\ b.from <= x /\ x <= done[m].to
            /\ done[m].to \in Nat /\ b.to \in Nat /\ b.from \in Nat
        BY <1>3, <2>2, <2>3, <3>1, <3>4, SpanIs DEF Snip!LinesOf
      <4>2. x \in b.from .. b.to
        BY ONLY <2>3, <4>1
      <4> QED
        BY <2>2, <2>4, <4>2 DEF HasLine, Snip!LinesOf
    <3> QED
      BY <3>2, <3>3, <3>4
  <2>8. ASSUME NEW x \in Snip!LinesOf(r) PROVE HasLine(q, x)
    <3>1. x \in r.from .. r.to
      BY DEF Snip!LinesOf
    <3>2. x \in Snip!LinesOf(b)
      <4>1. done[m].from <= r.from /\ done[m].from \in Nat
        BY <1>3, <1>4, <2>2
      <4>2. x \in Int /\ b.from <= x /\ x <= b.to
        BY ONLY <1>2, <2>3, <3>1, <4>1, SpanIs
      <4>3. b.from \in Nat /\ b.to \in Nat
        BY <2>3, SpanIs
      <4> QED
        BY <4>2, <4>3 DEF Snip!LinesOf
    <3> QED
      BY <2>2, <2>4, <3>2 DEF HasLine
  <2>9. q # <<>>
    BY <2>2, <2>4
  <2>10. \A i \in 1 .. n : \A x \in Snip!LinesOf(sorted[i]) : HasLine(q, x)
    BY <1>7, <1>9, <2>7, <2>8 DEF r
  <2>11. \A i \in 1 .. Len(q) : \A j \in 1 .. Len(sorted) : n <= j => q[i].from <= sorted[j].from
    BY <1>6, <2>4, <2>5
  <2> QED
    BY <2>1, <2>4, <2>6, <2>9, <2>10, <2>11 DEF Coalescing, r
<1>11. CASE ~(done # <<>> /\ r.from <= Snip!Last(done).to + 1)
  <2> PICK q : q = Append(done, r)
    OBVIOUS
  <2>1. Snip!Coalesce(done, r) = q
    BY <1>11 DEF Snip!Coalesce, Grown, Moved
  <2>2. /\ q \in Seq(Span) /\ Len(q) = m + 1 /\ \A i \in 1 .. m : q[i] = done[i]
        /\ q[m + 1] = r
    BY <1>1, <1>3, OneAppended
  <2>3. \A i \in 1 .. m + 1 : i \in 1 .. m \/ i = m + 1
    BY <1>3
  <2>4. \A i \in 1 .. m : done[i].to + 1 < r.from
    <3>1. ASSUME NEW i \in 1 .. m PROVE done[i].to + 1 < r.from
      <4>1. m \in 1 .. m /\ done # <<>> /\ Snip!Last(done) = done[m]
        BY <1>3 DEF Snip!Last
      <4>0. done[m].to \in Nat /\ done[i].to \in Nat /\ done[m].from \in Nat
            /\ done[m].from <= done[m].to
        BY <1>3, <4>1
      <4>2. done[m].to + 1 < r.from
        <5>1. ~(r.from <= done[m].to + 1)
          BY <1>11, <4>1
        <5> QED
          BY ONLY <1>2, <4>0, <5>1
      <4>3. CASE i = m
        BY <4>2, <4>3
      <4>4. CASE i # m
        <5>1. done[i].to + 1 < done[m].from
          <6>1. i < m
            BY <1>3, <4>4
          <6> QED
            BY ONLY <1>8, <4>1, <6>1, m = Len(done), i \in 1 .. m DEF Apart
        <5> QED
          <6> PICK c : c = done[m].from
            OBVIOUS
          <6> PICK e : e = done[i].to
            OBVIOUS
          <6> PICK g : g = done[m].to
            OBVIOUS
          <6>1. c \in Nat /\ e \in Nat /\ g \in Nat /\ c <= g /\ g + 1 < r.from /\ e + 1 < c
            BY <4>0, <4>2, <5>1
          <6>2. e + 1 < r.from
            BY ONLY <6>1, <1>2
          <6> QED
            BY <6>2
      <4> QED
        BY <4>3, <4>4
    <3> QED
      BY <3>1
  <2>5. Apart(q)
    <3>1. ASSUME NEW i \in 1 .. m + 1, NEW j \in 1 .. m + 1, i < j PROVE q[i].to + 1 < q[j].from
      <4>1. i \in 1 .. m
        BY <1>3, <3>1
      <4> QED
        BY <1>8, <2>2, <2>3, <2>4, <3>1, <4>1 DEF Apart
    <3> QED
      BY <2>2, <3>1 DEF Apart
  <2>6. ASSUME NEW x, HasLine(done, x) PROVE HasLine(q, x)
    BY <1>3, <2>2, <2>6 DEF HasLine
  <2>7. ASSUME NEW x \in Snip!LinesOf(r) PROVE HasLine(q, x)
    <3>1. m + 1 \in 1 .. m + 1
      BY <1>3
    <3> QED
      BY <2>2, <2>7, <3>1 DEF HasLine
  <2>8. q # <<>>
    BY <1>3, <2>2
  <2>9. \A i \in 1 .. n : \A x \in Snip!LinesOf(sorted[i]) : HasLine(q, x)
    BY <1>7, <1>9, <2>6, <2>7 DEF r
  <2>10. \A i \in 1 .. Len(q) : \A j \in 1 .. Len(sorted) : n <= j => q[i].from <= sorted[j].from
    BY <1>5, <1>6, <2>2, <2>3
  <2> QED
    BY <2>1, <2>2, <2>5, <2>8, <2>9, <2>10 DEF Coalescing, r
<1> QED
  BY <1>10, <1>11 DEF r

(* What becomes of ordered ranges: they are apart, and have every line.    *)
LEMMA CoalescedIs ==
  ASSUME NEW sorted \in Seq(Span), Rising(sorted)
  PROVE  Coalescing(Snip!Coalesced(sorted), sorted, Len(sorted))
<1> DEFINE N == Len(sorted)
           done[n \in 0 .. N] ==
             IF n = 0 THEN <<>> ELSE Snip!Coalesce(done[n - 1], sorted[n])
           taken == [p \in Seq(Span) \X (1 .. N) |-> Snip!Coalesce(p[1], sorted[p[2]])]
<1>1. Snip!Coalesced(sorted) = done[N]
  BY DEF Snip!Coalesced
<1>2. taken \in [Seq(Span) \X (1 .. N) -> Seq(Span)]
  <2>1. ASSUME NEW d \in Seq(Span), NEW n \in 1 .. N
        PROVE  Snip!Coalesce(d, sorted[n]) \in Seq(Span)
    <3> PICK r : r = sorted[n]
      OBVIOUS
    <3>1. r \in Span /\ r.to \in Nat
      BY SpanIs
    <3>2. CASE d # <<>> /\ r.from <= Snip!Last(d).to + 1
      <4>1. Snip!Last(d) \in Span
        BY <3>2 DEF Snip!Last
      <4> PICK b : b = Grown(Snip!Last(d), r.to)
        OBVIOUS
      <4>4. b \in Span
        BY ONLY <3>1, <4>1, RangeGrows, b = Grown(Snip!Last(d), r.to)
      <4>5. Moved(d, b) \in Seq(Span)
        <5> PICK q : q = Moved(d, b)
          OBVIOUS
        <5>1. d \in Seq(Span)
          OBVIOUS
        <5>2. q \in Seq(Span)
          BY ONLY <3>2, <4>4, <5>1, LastGoes, q = Moved(d, b)
        <5> QED
          BY <5>2
      <4> QED
        BY <3>2, <4>5 DEF Snip!Coalesce, Grown, Moved
    <3>3. CASE ~(d # <<>> /\ r.from <= Snip!Last(d).to + 1)
      BY <3>1, <3>3 DEF Snip!Coalesce, Grown, Moved
    <3> QED
      BY <3>2, <3>3
  <2> QED
    BY <2>1
<1> HIDE DEF taken
<1>3. PICK f \in [0 .. N -> Seq(Span)] : Runs(f, N, <<>>, taken)
  <2>1. N \in Nat /\ <<>> \in Seq(Span)
    OBVIOUS
  <2> HIDE DEF N
  <2> QED
    BY ONLY <1>2, <2>1, Loop
<1>4. f = [n \in 0 .. N |-> IF n = 0 THEN <<>> ELSE Snip!Coalesce(f[n - 1], sorted[n])]
  <2>1. f = [n \in 0 .. N |-> f[n]]
    OBVIOUS
  <2>2. ASSUME NEW n \in 1 .. N PROVE f[n] = Snip!Coalesce(f[n - 1], sorted[n])
    <3>1. f[n - 1] \in Seq(Span) /\ f[n] = taken[<<f[n - 1], n>>]
      BY <1>3 DEF Runs
    <3> QED
      BY <3>1 DEF taken
  <2>3. f[0] = <<>>
    BY <1>3 DEF Runs
  <2>4. \A n \in 0 .. N : n # 0 => n \in 1 .. N
    OBVIOUS
  <2> QED
    BY <2>1, <2>2, <2>3, <2>4
<1>5. done = [n \in 0 .. N |->
                IF n = 0 THEN <<>> ELSE Snip!Coalesce(done[n - 1], sorted[n])]
  BY <1>4
<1> HIDE DEF done
<1>6. done[0] = <<>> /\ \A n \in 1 .. N : done[n] = Snip!Coalesce(done[n - 1], sorted[n])
  BY <1>5
<1> DEFINE T == {n \in 0 .. N : Coalescing(done[n], sorted, n)}
<1>7. 0 \in T
  <2>1. Coalescing(<<>>, sorted, 0)
    BY DEF Coalescing, Apart
  <2> QED
    BY <1>6, <2>1
<1>8. ASSUME NEW n \in 1 .. N, n - 1 \in T PROVE n \in T
  <2>1. Coalescing(done[n - 1], sorted, n - 1)
    BY <1>8
  <2>2. Coalescing(Snip!Coalesce(done[n - 1], sorted[n]), sorted, n)
    BY <2>1, CoalesceKeeps
  <2> QED
    BY <1>6, <2>2
<1> HIDE DEF T
<1>9. N \in T
  <2>1. N \in Nat
    OBVIOUS
  <2> HIDE DEF N
  <2>2. \A n \in 0 .. N : n \in T
    BY ONLY <1>7, <1>8, <2>1, UpTo
  <2> QED
    BY <2>1, <2>2
<1> QED
  BY <1>1, <1>9 DEF T

-----------------------------------------------------------------------------
(* The chunks a search found become one where they touch (JoinNext).       *)

Larger(a, b) == IF a < b THEN b ELSE a
Piece == {p \in [from : Nat, to : Nat, text : Seq(Nat)] : p.from <= p.to}
Holds(p, x) == \E k \in 1 .. Len(p.text) : p.text[k] = x
HasAll(p, a, b) == \A x \in a .. b : Holds(p, x)

(* The text has lines of the range only, in their order.                   *)
InOrder(p) == \A k, l \in 1 .. Len(p.text) : k < l => p.text[k] < p.text[l]
TextOk(p) == InOrder(p) /\ \A k \in 1 .. Len(p.text) : p.text[k] \in p.from .. p.to

LEMMA PieceIs ==
  ASSUME NEW p \in Piece
  PROVE  p.from \in Nat /\ p.to \in Nat /\ p.text \in Seq(Nat) /\ p.from <= p.to
BY DEF Piece

(* The stored text of a chunk is the chunk.                                *)
LEMMA ChunkText ==
  ASSUME NEW r \in Span
  PROVE  /\ Snip!WithText(r) \in Piece
         /\ Snip!WithText(r).from = r.from /\ Snip!WithText(r).to = r.to
         /\ Len(Snip!WithText(r).text) = r.to - r.from + 1
         /\ \A k \in 1 .. Len(Snip!WithText(r).text) : Snip!WithText(r).text[k] = r.from + k - 1
<1> PICK w : w = r.to - r.from + 1
  OBVIOUS
<1>1. r.from \in Nat /\ r.to \in Nat /\ r.from <= r.to /\ w \in Nat
  BY SpanIs
<1> PICK t : t = Snip!Text(r)
  OBVIOUS
<1>2. t = [k \in 1 .. w |-> r.from + k - 1]
  BY DEF Snip!Text
<1>3. \A k \in 1 .. w : r.from + k - 1 \in Nat
  BY <1>1
<1>4. t \in Seq(Nat) /\ Len(t) = w /\ \A k \in 1 .. w : t[k] = r.from + k - 1
  BY ONLY <1>1, <1>2, <1>3
<1>5. Snip!WithText(r) = [from |-> r.from, to |-> r.to, text |-> t]
  BY DEF Snip!WithText
<1> QED
  BY ONLY <1>1, <1>4, <1>5, w = r.to - r.from + 1 DEF Piece

LEMMA ChunkIsWhole ==
  ASSUME NEW r \in Span
  PROVE  /\ TextOk(Snip!WithText(r))
         /\ \A x : Holds(Snip!WithText(r), x) <=> x \in r.from .. r.to
<1> PICK p : p = Snip!WithText(r)
  OBVIOUS
<1>1. r.from \in Nat /\ r.to \in Nat /\ r.from <= r.to
  BY SpanIs
<1>2. /\ p.from = r.from /\ p.to = r.to /\ Len(p.text) = r.to - r.from + 1
      /\ \A k \in 1 .. Len(p.text) : p.text[k] = r.from + k - 1
  BY ChunkText
<1>3. InOrder(p)
  BY ONLY <1>1, <1>2 DEF InOrder
<1>4. \A k \in 1 .. Len(p.text) : p.text[k] \in p.from .. p.to
  <2> PICK f \in Nat : f = r.from
    BY <1>1
  <2> PICK l \in Nat : l = r.to
    BY <1>1
  <2>1. ASSUME NEW k \in 1 .. l - f + 1 PROVE f + k - 1 \in f .. l
    OBVIOUS
  <2>2. \A k \in 1 .. l - f + 1 : p.text[k] = f + k - 1
    BY <1>2
  <2> QED
    BY <1>2, <2>1, <2>2
<1>5. ASSUME NEW x \in r.from .. r.to PROVE Holds(p, x)
  <2>1. x - r.from + 1 \in 1 .. Len(p.text) /\ r.from + (x - r.from + 1) - 1 = x
    BY ONLY <1>1, <1>2, <1>5
  <2>2. p.text[x - r.from + 1] = x
    BY <1>2, <2>1
  <2> QED
    BY <2>1, <2>2 DEF Holds
<1>6. \A x : Holds(p, x) <=> x \in r.from .. r.to
  BY <1>2, <1>4, <1>5 DEF Holds
<1> QED
  BY <1>3, <1>4, <1>6 DEF TextOk

(* What is left of it without the first o lines.                           *)
Left(r, o) == Snip!TailFrom(Snip!WithText(r).text, o)

LEMMA LeftIs ==
  ASSUME NEW r \in Span, NEW o \in Nat
  PROVE  /\ Left(r, o) \in Seq(Nat)
         /\ \A k \in 1 .. Len(Left(r, o)) : /\ Left(r, o)[k] = r.from + o + k - 1
                                            /\ Left(r, o)[k] \in r.from + o .. r.to
         /\ \A x \in r.from + o .. r.to : \E k \in 1 .. Len(Left(r, o)) : Left(r, o)[k] = x
<1> PICK s : s = Snip!WithText(r).text
  OBVIOUS
<1> PICK w : w = Len(s)
  OBVIOUS
<1> PICK t : t = Left(r, o)
  OBVIOUS
<1>1. r.from \in Nat /\ r.to \in Nat /\ r.from <= r.to
  BY SpanIs
<1>2. /\ w = r.to - r.from + 1 /\ w \in Nat
      /\ \A k \in 1 .. w : s[k] = r.from + k - 1 /\ s[k] \in Nat
  <2>1. w = r.to - r.from + 1 /\ \A k \in 1 .. w : s[k] = r.from + k - 1
    BY ChunkText
  <2> QED
    BY ONLY <1>1, <2>1
<1>3. t = SubSeq(s, o + 1, w)
  BY DEF Left, Snip!TailFrom
<1>4. \A i \in o + 1 .. w : s[i] \in Nat
  BY ONLY <1>2, o \in Nat
<1>5. o + 1 \in Int /\ w \in Int
  BY ONLY <1>2, o \in Nat
<1>6. /\ t \in Seq(Nat) /\ Len(t) = IF o + 1 <= w THEN w - (o + 1) + 1 ELSE 0
      /\ \A k \in 1 .. w - (o + 1) + 1 : t[k] = s[o + 1 + k - 1]
  BY ONLY <1>3, <1>4, <1>5, SubSeqProperties
<1> PICK l : l = Len(t)
  OBVIOUS
<1>7. /\ l = (IF o + 1 <= w THEN w - o ELSE 0)
      /\ \A k \in 1 .. l : o + k \in 1 .. w /\ o + 1 + k - 1 = o + k /\ k \in 1 .. w - (o + 1) + 1
  BY ONLY <1>2, <1>6, l = Len(t), o \in Nat
<1>8. \A k \in 1 .. l : t[k] = r.from + (o + k) - 1
  BY ONLY <1>2, <1>6, <1>7
<1>9. \A k \in 1 .. l : t[k] = r.from + o + k - 1 /\ t[k] \in r.from + o .. r.to
  BY ONLY <1>1, <1>2, <1>7, <1>8, o \in Nat
<1>10. ASSUME NEW x \in r.from + o .. r.to PROVE \E k \in 1 .. l : t[k] = x
  <2>1. x - r.from - o + 1 \in 1 .. l /\ r.from + (o + (x - r.from - o + 1)) - 1 = x
    BY ONLY <1>1, <1>2, <1>7, <1>10, o \in Nat
  <2>2. t[x - r.from - o + 1] = x
    BY ONLY <1>8, <2>1
  <2> QED
    BY <2>1, <2>2
<1> QED
  BY <1>6, <1>9, <1>10

(* The chunk that follows, cut where the last piece ends and added to it.  *)
Cut(p, r) == IF r.from <= p.to THEN p.to - r.from + 1 ELSE 0
Fused(p, r) ==
  [p EXCEPT !.to = Larger(p.to, r.to), !.text = @ \o Left(r, Cut(p, r))]

(* Its text stays in order, and no line of either is lost.                 *)
LEMMA FusedIs ==
  ASSUME NEW p \in Piece, NEW r \in Span
  PROVE  /\ Fused(p, r) \in Piece
         /\ Fused(p, r).from = p.from /\ Fused(p, r).to = Larger(p.to, r.to)
         /\ TextOk(p) => TextOk(Fused(p, r))
         /\ \A x : Holds(p, x) => Holds(Fused(p, r), x)
         /\ \A x \in r.from .. r.to : x > p.to => Holds(Fused(p, r), x)
<1> PICK o : o = Cut(p, r)
  OBVIOUS
<1> PICK a : a = r.from + o
  OBVIOUS
<1> PICK t : t = Left(r, o)
  OBVIOUS
<1> PICK s : s = p.text
  OBVIOUS
<1> PICK e : e = Larger(p.to, r.to)
  OBVIOUS
<1> PICK b : b = Fused(p, r)
  OBVIOUS
<1>1. /\ p.from \in Nat /\ p.to \in Nat /\ p.from <= p.to /\ s \in Seq(Nat)
      /\ r.from \in Nat /\ r.to \in Nat /\ r.from <= r.to
  BY PieceIs, SpanIs
<1>2. o \in Nat /\ a \in Nat /\ a > p.to /\ a >= r.from /\ (a = p.to + 1 \/ a = r.from)
  <2> PICK f \in Nat : f = r.from
    BY <1>1
  <2> PICK l \in Nat : l = p.to
    BY <1>1
  <2>1. o = IF f <= l THEN l - f + 1 ELSE 0
    BY DEF Cut
  <2>2. a = f + o
    OBVIOUS
  <2>3. o \in Nat /\ a \in Nat /\ a > l /\ a >= f /\ (a = l + 1 \/ a = f)
    BY ONLY <2>1, <2>2, f \in Nat, l \in Nat
  <2> QED
    BY <2>3
<1>3. /\ t \in Seq(Nat)
      /\ \A k \in 1 .. Len(t) : t[k] = a + k - 1 /\ t[k] \in a .. r.to
      /\ \A x \in a .. r.to : \E k \in 1 .. Len(t) : t[k] = x
  BY ONLY <1>2, LeftIs, t = Left(r, o), a = r.from + o, r \in Span
<1>4. e \in Nat /\ e >= p.to /\ e >= r.to /\ p.from <= e
  BY <1>1 DEF Larger
<1>5. p \in [from : Nat, to : Nat, text : Seq(Nat)]
  BY DEF Piece
<1>6. b = [p EXCEPT !.to = e, !.text = s \o t]
  BY DEF Fused
<1> PICK c : c = s \o t
  OBVIOUS
<1>7. /\ c \in Seq(Nat) /\ Len(c) = Len(s) + Len(t) /\ Len(s) \in Nat /\ Len(t) \in Nat
      /\ \A i \in 1 .. Len(s) + Len(t) : c[i] = IF i <= Len(s) THEN s[i] ELSE t[i - Len(s)]
  BY ONLY <1>1, <1>3, ConcatProperties, LenProperties, c = s \o t
<1>8. /\ b.from = p.from /\ b.to = e /\ b.text = c
      /\ b \in [from : Nat, to : Nat, text : Seq(Nat)]
  BY ONLY <1>4, <1>5, <1>6, <1>7, c = s \o t
<1> PICK pf \in Nat : pf = p.from
  BY <1>1
<1> PICK pl \in Nat : pl = p.to
  BY <1>1
<1> PICK rl \in Nat : rl = r.to
  BY <1>1
<1>14. pf <= pl /\ a > pl /\ rl <= e /\ pl <= e /\ a \in Nat /\ e \in Nat
  BY <1>1, <1>2, <1>4
<1>9. b \in Piece
  BY <1>4, <1>8 DEF Piece
<1> PICK ls : ls = Len(s)
  OBVIOUS
<1> PICK lt : lt = Len(t)
  OBVIOUS
<1>10. /\ ls \in Nat /\ lt \in Nat /\ Len(c) = ls + lt
       /\ \A i \in 1 .. ls + lt : c[i] = IF i <= ls THEN s[i] ELSE t[i - ls]
       /\ \A k \in 1 .. lt : t[k] = a + k - 1 /\ t[k] \in a .. r.to
       /\ \A x \in a .. r.to : \E k \in 1 .. lt : t[k] = x
  BY <1>3, <1>7
<1>11. \A x : Holds(p, x) => Holds(b, x)
  <2>1. ASSUME NEW x, NEW k \in 1 .. ls, s[k] = x PROVE Holds(b, x)
    <3>1. k \in 1 .. ls + lt /\ c[k] = x
      BY ONLY <1>10, <2>1, k \in 1 .. ls
    <3> QED
      BY <1>8, <1>10, <3>1 DEF Holds
  <2> QED
    BY <2>1 DEF Holds
<1>12. ASSUME NEW x \in r.from .. r.to, x > p.to PROVE Holds(b, x)
  <2>1. x \in a .. r.to
    BY ONLY <1>1, <1>2, <1>12
  <2>2. PICK k \in 1 .. lt : t[k] = x
    BY <1>10, <2>1
  <2>3. ls + k \in 1 .. ls + lt /\ ls + k - ls = k /\ ~(ls + k <= ls)
    BY ONLY <1>10, k \in 1 .. lt
  <2>4. c[ls + k] = x
    BY ONLY <1>10, <2>2, <2>3
  <2> QED
    <3>1. Len(b.text) = ls + lt /\ b.text = c
      BY <1>8, <1>10
    <3> QED
      BY ONLY <2>3, <2>4, <3>1 DEF Holds
<1>13. ASSUME TextOk(p) PROVE TextOk(b)
  <2>1. /\ \A k \in 1 .. ls : s[k] \in p.from .. p.to
        /\ \A k, l \in 1 .. ls : k < l => s[k] < s[l]
    BY <1>13 DEF TextOk, InOrder
  <2>2. ASSUME NEW i \in 1 .. ls + lt PROVE c[i] \in p.from .. e
    <3>1. CASE i <= ls
      <4>1. i \in 1 .. ls /\ c[i] = s[i]
        BY ONLY <1>10, <3>1, i \in 1 .. ls + lt
      <4>2. c[i] \in pf .. pl
        BY <2>1, <4>1
      <4> QED
        BY ONLY <1>14, <4>2, pf \in Nat, pl \in Nat, pf = p.from
    <3>2. CASE ~(i <= ls)
      <4>1. i - ls \in 1 .. lt /\ c[i] = t[i - ls]
        BY ONLY <1>10, <3>2, i \in 1 .. ls + lt
      <4>2. t[i - ls] \in a .. r.to
        BY <1>10, <4>1
      <4> QED
        <5>1. c[i] \in a .. rl
          BY <4>1, <4>2
        <5>2. c[i] \in pf .. e
          BY ONLY <1>14, <5>1, pf \in Nat, pl \in Nat, rl \in Nat
        <5> QED
          BY <5>2
    <3> QED
      BY <3>1, <3>2
  <2>3. ASSUME NEW i \in 1 .. ls + lt, NEW j \in 1 .. ls + lt, i < j PROVE c[i] < c[j]
    <3>1. CASE j <= ls
      <4>1. i \in 1 .. ls /\ j \in 1 .. ls
        BY ONLY <1>10, <2>3, <3>1, i \in 1 .. ls + lt, j \in 1 .. ls + lt
      <4>2. s[i] < s[j] /\ c[i] = s[i] /\ c[j] = s[j]
        BY <1>10, <2>1, <2>3, <4>1
      <4> QED
        BY ONLY <4>2
    <3>2. CASE i <= ls /\ ~(j <= ls)
      <4>1. i \in 1 .. ls /\ j - ls \in 1 .. lt
        BY ONLY <1>10, <2>3, <3>2, i \in 1 .. ls + lt, j \in 1 .. ls + lt
      <4>2. s[i] \in p.from .. p.to /\ t[j - ls] \in a .. r.to /\ c[i] = s[i] /\ c[j] = t[j - ls]
        BY <1>10, <2>1, <3>2, <4>1
      <4> QED
        <5>1. c[i] \in pf .. pl /\ c[j] \in a .. rl
          BY <4>2
        <5> QED
          BY ONLY <1>14, <5>1, pf \in Nat, pl \in Nat, rl \in Nat
    <3>3. CASE ~(i <= ls)
      <4>1. i - ls \in 1 .. lt /\ j - ls \in 1 .. lt /\ ~(j <= ls)
        BY ONLY <1>10, <2>3, <3>3, i \in 1 .. ls + lt, j \in 1 .. ls + lt
      <4>2. c[i] = t[i - ls] /\ c[j] = t[j - ls]
        BY <1>10, <3>3, <4>1
      <4>3. t[i - ls] = a + (i - ls) - 1 /\ t[j - ls] = a + (j - ls) - 1
        BY <1>10, <4>1
      <4> QED
        BY ONLY <1>2, <1>10, <2>3, <4>2, <4>3, i \in 1 .. ls + lt, j \in 1 .. ls + lt
    <3> QED
      BY <1>10, <3>1, <3>2, <3>3
  <2> QED
    <3>1. Len(b.text) = ls + lt /\ b.from = p.from /\ b.to = e /\ b.text = c
      BY <1>8, <1>10
    <3>2. InOrder(b)
      BY ONLY <2>3, <3>1 DEF InOrder
    <3>3. \A k \in 1 .. Len(b.text) : b.text[k] \in b.from .. b.to
      BY ONLY <2>2, <3>1
    <3> QED
      BY ONLY <3>2, <3>3 DEF TextOk
<1> QED
  BY <1>8, <1>9, <1>11, <1>12, <1>13

(* After the first n chunks: the pieces are in order, each begins no later *)
(* than what follows,                                                      *)
Pieces(done, top) ==
  done \in Seq(Piece) /\ \A i \in 1 .. Len(done) : TextOk(done[i]) /\ done[i].to <= top
Ahead(done, sorted, n) ==
  \A i \in 1 .. Len(done) : \A j \in 1 .. Len(sorted) : n <= j => done[i].from <= sorted[j].from

(* one that is too long to be joined to has all its lines,                 *)
Wide(p) == p.to - p.from + 1 > MergeCap
WideAreWhole(done) ==
  \A i \in 1 .. Len(done) : Wide(done[i]) => HasAll(done[i], done[i].from, done[i].to)

(* neighbours do not touch, or would be too long as one,                   *)
Parted(p, q) == q.from > p.to + 2 \/ Larger(p.to, q.to) - p.from + 1 > MergeCap
Neighbours(done) == \A i \in 1 .. Len(done) - 1 : Parted(done[i], done[i + 1])

(* the earlier of two pieces has the lines both could have, the last piece *)
(* all from the first line of the last chunk on,                           *)
SharedAreThere(done) ==
  \A i, j \in 1 .. Len(done) : i < j => HasAll(done[i], done[j].from, done[i].to)
Newest(done, sorted, n) ==
  /\ n = 0 => done = <<>>
  /\ n > 0 => done # <<>> /\ HasAll(done[Len(done)], sorted[n].from, done[Len(done)].to)

(* and no line of a chunk is lost.                                         *)
Reached(done, x) == \E i \in 1 .. Len(done) : Holds(done[i], x)
Together(done, sorted, n) ==
  \A i \in 1 .. n : \A x \in Snip!LinesOf(sorted[i]) : Reached(done, x)

Joining(done, sorted, n, top) ==
  /\ Pieces(done, top) /\ Rising(done) /\ Ahead(done, sorted, n)
  /\ WideAreWhole(done) /\ Neighbours(done) /\ SharedAreThere(done)
  /\ Newest(done, sorted, n) /\ Together(done, sorted, n)

LEMMA PieceAt ==
  ASSUME NEW done, NEW top \in Nat, Pieces(done, top), NEW i \in 1 .. Len(done)
  PROVE  /\ done[i] \in Piece /\ done[i].from \in Nat /\ done[i].to \in Nat
         /\ done[i].from <= done[i].to /\ done[i].to <= top /\ TextOk(done[i])
BY PieceIs DEF Pieces

(* What begins the next one is no earlier.                                 *)
LEMMA RisesFrom ==
  ASSUME NEW sorted \in Seq(Span), Rising(sorted), NEW n \in 1 .. Len(sorted)
  PROVE  /\ sorted[n] \in Span
         /\ \A j \in 1 .. Len(sorted) : n <= j => sorted[n].from <= sorted[j].from
         /\ \A j \in 1 .. Len(sorted) : j <= n => sorted[j].from <= sorted[n].from
<1>1. \A j \in 1 .. Len(sorted) : sorted[j] \in Span /\ sorted[j].from \in Nat
  BY SpanIs
<1>2. Len(sorted) \in Nat /\ n \in Nat
  OBVIOUS
<1>3. ASSUME NEW j \in 1 .. Len(sorted), n <= j PROVE sorted[n].from <= sorted[j].from
  <2>1. n = j \/ n < j
    BY ONLY <1>2, <1>3, j \in 1 .. Len(sorted)
  <2> QED
    BY <1>1, <2>1 DEF Rising
<1>4. ASSUME NEW j \in 1 .. Len(sorted), j <= n PROVE sorted[j].from <= sorted[n].from
  <2>1. n = j \/ j < n
    BY ONLY <1>2, <1>4, j \in 1 .. Len(sorted)
  <2> QED
    BY <1>1, <2>1 DEF Rising
<1> QED
  BY <1>1, <1>3, <1>4

(* The next chunk is fused with the last piece, which stays short enough.  *)
LEMMA FusedKeeps ==
  ASSUME NEW top \in Nat, NEW sorted \in Seq(Span), Rising(sorted),
         \A i \in 1 .. Len(sorted) : sorted[i].to <= top,
         NEW n \in 1 .. Len(sorted), NEW done, Joining(done, sorted, n - 1, top),
         done # <<>>,
         ~Wide(Fused(done[Len(done)], sorted[n]))
  PROVE  Joining(Moved(done, Fused(done[Len(done)], sorted[n])), sorted, n, top)
<1> PICK m : m = Len(done)
  OBVIOUS
<1> PICK r : r = sorted[n]
  OBVIOUS
<1> PICK p : p = done[m]
  OBVIOUS
<1> PICK b : b = Fused(p, r)
  OBVIOUS
<1> PICK q : q = Moved(done, b)
  OBVIOUS
<1>1. /\ r \in Span /\ r.from \in Nat /\ r.to \in Nat /\ r.from <= r.to /\ r.to <= top
      /\ \A j \in 1 .. Len(sorted) : n <= j => r.from <= sorted[j].from
      /\ \A j \in 1 .. Len(sorted) : j <= n => sorted[j].from <= r.from
  BY RisesFrom, SpanIs
<1>2. done \in Seq(Piece) /\ m \in Nat \ {0} /\ n \in Nat \ {0}
  BY DEF Joining, Pieces
<1>3. \A i \in 1 .. m : /\ done[i] \in Piece /\ done[i].from \in Nat /\ done[i].to \in Nat
                        /\ done[i].from <= done[i].to /\ done[i].to <= top /\ TextOk(done[i])
  BY PieceAt DEF Joining
<1>4. m \in 1 .. m /\ n - 1 <= n
  BY ONLY <1>2
<1>5. \A i \in 1 .. m : \A j \in 1 .. Len(sorted) : n - 1 <= j => done[i].from <= sorted[j].from
  BY DEF Joining, Ahead
<1>6. p \in Piece /\ p.from <= r.from
  BY <1>3, <1>4, <1>5
<1>7. /\ b \in Piece /\ b.from = p.from /\ b.to = Larger(p.to, r.to)
      /\ TextOk(b)
      /\ \A x : Holds(p, x) => Holds(b, x)
      /\ \A x \in r.from .. r.to : x > p.to => Holds(b, x)
  BY ONLY <1>1, <1>3, <1>4, <1>6, FusedIs, p = done[m], b = Fused(p, r)
<1>8. /\ q \in Seq(Piece) /\ Len(q) = m /\ q[m] = b
      /\ \A i \in 1 .. m - 1 : q[i] = done[i]
  <2>1. done \in Seq(Piece) /\ b \in Piece /\ done # <<>>
    BY <1>2, <1>7
  <2>2. /\ Moved(done, b) \in Seq(Piece) /\ Len(Moved(done, b)) = Len(done)
        /\ \A i \in 1 .. Len(done) - 1 : Moved(done, b)[i] = done[i]
        /\ Moved(done, b)[Len(done)] = b
    BY ONLY <2>1, LastGoes
  <2> QED
    BY ONLY <2>2, m = Len(done), q = Moved(done, b)
<1>9. \A i \in 1 .. m : i \in 1 .. m - 1 \/ i = m
  BY ONLY <1>2
<1>10. \A i \in 1 .. m : q[i].from = done[i].from
  BY ONLY <1>7, <1>8, <1>9, p = done[m]
<1>11. /\ b.to \in Nat /\ b.to <= top /\ p.to <= b.to /\ r.to <= b.to
       /\ (b.to = p.to \/ b.to = r.to)
  <2> PICK e \in Nat : e = p.to
    BY <1>3, <1>4
  <2> PICK f \in Nat : f = r.to
    BY <1>1
  <2>1. e <= top /\ f <= top
    BY <1>1, <1>3, <1>4
  <2>2. b.to = IF e < f THEN f ELSE e
    BY <1>7 DEF Larger
  <2> PICK g : g = IF e < f THEN f ELSE e
    OBVIOUS
  <2>3. g \in Nat /\ g <= top /\ e <= g /\ f <= g /\ (g = e \/ g = f)
    BY ONLY <2>1, e \in Nat, f \in Nat, g = IF e < f THEN f ELSE e
  <2>4. b.to = g /\ e = p.to /\ f = r.to
    BY <2>2
  <2> QED
    BY ONLY <2>3, <2>4
<1>12. Pieces(q, top)
  <2>1. \A i \in 1 .. m : TextOk(q[i]) /\ q[i].to <= top
    BY ONLY <1>3, <1>7, <1>8, <1>9, <1>11
  <2> QED
    BY ONLY <1>8, <2>1 DEF Pieces
<1>13. Rising(q)
  <2>1. \A i, j \in 1 .. m : i < j => done[i].from <= done[j].from
    BY DEF Joining, Rising
  <2> QED
    BY ONLY <1>8, <1>10, <2>1 DEF Rising
<1>14. Ahead(q, sorted, n)
  <2>1. \A j \in 1 .. Len(sorted) : n <= j => n - 1 <= j
    BY ONLY <1>2
  <2> QED
    BY ONLY <1>5, <1>8, <1>10, <2>1 DEF Ahead
<1>15. WideAreWhole(q)
  <2>1. \A i \in 1 .. m : Wide(done[i]) => HasAll(done[i], done[i].from, done[i].to)
    BY DEF Joining, WideAreWhole
  <2>2. \A i \in 1 .. m - 1 : i \in 1 .. m
    BY ONLY <1>2
  <2>3. ~Wide(b)
    OBVIOUS
  <2> QED
    BY ONLY <1>8, <1>9, <2>1, <2>2, <2>3 DEF WideAreWhole
<1>16. Neighbours(q)
  <2>1. \A i \in 1 .. m - 1 : Parted(done[i], done[i + 1])
    BY DEF Joining, Neighbours
  <2>2. ASSUME NEW i \in 1 .. m - 1 PROVE Parted(q[i], q[i + 1])
    <3>1. i \in 1 .. m /\ (i + 1 \in 1 .. m - 1 \/ i + 1 = m)
      BY ONLY <1>2, i \in 1 .. m - 1
    <3>2. CASE i + 1 \in 1 .. m - 1
      BY ONLY <1>8, <2>1, <3>2, i \in 1 .. m - 1
    <3>3. CASE i + 1 = m
      <4>1. q[i] = done[i] /\ q[i + 1] = b /\ Parted(done[i], p)
        BY <1>8, <2>1, <3>3
      <4> PICK f \in Nat : f = done[i].from
        BY <1>3, <3>1
      <4> PICK e \in Nat : e = done[i].to
        BY <1>3, <3>1
      <4> PICK g \in Nat : g = p.to
        BY <1>3, <1>4
      <4> PICK h \in Nat : h = b.to
        BY <1>11
      <4>2. g <= h
        BY <1>11
      <4>3. MergeCap \in Nat
        BY SnippetsOk DEF Snip!SnippetsAssumption
      <4>4. p.from > e + 2 \/ (IF e < g THEN g ELSE e) - f + 1 > MergeCap
        BY <4>1 DEF Parted, Larger
      <4>5. p.from > e + 2 \/ (IF e < h THEN h ELSE e) - f + 1 > MergeCap
        <5>1. (IF e < g THEN g ELSE e) - f + 1 > MergeCap
                => (IF e < h THEN h ELSE e) - f + 1 > MergeCap
          BY ONLY <4>2, <4>3, e \in Nat, f \in Nat, g \in Nat, h \in Nat
        <5> QED
          BY ONLY <4>4, <5>1
      <4>6. Parted(done[i], b)
        BY <1>7, <4>5 DEF Parted, Larger
      <4> QED
        BY <4>1, <4>6
    <3> QED
      BY <3>1, <3>2, <3>3
  <2> QED
    BY ONLY <1>8, <2>2 DEF Neighbours
<1>17. SharedAreThere(q)
  <2>1. \A i, j \in 1 .. m : i < j => HasAll(done[i], done[j].from, done[i].to)
    BY DEF Joining, SharedAreThere
  <2>2. ASSUME NEW i \in 1 .. m, NEW j \in 1 .. m, i < j
        PROVE  HasAll(q[i], q[j].from, q[i].to)
    <3>1. i \in 1 .. m - 1
      BY ONLY <1>2, <2>2, i \in 1 .. m, j \in 1 .. m
    <3> QED
      BY ONLY <1>8, <1>10, <2>1, <2>2, <3>1, i \in 1 .. m, j \in 1 .. m
  <2> QED
    BY ONLY <1>8, <2>2 DEF SharedAreThere
<1>18. Newest(q, sorted, n)
  <2>1. n - 1 # 0
    BY DEF Joining, Newest
  <2>2. n - 1 \in 1 .. Len(sorted) /\ n - 1 > 0 /\ n - 1 <= n
    BY ONLY <1>2, <2>1, n \in 1 .. Len(sorted)
  <2>3. HasAll(p, sorted[n - 1].from, p.to)
    BY <2>2 DEF Joining, Newest
  <2>4. sorted[n - 1].from <= r.from /\ sorted[n - 1].from \in Nat
    BY <1>1, <2>2, SpanIs
  <2>5. ASSUME NEW x \in r.from .. b.to PROVE Holds(b, x)
    <3> PICK f \in Nat : f = sorted[n - 1].from
      BY <2>4
    <3> PICK g \in Nat : g = r.from
      BY <1>1
    <3> PICK e \in Nat : e = p.to
      BY <1>3, <1>4
    <3> PICK h \in Nat : h = r.to
      BY <1>1
    <3> PICK t \in Nat : t = b.to
      BY <1>11
    <3>1. f <= g /\ (t = e \/ t = h) /\ x \in g .. t
      BY <1>11, <2>4
    <3>2. x \in f .. e \/ (x \in g .. h /\ x > e)
      BY ONLY <3>1, e \in Nat, f \in Nat, g \in Nat, h \in Nat, t \in Nat
    <3> QED
      BY <1>7, <2>3, <3>2 DEF HasAll
  <2>6. HasAll(b, r.from, b.to)
    BY <2>5 DEF HasAll
  <2>7. q # <<>>
    BY <1>2, <1>8
  <2> QED
    BY <1>2, <1>8, <2>6, <2>7 DEF Newest
<1>19. Together(q, sorted, n)
  <2>1. \A i \in 1 .. n - 1 : \A x \in Snip!LinesOf(sorted[i]) : Reached(done, x)
    BY DEF Joining, Together
  <2>2. ASSUME NEW x, Reached(done, x) PROVE Reached(q, x)
    <3>1. PICK i \in 1 .. m : Holds(done[i], x)
      BY <2>2 DEF Reached
    <3>2. Holds(q[i], x)
      BY ONLY <1>7, <1>8, <1>9, <3>1, p = done[m], i \in 1 .. m
    <3> QED
      BY ONLY <1>8, <3>2, i \in 1 .. m DEF Reached
  <2>3. ASSUME NEW x \in Snip!LinesOf(r) PROVE Reached(q, x)
    <3>1. x \in r.from .. r.to
      BY DEF Snip!LinesOf
    <3>2. HasAll(b, r.from, b.to)
      BY <1>2, <1>8, <1>18 DEF Newest
    <3>3. x \in r.from .. b.to
      <4> PICK g \in Nat : g = r.from
        BY <1>1
      <4> PICK h \in Nat : h = r.to
        BY <1>1
      <4> PICK t \in Nat : t = b.to
        BY <1>11
      <4>1. h <= t /\ x \in g .. h
        BY <1>11, <3>1
      <4>2. x \in g .. t
        BY ONLY <4>1, g \in Nat, h \in Nat, t \in Nat
      <4> QED
        BY <4>2
    <3>4. Holds(q[m], x)
      BY <1>8, <3>2, <3>3 DEF HasAll
    <3> QED
      BY <1>4, <1>8, <3>4 DEF Reached
  <2>4. \A i \in 1 .. n : i \in 1 .. n - 1 \/ i = n
    BY ONLY <1>2
  <2> QED
    BY <2>1, <2>2, <2>3, <2>4 DEF Together
<1> QED
  BY <1>12, <1>13, <1>14, <1>15, <1>16, <1>17, <1>18, <1>19 DEF Joining

(* The next chunk does not touch the last piece, or they are too long as one.*)
LEMMA AppendedKeeps ==
  ASSUME NEW top \in Nat, NEW sorted \in Seq(Span), Rising(sorted),
         \A i \in 1 .. Len(sorted) : sorted[i].to <= top,
         NEW n \in 1 .. Len(sorted), NEW done, Joining(done, sorted, n - 1, top),
         done # <<>> => Parted(done[Len(done)], sorted[n])
  PROVE  Joining(Append(done, Snip!WithText(sorted[n])), sorted, n, top)
<1> PICK m : m = Len(done)
  OBVIOUS
<1> PICK r : r = sorted[n]
  OBVIOUS
<1> PICK b : b = Snip!WithText(r)
  OBVIOUS
<1> PICK q : q = Append(done, b)
  OBVIOUS
<1>1. /\ r \in Span /\ r.from \in Nat /\ r.to \in Nat /\ r.from <= r.to /\ r.to <= top
      /\ \A j \in 1 .. Len(sorted) : n <= j => r.from <= sorted[j].from
      /\ \A j \in 1 .. Len(sorted) : j <= n => sorted[j].from <= r.from
  BY RisesFrom, SpanIs
<1>2. done \in Seq(Piece) /\ m \in Nat /\ n \in Nat \ {0}
  BY DEF Joining, Pieces
<1>3. \A i \in 1 .. m : /\ done[i] \in Piece /\ done[i].from \in Nat /\ done[i].to \in Nat
                        /\ done[i].from <= done[i].to /\ done[i].to <= top /\ TextOk(done[i])
  BY PieceAt DEF Joining
<1>4. n - 1 <= n /\ m + 1 \in 1 .. m + 1
  BY ONLY <1>2
<1>5. \A i \in 1 .. m : \A j \in 1 .. Len(sorted) : n - 1 <= j => done[i].from <= sorted[j].from
  BY DEF Joining, Ahead
<1>6. \A i \in 1 .. m : done[i].from <= r.from
  BY <1>4, <1>5
<1>7. /\ b \in Piece /\ b.from = r.from /\ b.to = r.to /\ TextOk(b)
      /\ \A x : Holds(b, x) <=> x \in r.from .. r.to
  BY ONLY <1>1, ChunkText, ChunkIsWhole, b = Snip!WithText(r)
<1>8. /\ q \in Seq(Piece) /\ Len(q) = m + 1 /\ q[m + 1] = b
      /\ \A i \in 1 .. m : q[i] = done[i]
  BY ONLY <1>2, <1>7, OneAppended, m = Len(done), q = Append(done, b)
<1>9. \A i \in 1 .. m + 1 : i \in 1 .. m \/ i = m + 1
  BY ONLY <1>2
<1>10. HasAll(b, r.from, b.to)
  BY <1>7 DEF HasAll
<1>11. Pieces(q, top)
  <2>1. \A i \in 1 .. m + 1 : TextOk(q[i]) /\ q[i].to <= top
    BY ONLY <1>1, <1>3, <1>7, <1>8, <1>9
  <2> QED
    BY ONLY <1>8, <2>1 DEF Pieces
<1>12. Rising(q)
  <2>1. \A i, j \in 1 .. m : i < j => done[i].from <= done[j].from
    BY DEF Joining, Rising
  <2>2. ASSUME NEW i \in 1 .. m + 1, NEW j \in 1 .. m + 1, i < j
        PROVE  q[i].from <= q[j].from
    <3>1. i \in 1 .. m
      BY ONLY <1>2, <2>2, i \in 1 .. m + 1, j \in 1 .. m + 1
    <3> QED
      BY ONLY <1>6, <1>7, <1>8, <1>9, <2>1, <2>2, <3>1, j \in 1 .. m + 1
  <2> QED
    BY ONLY <1>8, <2>2 DEF Rising
<1>13. Ahead(q, sorted, n)
  <2>1. \A j \in 1 .. Len(sorted) : n <= j => n - 1 <= j
    BY ONLY <1>2
  <2> QED
    BY ONLY <1>1, <1>5, <1>7, <1>8, <1>9, <2>1 DEF Ahead
<1>14. WideAreWhole(q)
  <2>1. \A i \in 1 .. m : Wide(done[i]) => HasAll(done[i], done[i].from, done[i].to)
    BY DEF Joining, WideAreWhole
  <2> QED
    BY ONLY <1>7, <1>8, <1>9, <1>10, <2>1 DEF WideAreWhole
<1>15. Neighbours(q)
  <2>1. \A i \in 1 .. m - 1 : Parted(done[i], done[i + 1])
    BY DEF Joining, Neighbours
  <2>2. ASSUME NEW i \in 1 .. m PROVE Parted(q[i], q[i + 1])
    <3>1. i + 1 \in 1 .. m + 1 /\ i \in 1 .. m + 1
      BY ONLY <1>2, i \in 1 .. m
    <3>2. CASE i \in 1 .. m - 1
      <4>1. i + 1 \in 1 .. m
        BY ONLY <1>2, <3>2
      <4> QED
        BY ONLY <1>8, <2>1, <3>2, <4>1, i \in 1 .. m
    <3>3. CASE i = m
      <4>1. done # <<>>
        BY <1>2, <3>3
      <4>2. Parted(done[m], r)
        BY <4>1
      <4>3. Parted(done[m], b)
        BY <1>7, <4>2 DEF Parted
      <4> QED
        BY ONLY <1>8, <3>3, <4>3, i \in 1 .. m
    <3>4. i \in 1 .. m - 1 \/ i = m
      BY ONLY <1>2, i \in 1 .. m
    <3> QED
      BY <3>2, <3>3, <3>4
  <2>3. Len(q) - 1 = m
    BY ONLY <1>2, <1>8
  <2> QED
    BY ONLY <2>2, <2>3 DEF Neighbours
<1>16. ASSUME n - 1 # 0
       PROVE  m \in 1 .. m /\ HasAll(done[m], r.from, done[m].to)
  <2>1. n - 1 \in 1 .. Len(sorted) /\ n - 1 > 0 /\ n - 1 <= n
    BY ONLY <1>2, <1>16, n \in 1 .. Len(sorted)
  <2>2. done # <<>> /\ HasAll(done[m], sorted[n - 1].from, done[m].to)
    BY <2>1 DEF Joining, Newest
  <2>3. m \in 1 .. m
    BY <1>2, <2>2
  <2>4. sorted[n - 1].from <= r.from /\ sorted[n - 1].from \in Nat
    BY <1>1, <2>1, SpanIs
  <2>5. ASSUME NEW x \in r.from .. done[m].to PROVE Holds(done[m], x)
    <3> PICK f \in Nat : f = sorted[n - 1].from
      BY <2>4
    <3> PICK g \in Nat : g = r.from
      BY <1>1
    <3> PICK e \in Nat : e = done[m].to
      BY <1>3, <2>3
    <3>1. f <= g /\ x \in g .. e
      BY <2>4
    <3>2. x \in f .. e
      BY ONLY <3>1, e \in Nat, f \in Nat, g \in Nat
    <3> QED
      BY <2>2, <3>2 DEF HasAll
  <2> QED
    BY <2>3, <2>5 DEF HasAll
<1>17. SharedAreThere(q)
  <2>1. \A i, j \in 1 .. m : i < j => HasAll(done[i], done[j].from, done[i].to)
    BY DEF Joining, SharedAreThere
  <2>2. ASSUME NEW i \in 1 .. m + 1, NEW j \in 1 .. m + 1, i < j
        PROVE  HasAll(q[i], q[j].from, q[i].to)
    <3>1. i \in 1 .. m
      BY ONLY <1>2, <2>2, i \in 1 .. m + 1, j \in 1 .. m + 1
    <3>2. CASE j \in 1 .. m
      BY ONLY <1>8, <2>1, <2>2, <3>1, <3>2
    <3>3. CASE j = m + 1
      <4>1. done # <<>>
        BY <1>2, <3>1
      <4>2. n - 1 # 0
        BY <4>1 DEF Joining, Newest
      <4>3. m \in 1 .. m /\ HasAll(done[m], r.from, done[m].to)
        BY <1>16, <4>2
      <4>4. HasAll(done[i], r.from, done[i].to)
        <5>1. CASE i = m
          BY <4>3, <5>1
        <5>2. CASE i # m
          <6>1. i < m
            BY ONLY <1>2, <3>1, <5>2
          <6>2. HasAll(done[i], done[m].from, done[i].to) /\ done[m].from <= r.from
            BY <1>6, <2>1, <3>1, <4>3, <6>1
          <6> PICK f \in Nat : f = done[m].from
            BY <1>3, <4>3
          <6> PICK g \in Nat : g = r.from
            BY <1>1
          <6> PICK e \in Nat : e = done[i].to
            BY <1>3, <3>1
          <6>3. f <= g
            BY <6>2
          <6>4. \A x \in g .. e : x \in f .. e
            BY ONLY <6>3, e \in Nat, f \in Nat, g \in Nat
          <6>5. \A x \in f .. e : Holds(done[i], x)
            BY <6>2 DEF HasAll
          <6>6. \A x \in g .. e : Holds(done[i], x)
            BY ONLY <6>4, <6>5
          <6> QED
            BY <6>6 DEF HasAll
        <5> QED
          BY <5>1, <5>2
      <4> QED
        BY ONLY <1>7, <1>8, <3>1, <3>3, <4>4
    <3> QED
      BY <1>9, <3>2, <3>3
  <2> QED
    BY ONLY <1>8, <2>2 DEF SharedAreThere
<1>18. Newest(q, sorted, n)
  <2>1. q # <<>>
    BY <1>2, <1>8
  <2> QED
    BY <1>2, <1>8, <1>10, <2>1 DEF Newest
<1>19. Together(q, sorted, n)
  <2>1. \A i \in 1 .. n - 1 : \A x \in Snip!LinesOf(sorted[i]) : Reached(done, x)
    BY DEF Joining, Together
  <2>2. ASSUME NEW x, Reached(done, x) PROVE Reached(q, x)
    <3>1. PICK i \in 1 .. m : Holds(done[i], x)
      BY <2>2 DEF Reached
    <3>2. i \in 1 .. m + 1 /\ Holds(q[i], x)
      BY ONLY <1>2, <1>8, <3>1, i \in 1 .. m
    <3> QED
      BY ONLY <1>8, <3>2 DEF Reached
  <2>3. ASSUME NEW x \in Snip!LinesOf(r) PROVE Reached(q, x)
    <3>1. x \in r.from .. r.to
      BY DEF Snip!LinesOf
    <3>2. Holds(q[m + 1], x)
      BY <1>7, <1>8, <3>1
    <3> QED
      BY <1>4, <1>8, <3>2 DEF Reached
  <2>4. \A i \in 1 .. n : i \in 1 .. n - 1 \/ i = n
    BY ONLY <1>2
  <2> QED
    BY <2>1, <2>2, <2>3, <2>4 DEF Together
<1> QED
  BY <1>11, <1>12, <1>13, <1>14, <1>15, <1>17, <1>18, <1>19 DEF Joining

(* The code does the one or the other.                                     *)
LEMMA JoinKeeps ==
  ASSUME NEW top \in Nat, NEW sorted \in Seq(Span), Rising(sorted),
         \A i \in 1 .. Len(sorted) : sorted[i].to <= top,
         NEW n \in 1 .. Len(sorted), NEW done, Joining(done, sorted, n - 1, top)
  PROVE  Joining(Snip!JoinNext(done, Snip!WithText(sorted[n])), sorted, n, top)
<1> PICK r : r = sorted[n]
  OBVIOUS
<1> PICK h : h = Snip!WithText(r)
  OBVIOUS
<1> PICK p : p = Snip!Last(done)
  OBVIOUS
<1>1. r \in Span /\ r.from \in Nat /\ r.to \in Nat
  BY SpanIs
<1>2. h.from = r.from /\ h.to = r.to
  BY ONLY <1>1, ChunkText, h = Snip!WithText(r)
<1>3. ASSUME done # <<>>
      PROVE  /\ p = done[Len(done)] /\ p \in Piece /\ p.from \in Nat /\ p.to \in Nat
             /\ Snip!Max({p.to, h.to}) = Larger(p.to, r.to)
  <2>1. Pieces(done, top)
    BY DEF Joining
  <2>2. Len(done) \in 1 .. Len(done)
    BY <1>3, <2>1 DEF Pieces
  <2>3. p = done[Len(done)]
    BY DEF Snip!Last
  <2>4. p \in Piece /\ p.from \in Nat /\ p.to \in Nat
    BY <2>1, <2>2, <2>3, PieceAt
  <2> QED
    BY ONLY <1>1, <1>2, <2>3, <2>4, SnipMaxIs DEF Larger
<1> DEFINE fits == done # <<>> /\ h.from <= p.to + 2
                     /\ Snip!Max({p.to, h.to}) - p.from + 1 <= MergeCap
<1>4. CASE fits
  <2>1. Snip!JoinNext(done, h) = Moved(done, Fused(p, r))
    <3>1. Fused(p, r) = [p EXCEPT !.to = Snip!Max({p.to, h.to}),
                                  !.text = @ \o Snip!TailFrom(h.text, Cut(p, h))]
      BY <1>2, <1>3, <1>4 DEF Fused, Left, Cut
    <3> QED
      BY <1>4, <3>1 DEF Snip!JoinNext, Moved, Cut
  <2>2. Fused(p, r).from = p.from /\ Fused(p, r).to = Larger(p.to, r.to)
    BY <1>1, <1>3, <1>4, FusedIs
  <2>3. ~Wide(Fused(p, r))
    <3>1. Larger(p.to, r.to) - p.from + 1 <= MergeCap /\ Larger(p.to, r.to) \in Nat
      BY <1>1, <1>3, <1>4 DEF Larger
    <3>2. MergeCap \in Nat
      BY SnippetsOk DEF Snip!SnippetsAssumption
    <3> PICK e : e = Larger(p.to, r.to)
      OBVIOUS
    <3>3. ~(e - p.from + 1 > MergeCap)
      BY <1>3, <1>4, <3>1, <3>2
    <3> QED
      BY <2>2, <3>3 DEF Wide
  <2>4. Joining(Moved(done, Fused(p, r)), sorted, n, top)
    BY <1>3, <1>4, <2>3, FusedKeeps
  <2> QED
    BY <2>1, <2>4
<1>5. CASE ~fits
  <2>1. Snip!JoinNext(done, h) = Append(done, h)
    BY <1>5 DEF Snip!JoinNext
  <2>2. ASSUME done # <<>> PROVE Parted(p, r)
    <3> PICK e \in Nat : e = Larger(p.to, r.to)
      BY <1>1, <1>3, <2>2 DEF Larger
    <3> PICK a \in Nat : a = r.from
      BY <1>1
    <3> PICK b \in Nat : b = p.to
      BY <1>3, <2>2
    <3> PICK c \in Nat : c = p.from
      BY <1>3, <2>2
    <3>1. ~(a <= b + 2 /\ e - c + 1 <= MergeCap)
      BY <1>2, <1>3, <1>5, <2>2
    <3>2. MergeCap \in Nat
      BY SnippetsOk DEF Snip!SnippetsAssumption
    <3>3. a > b + 2 \/ e - c + 1 > MergeCap
      BY ONLY <3>1, <3>2, a \in Nat, b \in Nat, c \in Nat, e \in Nat
    <3> QED
      BY <3>3 DEF Parted
  <2>3. Joining(Append(done, h), sorted, n, top)
    BY <1>3, <2>2, AppendedKeeps
  <2> QED
    BY <2>1, <2>3
<1> QED
  BY <1>4, <1>5

(* The pieces after the last chunk.                                        *)
LEMMA JoinedIs ==
  ASSUME NEW top \in Nat, NEW sorted \in Seq(Span), Rising(sorted),
         \A i \in 1 .. Len(sorted) : sorted[i].to <= top
  PROVE  \E done : /\ Joining(done, sorted, Len(sorted), top)
                   /\ Snip!Joined(sorted) = {done[i] : i \in 1 .. Len(done)}
<1> DEFINE N == Len(sorted)
           Step(d, n) == Snip!JoinNext(d, Snip!WithText(sorted[n]))
           done[n \in 0 .. N] == IF n = 0 THEN <<>> ELSE Step(done[n - 1], n)
           taken == [p \in Seq(Piece) \X (1 .. N) |->
                       IF Joining(p[1], sorted, p[2] - 1, top) THEN Step(p[1], p[2]) ELSE p[1]]
<1>1. Snip!Joined(sorted) = Snip!Range(done[N])
  BY DEF Snip!Joined
<1>2. \A d : \A n \in 1 .. N :
        Joining(d, sorted, n - 1, top) => Joining(Step(d, n), sorted, n, top)
  BY JoinKeeps
<1> HIDE DEF Step
<1>3. taken \in [Seq(Piece) \X (1 .. N) -> Seq(Piece)]
  <2>1. ASSUME NEW d \in Seq(Piece), NEW n \in 1 .. N, Joining(d, sorted, n - 1, top)
        PROVE  Step(d, n) \in Seq(Piece)
    <3>1. Joining(Step(d, n), sorted, n, top)
      BY <1>2, <2>1
    <3> QED
      BY <3>1 DEF Joining, Pieces
  <2> QED
    BY <2>1
<1>4. N \in Nat /\ <<>> \in Seq(Piece)
  OBVIOUS
<1> HIDE DEF taken
<1>5. PICK f \in [0 .. N -> Seq(Piece)] : Runs(f, N, <<>>, taken)
  <2> HIDE DEF N
  <2> QED
    BY ONLY <1>3, <1>4, Loop
<1>6. \A n \in 1 .. N : /\ f[n - 1] \in Seq(Piece)
                        /\ Joining(f[n - 1], sorted, n - 1, top) => f[n] = Step(f[n - 1], n)
  <2>1. ASSUME NEW n \in 1 .. N
        PROVE  /\ f[n - 1] \in Seq(Piece)
               /\ Joining(f[n - 1], sorted, n - 1, top) => f[n] = Step(f[n - 1], n)
    <3>1. f[n - 1] \in Seq(Piece) /\ f[n] = taken[<<f[n - 1], n>>]
      BY <1>5 DEF Runs
    <3> QED
      BY <3>1 DEF taken
  <2> QED
    BY <2>1
<1> DEFINE T == {n \in 0 .. N : Joining(f[n], sorted, n, top)}
<1>7. 0 \in T
  <2>1. Joining(<<>>, sorted, 0, top)
    BY DEF Joining, Pieces, Rising, Ahead, WideAreWhole, Neighbours, SharedAreThere,
           Newest, Together
  <2> QED
    BY <1>5, <2>1 DEF Runs
<1>8. ASSUME NEW n \in 1 .. N, n - 1 \in T PROVE n \in T
  <2>1. Joining(f[n - 1], sorted, n - 1, top)
    BY <1>8
  <2>2. f[n] = Step(f[n - 1], n) /\ Joining(Step(f[n - 1], n), sorted, n, top)
    BY <1>2, <1>6, <2>1
  <2> QED
    BY <2>2
<1>9. \A n \in 0 .. N : Joining(f[n], sorted, n, top)
  <2> HIDE DEF T
  <2>1. \A n \in 0 .. N : n \in T
    <3> HIDE DEF N
    <3> QED
      BY ONLY <1>4, <1>7, <1>8, UpTo
  <2> QED
    BY <2>1 DEF T
<1>10. \A n \in 1 .. N : f[n] = Step(f[n - 1], n)
  <2>1. \A n \in 1 .. N : n - 1 \in 0 .. N
    OBVIOUS
  <2> QED
    BY <1>6, <1>9, <2>1
<1>11. f = [n \in 0 .. N |-> IF n = 0 THEN <<>> ELSE Step(f[n - 1], n)]
  <2>1. f = [n \in 0 .. N |-> f[n]] /\ f[0] = <<>>
    BY <1>5 DEF Runs
  <2>2. \A n \in 0 .. N : n # 0 => n \in 1 .. N
    OBVIOUS
  <2> QED
    BY <1>10, <2>1, <2>2
<1>12. done = [n \in 0 .. N |-> IF n = 0 THEN <<>> ELSE Step(done[n - 1], n)]
  BY <1>11
<1> HIDE DEF done
<1>13. done[0] = <<>> /\ \A n \in 1 .. N : done[n] = Step(done[n - 1], n)
  BY <1>12
<1> DEFINE U == {n \in 0 .. N : Joining(done[n], sorted, n, top)}
<1>14. 0 \in U
  BY <1>7, <1>13, <1>5 DEF Runs
<1>15. ASSUME NEW n \in 1 .. N, n - 1 \in U PROVE n \in U
  <2>1. Joining(done[n - 1], sorted, n - 1, top)
    BY <1>15
  <2>2. done[n] = Step(done[n - 1], n) /\ Joining(Step(done[n - 1], n), sorted, n, top)
    BY <1>2, <1>13, <2>1
  <2> QED
    BY <2>2
<1>16. Joining(done[N], sorted, N, top)
  <2> HIDE DEF U
  <2>1. \A n \in 0 .. N : n \in U
    <3> HIDE DEF N
    <3> QED
      BY ONLY <1>4, <1>14, <1>15, UpTo
  <2>2. N \in 0 .. N
    BY <1>4
  <2> QED
    BY <2>1, <2>2 DEF U
<1>17. Snip!Range(done[N]) = {done[N][i] : i \in 1 .. Len(done[N])}
  <2>1. done[N] \in Seq(Piece)
    BY <1>16 DEF Joining, Pieces
  <2>2. DOMAIN done[N] = 1 .. Len(done[N])
    BY <2>1
  <2> QED
    BY <2>2 DEF Snip!Range
<1> QED
  BY <1>1, <1>16, <1>17

(* Whatever is dropped lies in a piece that stays.                         *)
LEMMA SurvivorExists ==
  ASSUME NEW top \in Nat, NEW pieces, pieces \subseteq Piece, \A s \in pieces : s.to <= top,
         NEW r \in pieces
  PROVE  \E s \in Snip!Survivors(pieces) : Snip!Inside(r, s)
<1> DEFINE Wider == {s \in pieces : Snip!Inside(r, s)}
           Width(s) == top - (s.to - s.from)
           T == {Width(s) : s \in Wider}
<1>1. \A s \in pieces : s.from \in Nat /\ s.to \in Nat /\ s.from <= s.to /\ s.to <= top
  BY PieceIs
<1>2. r \in Wider
  BY <1>1 DEF Snip!Inside
<1>3. T \subseteq Nat /\ T # {}
  BY <1>1, <1>2
<1> HIDE DEF T
<1>4. PICK n \in T : \A m \in T : ~(m < n)
  BY ONLY <1>3, Least
<1>5. PICK s \in Wider : n = Width(s)
  BY DEF T
<1>6. ASSUME NEW u \in pieces, Snip!Inside(s, u) PROVE Snip!Inside(u, s)
  <2> PICK sf \in Nat : sf = s.from
    BY <1>1
  <2> PICK sl \in Nat : sl = s.to
    BY <1>1
  <2> PICK uf \in Nat : uf = u.from
    BY <1>1
  <2> PICK ul \in Nat : ul = u.to
    BY <1>1
  <2> PICK rf \in Nat : rf = r.from
    BY <1>1
  <2> PICK rl \in Nat : rl = r.to
    BY <1>1
  <2>1. uf <= sf /\ sl <= ul /\ sf <= rf /\ rl <= sl
    BY <1>5, <1>6 DEF Snip!Inside
  <2>2. uf <= rf /\ rl <= ul
    BY <2>1
  <2>3. u \in Wider
    BY <2>2 DEF Snip!Inside
  <2>4. ~(top - (ul - uf) < top - (sl - sf))
    BY <1>4, <1>5, <2>3 DEF T
  <2>5. uf = sf /\ ul = sl
    BY <2>1, <2>4
  <2> QED
    BY <2>5 DEF Snip!Inside
<1> QED
  BY <1>5, <1>6 DEF Snip!Survivors

(* And it has its lines.                                                   *)
LEMMA SurvivorHas ==
  ASSUME NEW top \in Nat, NEW sorted, NEW n, NEW done, Joining(done, sorted, n, top),
         NEW pieces, pieces = {done[i] : i \in 1 .. Len(done)},
         NEW s \in Snip!Survivors(pieces), NEW r \in pieces, Snip!Inside(r, s),
         NEW x, Holds(r, x)
  PROVE  Holds(s, x)
<1>1. s \in pieces /\ \A u \in pieces : Snip!Inside(s, u) => Snip!Inside(u, s)
  BY DEF Snip!Survivors
<1>2. PICK j \in 1 .. Len(done) : s = done[j]
  BY <1>1
<1>3. PICK i \in 1 .. Len(done) : r = done[i]
  OBVIOUS
<1> PICK m \in Nat : m = Len(done)
  BY DEF Joining, Pieces
<1>4. \A k \in 1 .. m : /\ done[k] \in Piece /\ done[k].from \in Nat /\ done[k].to \in Nat
                        /\ done[k].from <= done[k].to /\ TextOk(done[k])
  BY PieceAt DEF Joining
<1> PICK sf \in Nat : sf = s.from
  BY <1>2, <1>4
<1> PICK sl \in Nat : sl = s.to
  BY <1>2, <1>4
<1> PICK rf \in Nat : rf = r.from
  BY <1>3, <1>4
<1> PICK rl \in Nat : rl = r.to
  BY <1>3, <1>4
<1>5. sf <= rf /\ rl <= sl
  BY DEF Snip!Inside
<1>6. x \in rf .. rl
  <2>1. TextOk(r)
    BY <1>3, <1>4
  <2> QED
    BY <2>1 DEF Holds, TextOk
<1>7. x \in rf .. sl /\ x \in sf .. sl
  BY ONLY <1>5, <1>6, rf \in Nat, rl \in Nat, sf \in Nat, sl \in Nat
<1>8. \A k, l \in 1 .. m : k < l => done[k].from <= done[l].from
  BY DEF Joining, Rising
<1>9. CASE i = j
  BY <1>2, <1>3, <1>9
<1>10. CASE j < i
  <2>1. HasAll(s, rf, sl)
    BY <1>2, <1>3, <1>10 DEF Joining, SharedAreThere
  <2> QED
    BY <1>7, <2>1 DEF HasAll
<1>11. CASE i < j
  <2>1. CASE Wide(s)
    <3>1. HasAll(s, sf, sl)
      BY <1>2, <2>1 DEF Joining, WideAreWhole
    <3> QED
      BY <1>7, <3>1 DEF HasAll
  <2>2. CASE ~Wide(s)
    <3>1. i \in 1 .. m /\ j \in 1 .. m /\ i + 1 \in 1 .. m /\ i \in 1 .. m - 1 /\ i < i + 1
          /\ (i + 1 = j \/ i + 1 < j)
      BY ONLY <1>11, m \in Nat, m = Len(done), i \in 1 .. Len(done), j \in 1 .. Len(done)
    <3> PICK u : u = done[i + 1]
      OBVIOUS
    <3>2. u \in pieces /\ u.from \in Nat /\ u.to \in Nat /\ u.from <= u.to
      BY <1>4, <3>1
    <3> PICK uf \in Nat : uf = u.from
      BY <3>2
    <3> PICK ul \in Nat : ul = u.to
      BY <3>2
    <3>3. rf <= uf /\ uf <= sf
      BY <1>2, <1>3, <1>8, <3>1
    <3>4. Parted(r, u)
      BY <1>3, <3>1 DEF Joining, Neighbours
    <3>5. MergeCap \in Nat
      BY SnippetsOk DEF Snip!SnippetsAssumption
    <3>6. uf > rl + 2 \/ (IF rl < ul THEN ul ELSE rl) - rf + 1 > MergeCap
      BY <3>4 DEF Parted, Larger
    <3>7. ~(sl - sf + 1 > MergeCap) /\ rf <= rl
      BY <1>3, <1>4, <2>2 DEF Wide
    <3>8. uf <= sf /\ sl <= ul /\ ~(ul <= sl)
      BY ONLY <1>5, <3>3, <3>5, <3>6, <3>7, rf \in Nat, rl \in Nat, sf \in Nat, sl \in Nat,
              uf \in Nat, ul \in Nat
    <3>9. Snip!Inside(s, u) /\ ~Snip!Inside(u, s)
      BY <3>8 DEF Snip!Inside
    <3> QED
      BY <1>1, <3>2, <3>9
  <2> QED
    BY <2>1, <2>2
<1>12. i = j \/ j < i \/ i < j
  OBVIOUS
<1> QED
  BY <1>9, <1>10, <1>11, <1>12

-----------------------------------------------------------------------------
(* The parts of the steps.                                                 *)

LEMMA SpansAreFinite ==
  ASSUME NEW n \in Nat, NEW S, S \subseteq Span, \A r \in S : r.to <= n
  PROVE  IsFiniteSet(S)
<1> DEFINE pair == [r \in S |-> <<r.from, r.to>>]
           P == (0 .. n) \X (0 .. n)
<1>1. \A r \in S : r \in [from : Nat, to : Nat] /\ r.from \in 0 .. n /\ r.to \in 0 .. n
  <2>1. ASSUME NEW r \in S
        PROVE  r \in [from : Nat, to : Nat] /\ r.from \in 0 .. n /\ r.to \in 0 .. n
    <3>1. r.from \in Nat /\ r.to \in Nat /\ r.from <= r.to /\ r.to <= n
      BY SpanIs
    <3>2. r \in [from : Nat, to : Nat]
      BY DEF Span
    <3> QED
      BY <3>1, <3>2
  <2> QED
    BY <2>1
<1>2. pair \in [S -> P]
  BY <1>1
<1>3. ASSUME NEW r \in S, NEW s \in S, pair[r] = pair[s] PROVE r = s
  BY <1>1, <1>3
<1>4. pair \in Injection(S, P)
  BY <1>2, <1>3 DEF Injection, IsInjective
<1>5. IsFiniteSet(0 .. n)
  BY FS_Interval
<1>6. IsFiniteSet(P)
  BY <1>5, FS_Product
<1> QED
  BY <1>4, <1>6, FS_Injection

LEMMA SortedIs ==
  ASSUME NEW S, S \subseteq Span, IsFiniteSet(S), NEW s \in Snip!Sorted(S)
  PROVE  /\ s \in Seq(Span) /\ Rising(s)
         /\ \A x \in S : \E i \in 1 .. Len(s) : s[i] = x
         /\ \A i \in 1 .. Len(s) : s[i] \in S
<1>1. s \in Snip!SetToSeqs(S) /\ \A i, j \in DOMAIN s : i < j => s[i].from <= s[j].from
  BY DEF Snip!Sorted
<1>2. /\ s \in Seq(S) /\ DOMAIN s = 1 .. Len(s)
      /\ \A x \in S : \E i \in 1 .. Len(s) : s[i] = x
  BY <1>1, OrderIs
<1>3. s \in Seq(Span) /\ \A i \in 1 .. Len(s) : s[i] \in S
  BY <1>2
<1> QED
  BY <1>1, <1>2, <1>3 DEF Rising

(* The window a line is in.                                                *)
LEMMA WindowOf ==
  ASSUME NEW d \in Nat \ {0}, NEW w \in Nat, d <= w, NEW x \in Nat \ {0}
  PROVE  \E i \in 1 .. x : (i - 1) % d = 0 /\ x <= i + w - 1
<1> DEFINE T == {n \in Nat : n < x /\ \E q \in Nat : n + d * q = x - 1}
<1>1. T \subseteq Nat /\ T # {}
  <2>1. d * 0 = 0
    OBVIOUS
  <2>2. x - 1 \in T
    BY <2>1
  <2> QED
    BY <2>2
<1> HIDE DEF T
<1>2. PICK n \in T : \A m \in T : ~(m < n)
  BY ONLY <1>1, Least
<1>3. n \in Nat /\ n < x /\ \E q \in Nat : n + d * q = x - 1
  BY DEF T
<1>4. PICK q \in Nat : n + d * q = x - 1
  BY <1>3
<1>5. n < d
  <2> SUFFICES ASSUME n >= d PROVE FALSE
    BY <1>3
  <2>1. d * (q + 1) = d * q + d
    OBVIOUS
  <2>2. n - d \in Nat /\ n - d < x /\ n - d + d * (q + 1) = x - 1 /\ q + 1 \in Nat
    BY <1>3, <1>4, <2>1
  <2>3. n - d \in T
    BY <2>2 DEF T
  <2> QED
    BY <1>2, <1>3, <2>3
<1>6. d * q \in Nat
  OBVIOUS
<1>7. (d * q) % d = 0
  OBVIOUS
<1>8. x - n \in 1 .. x /\ x - n - 1 = d * q /\ x <= x - n + w - 1
  BY <1>3, <1>4, <1>5, <1>6
<1> QED
  BY <1>7, <1>8

(* How much of the file an answer keeps at each step.                      *)
InFile(r) == r \in Span /\ 1 <= r.from /\ r.to <= lines

KeptInv ==
  /\ lines \in Nat
  /\ progress \in {"file", "chunked", "merged", "selected", "joined", "answered"}
  /\ progress = "file" => \A r \in spans : r \in Span /\ 1 <= r.from
  /\ progress = "chunked" =>
       (\A r \in chunks : InFile(r)) /\ (1 .. lines) \ blank \subseteq Snip!AllLines(chunks)
  /\ progress = "merged" /\ Cardinality(merged) < TopK =>
       \A x \in Snip!AllLines(hits) : \E c \in merged : Holds(c, x)
  /\ merged \subseteq Piece /\ \A c \in merged : TextOk(c)
  /\ blocks \in Seq(Span) /\ \A x \in asked : HasLine(blocks, x)
  /\ progress \in {"joined", "answered"} =>
       \A i, j \in 1 .. Len(blocks) : i # j =>
         Snip!LinesOf(blocks[i]) \cap Snip!LinesOf(blocks[j]) = {}
  /\ \A i, j \in DOMAIN shown : i < j /\ shown[j] = "full" => shown[i] = "full"

LEMMA IntervalsAre ==
  ASSUME NEW n \in Nat, NEW r \in Snip!Intervals(n)
  PROVE  r \in Span /\ 1 <= r.from /\ r.to <= n
BY DEF Snip!Intervals, Span

LEMMA SomeAre ==
  ASSUME NEW n \in Nat, NEW S \in Snip!Some(Snip!Intervals(n))
  PROVE  \A r \in S : r \in Span /\ 1 <= r.from /\ r.to <= n
<1>1. S \subseteq Snip!Intervals(n)
  <2>1. ASSUME NEW f \in [1 .. MaxRanges -> Snip!Intervals(n)]
        PROVE  Snip!Range(f) \subseteq Snip!Intervals(n)
    BY DEF Snip!Range
  <2> QED
    BY <2>1 DEF Snip!Some
<1> QED
  BY <1>1, IntervalsAre

LEMMA KeptInit == Snip!Init => KeptInv
<1> SUFFICES ASSUME Snip!Init PROVE KeptInv
  OBVIOUS
<1>1. lines \in Nat
  BY SnippetsOk DEF Snip!Init, Snip!SnippetsAssumption
<1>2. \A r \in spans : r \in Span /\ 1 <= r.from
  BY <1>1, SomeAre DEF Snip!Init
<1> QED
  BY <1>1, <1>2 DEF Snip!Init, KeptInv

LEMMA IntervalIs ==
  ASSUME NEW a \in Nat, NEW b \in Nat, a <= b
  PROVE  /\ Snip!Interval(a, b) \in Span
         /\ Snip!Interval(a, b).from = a /\ Snip!Interval(a, b).to = b
BY DEF Snip!Interval, Span

(* chunk_file: what is not blank is in a chunk.                            *)
LEMMA ChunkFileKeeps ==
  ASSUME KeptInv, Snip!ChunkFile
  PROVE  KeptInv'
<1>1. progress = "file" /\ progress' = "chunked" /\ lines \in Nat
  BY DEF Snip!ChunkFile, KeptInv
<1>2. \A r \in spans : r \in Span /\ 1 <= r.from
  BY <1>1 DEF KeptInv
<1> DEFINE gaps == {w \in Snip!Windows :
                      ~(Snip!LinesOf(w) \subseteq Snip!AllLines(Snip!SymbolChunks))}
           all == Snip!SymbolChunks \cup gaps
<1>3. chunks' = {c \in all : ~(Snip!LinesOf(c) \subseteq blank)}
  BY DEF Snip!ChunkFile
<1>4. \A r \in Snip!SymbolChunks : InFile(r)
  <2>1. ASSUME NEW r \in spans, r.from <= lines
        PROVE  InFile(Snip!Interval(r.from, Snip!Min({r.to, lines})))
    <3>1. r.from \in Nat /\ r.to \in Nat /\ r.from <= r.to /\ 1 <= r.from
      BY <1>2, SpanIs
    <3> PICK e : e = Snip!Min({r.to, lines})
      OBVIOUS
    <3>2. e \in Nat /\ r.from <= e /\ e <= lines
      BY <1>1, <2>1, <3>1, SnipMinIs
    <3> QED
      BY <3>1, <3>2, IntervalIs DEF InFile
  <2> QED
    BY <2>1 DEF Snip!SymbolChunks
<1>5. Window \in Nat /\ Stride \in Nat \ {0} /\ Stride <= Window
  BY SnippetsOk DEF Snip!SnippetsAssumption
<1>6. ASSUME NEW a \in 1 .. lines
      PROVE  LET w == Snip!Interval(a, Snip!Min({a + Window - 1, lines}))
             IN  InFile(w) /\ \A x \in a .. lines : x <= a + Window - 1 => x \in Snip!LinesOf(w)
  <2> PICK e : e = Snip!Min({a + Window - 1, lines})
    OBVIOUS
  <2>1. a + Window - 1 \in Nat /\ a \in Nat
    BY <1>1, <1>5
  <2>2. e \in Nat /\ a <= e /\ e <= lines /\ (e = a + Window - 1 \/ e = lines)
    BY <1>1, <1>5, <2>1, SnipMinIs
  <2>3. InFile(Snip!Interval(a, e))
    BY <2>1, <2>2, IntervalIs DEF InFile
  <2>4. \A x \in a .. lines : x <= a + Window - 1 => x \in a .. e
    BY <1>1, <2>1, <2>2
  <2> QED
    BY <2>1, <2>2, <2>3, <2>4, IntervalIs DEF Snip!LinesOf
<1>7. \A r \in Snip!Windows : InFile(r)
  BY <1>6 DEF Snip!Windows
<1>8. \A r \in chunks' : InFile(r)
  BY <1>3, <1>4, <1>7
<1>9. ASSUME NEW x \in (1 .. lines) \ blank PROVE x \in Snip!AllLines(chunks')
  <2>1. ASSUME NEW c \in all, x \in Snip!LinesOf(c) PROVE x \in Snip!AllLines(chunks')
    <3>1. c \in chunks'
      BY <1>3, <2>1
    <3> QED
      BY <2>1, <3>1 DEF Snip!AllLines
  <2>2. CASE x \in Snip!AllLines(Snip!SymbolChunks)
    BY <2>1, <2>2 DEF Snip!AllLines
  <2>3. CASE x \notin Snip!AllLines(Snip!SymbolChunks)
    <3>1. x \in Nat \ {0} /\ x <= lines
      BY <1>1
    <3>2. PICK a \in 1 .. x : (a - 1) % Stride = 0 /\ x <= a + Window - 1
      BY <1>5, <3>1, WindowOf
    <3> PICK w : w = Snip!Interval(a, Snip!Min({a + Window - 1, lines}))
      OBVIOUS
    <3>3. a \in 1 .. lines /\ x \in a .. lines
      BY <1>1, <3>1
    <3>4. w \in Snip!Windows
      BY <3>2, <3>3 DEF Snip!Windows
    <3>5. x \in Snip!LinesOf(w)
      BY <1>6, <3>2, <3>3
    <3> QED
      BY <2>1, <2>3, <3>4, <3>5
  <2> QED
    BY <2>2, <2>3
<1>10. /\ lines' = lines /\ blank' = blank /\ merged' = merged
       /\ blocks' = blocks /\ asked' = asked /\ shown' = shown
  BY DEF Snip!ChunkFile
<1>11. (1 .. lines') \ blank' \subseteq Snip!AllLines(chunks')
  BY <1>9, <1>10
<1>12. \A r \in chunks' : InFile(r)'
  BY <1>8, <1>10 DEF InFile
<1> QED
  BY <1>1, <1>10, <1>11, <1>12 DEF KeptInv, HasLine, Snip!AllLines

(* merge_chunks: what a merge keeps of the hits.                           *)
LEMMA MergeChunksKeeps ==
  ASSUME KeptInv, Snip!MergeChunks
  PROVE  KeptInv'
<1>1. progress = "chunked" /\ progress' = "merged" /\ lines \in Nat /\ TopK \in Nat
  BY SnippetsOk DEF Snip!MergeChunks, KeptInv, Snip!SnippetsAssumption
<1>2. hits' \subseteq chunks /\ \A r \in hits' : InFile(r)
  BY <1>1 DEF Snip!MergeChunks, KeptInv
<1>3. PICK sorted \in Snip!Sorted(hits') :
        LET left == Snip!Survivors(Snip!Joined(sorted))
        IN  merged' \in {m \in SUBSET left :
                           Snip!Cardinality(m) = Snip!Min({TopK, Snip!Cardinality(left)})}
  BY DEF Snip!MergeChunks
<1> PICK glued : glued = Snip!Joined(sorted)
  OBVIOUS
<1> PICK left : left = Snip!Survivors(glued)
  OBVIOUS
<1>4. hits' \subseteq Span /\ \A r \in hits' : r.to <= lines
  BY <1>2 DEF InFile
<1>5. IsFiniteSet(hits')
  BY <1>1, <1>4, SpansAreFinite
<1>6. /\ sorted \in Seq(Span) /\ Rising(sorted)
      /\ \A x \in hits' : \E i \in 1 .. Len(sorted) : sorted[i] = x
      /\ \A i \in 1 .. Len(sorted) : sorted[i].to <= lines
  <2>1. /\ sorted \in Seq(Span) /\ Rising(sorted)
        /\ \A x \in hits' : \E i \in 1 .. Len(sorted) : sorted[i] = x
        /\ \A i \in 1 .. Len(sorted) : sorted[i] \in hits'
    BY ONLY <1>3, <1>4, <1>5, SortedIs
  <2> QED
    BY <1>4, <2>1
<1>7. PICK done : /\ Joining(done, sorted, Len(sorted), lines)
                  /\ glued = {done[i] : i \in 1 .. Len(done)}
  BY <1>1, <1>6, JoinedIs
<1>8. Pieces(done, lines) /\ Len(done) \in Nat
  BY <1>7 DEF Joining, Pieces
<1>9. glued \subseteq Piece /\ \A s \in glued : s.to <= lines /\ TextOk(s)
  BY <1>1, <1>7, <1>8, PieceAt
<1>10. IsFiniteSet(glued)
  <2> DEFINE f == [i \in 1 .. Len(done) |-> done[i]]
  <2>1. f \in Surjection(1 .. Len(done), glued)
    BY <1>7 DEF Surjection
  <2>2. IsFiniteSet(1 .. Len(done))
    BY <1>8, FS_Interval
  <2> QED
    BY <2>1, <2>2, FS_Surjection
<1>11. left \subseteq glued
  BY DEF Snip!Survivors
<1>12. IsFiniteSet(left) /\ Cardinality(left) \in Nat
  BY <1>10, <1>11, FS_Subset, FS_CardinalityType
<1>13. /\ merged' \subseteq left
       /\ Cardinality(merged') = IF TopK < Cardinality(left) THEN TopK ELSE Cardinality(left)
  BY <1>1, <1>3, <1>12, SnipCounts, SnipMinIs
<1>14. ASSUME Cardinality(merged') < TopK PROVE merged' = left
  <2>1. Cardinality(merged') = Cardinality(left)
    BY <1>1, <1>12, <1>13, <1>14
  <2> QED
    BY <1>12, <1>13, <2>1, FS_Subset
<1>15. ASSUME NEW x \in Snip!AllLines(hits') PROVE \E c \in left : Holds(c, x)
  <2>1. PICK r \in hits' : x \in Snip!LinesOf(r)
    BY DEF Snip!AllLines
  <2>2. PICK i \in 1 .. Len(sorted) : sorted[i] = r
    BY <1>6
  <2>3. Reached(done, x)
    BY <1>7, <2>1, <2>2 DEF Joining, Together
  <2>4. PICK k \in 1 .. Len(done) : Holds(done[k], x)
    BY <2>3 DEF Reached
  <2>5. done[k] \in glued
    BY <1>7
  <2>6. PICK s \in left : Snip!Inside(done[k], s)
    BY <1>1, <1>9, <2>5, SurvivorExists
  <2>7. Holds(s, x)
    BY <1>1, <1>7, <2>4, <2>5, <2>6, SurvivorHas
  <2> QED
    BY <2>6, <2>7
<1>16. /\ lines' = lines /\ blocks' = blocks /\ asked' = asked /\ shown' = shown
  BY DEF Snip!MergeChunks
<1>17. progress' = "merged" /\ Cardinality(merged') < TopK =>
         \A x \in Snip!AllLines(hits') : \E c \in merged' : Holds(c, x)
  BY <1>14, <1>15
<1>18. merged' \subseteq Piece /\ \A c \in merged' : TextOk(c)
  BY <1>1, <1>9, <1>11, <1>13
<1> QED
  BY <1>1, <1>16, <1>17, <1>18 DEF KeptInv, HasLine, Snip!AllLines

(* A range asked for is padded and clamped to its chunk: of what it shares *)
(* with the chunk, nothing is lost.                                        *)
LEMMA ClampedIs ==
  ASSUME NEW r \in Span, NEW c \in Piece, NEW p, p = Snip!Clamped(r, c)
  PROVE  /\ p \in [from : Nat, to : Nat] /\ p.to <= c.to
         /\ \A x \in Snip!LinesOf(r) \cap Snip!LinesOf(c) : p.from <= p.to /\ x \in Snip!LinesOf(p)
<1>1. /\ r.from \in Nat /\ r.to \in Nat /\ c.from \in Nat /\ c.to \in Nat /\ Pad \in Nat
  BY PieceIs, SpanIs, SnippetsOk DEF Snip!SnippetsAssumption
<1> PICK rf \in Nat : rf = r.from
  BY <1>1
<1> PICK rl \in Nat : rl = r.to
  BY <1>1
<1> PICK cf \in Nat : cf = c.from
  BY <1>1
<1> PICK cl \in Nat : cl = c.to
  BY <1>1
<1> PICK o : o = IF rf < Pad THEN rf ELSE Pad
  OBVIOUS
<1>2. o \in Nat /\ rf - o \in Nat /\ rf - o <= rf /\ rl + Pad \in Nat
  BY <1>1
<1>3. Snip!Min({r.from, Pad}) = o
  BY <1>1, SnipMinIs
<1> PICK a : a = IF rf - o < cf THEN cf ELSE rf - o
  OBVIOUS
<1> PICK b : b = IF rl + Pad < cl THEN rl + Pad ELSE cl
  OBVIOUS
<1>4. Snip!Max({r.from - o, c.from}) = a
  BY <1>2, SnipMaxIs
<1>5. Snip!Min({r.to + Pad, c.to}) = b
  BY <1>2, SnipMinIs
<1>6. p = [from |-> a, to |-> b]
  BY <1>3, <1>4, <1>5 DEF Snip!Clamped, Snip!Interval
<1>7. /\ a \in Nat /\ b \in Nat /\ b <= cl
      /\ \A x \in Int : rf <= x /\ x <= rl /\ cf <= x /\ x <= cl => a <= x /\ x <= b
  BY ONLY <1>1, <1>2, rf \in Nat, rl \in Nat, cf \in Nat, cl \in Nat,
          a = IF rf - o < cf THEN cf ELSE rf - o, b = IF rl + Pad < cl THEN rl + Pad ELSE cl
<1>8. ASSUME NEW x \in Snip!LinesOf(r) \cap Snip!LinesOf(c)
      PROVE  a <= b /\ x \in a .. b
  <2>1. x \in Int /\ rf <= x /\ x <= rl /\ cf <= x /\ x <= cl
    BY DEF Snip!LinesOf
  <2>2. a <= x /\ x <= b
    BY <1>7, <2>1
  <2> QED
    BY <1>7, <2>1, <2>2
<1>9. p.from = a /\ p.to = b
  BY <1>6
<1> QED
  BY <1>6, <1>7, <1>8, <1>9 DEF Snip!LinesOf

(* sanitize_ranges: no line asked for is lost.                             *)
LEMMA SanitizedIs ==
  ASSUME NEW ranges, ranges \subseteq Span, NEW c \in Piece,
         NEW list \in Snip!Sanitized(ranges, c)
  PROVE  /\ list \in Seq(Span)
         /\ \A x \in Snip!AllLines(ranges) \cap Snip!LinesOf(c) : HasLine(list, x)
<1> PICK usable : usable = {r \in {Snip!Clamped(s, c) : s \in ranges} : r.from <= r.to}
  OBVIOUS
<1>1. c.from \in Nat /\ c.to \in Nat /\ c.from <= c.to
  BY PieceIs
<1>2. usable \subseteq Span /\ \A r \in usable : r.to <= c.to
  <2>1. ASSUME NEW s \in ranges
        PROVE  Snip!Clamped(s, c) \in [from : Nat, to : Nat] /\ Snip!Clamped(s, c).to <= c.to
    BY ClampedIs
  <2> QED
    BY <2>1 DEF Span
<1>3. ASSUME NEW x \in Snip!AllLines(ranges) \cap Snip!LinesOf(c)
      PROVE  \E r \in usable : x \in Snip!LinesOf(r)
  <2>1. PICK s \in ranges : x \in Snip!LinesOf(s)
    BY DEF Snip!AllLines
  <2> PICK p : p = Snip!Clamped(s, c)
    OBVIOUS
  <2>2. p.from <= p.to /\ x \in Snip!LinesOf(p)
    BY <2>1, ClampedIs
  <2> QED
    BY <2>2
<1>4. CASE usable = {}
  <2>1. list = <<Snip!Interval(c.from, c.to)>>
    BY <1>4 DEF Snip!Sanitized
  <2>2. Snip!Interval(c.from, c.to) \in Span
    BY <1>1, IntervalIs
  <2> QED
    BY <1>3, <1>4, <2>1, <2>2
<1>5. CASE usable # {}
  <2>1. PICK sorted \in Snip!Sorted(usable) : list = Snip!Coalesced(sorted)
    BY <1>5 DEF Snip!Sanitized
  <2>2. IsFiniteSet(usable)
    BY <1>1, <1>2, SpansAreFinite
  <2>3. /\ sorted \in Seq(Span) /\ Rising(sorted)
        /\ \A r \in usable : \E i \in 1 .. Len(sorted) : sorted[i] = r
    BY <1>2, <2>2, SortedIs
  <2>4. Coalescing(list, sorted, Len(sorted))
    BY <2>1, <2>3, CoalescedIs
  <2>5. ASSUME NEW r \in usable, NEW x \in Snip!LinesOf(r) PROVE HasLine(list, x)
    <3>1. PICK i \in 1 .. Len(sorted) : sorted[i] = r
      BY <2>3
    <3> QED
      BY <2>4, <3>1 DEF Coalescing
  <2>6. list \in Seq(Span)
    BY <2>4 DEF Coalescing
  <2> QED
    BY <1>3, <2>5, <2>6
<1> QED
  BY <1>4, <1>5

LEMMA CatHas ==
  ASSUME NEW s \in Seq(Span), NEW t \in Seq(Span)
  PROVE  /\ s \o t \in Seq(Span)
         /\ \A x : HasLine(s, x) \/ HasLine(t, x) => HasLine(s \o t, x)
<1> PICK c : c = s \o t
  OBVIOUS
<1> PICK ls : ls = Len(s)
  OBVIOUS
<1> PICK lt : lt = Len(t)
  OBVIOUS
<1>1. /\ c \in Seq(Span) /\ Len(c) = ls + lt /\ ls \in Nat /\ lt \in Nat
      /\ \A i \in 1 .. ls + lt : c[i] = IF i <= ls THEN s[i] ELSE t[i - ls]
  BY ONLY s \in Seq(Span), t \in Seq(Span), ConcatProperties, LenProperties,
          c = s \o t, ls = Len(s), lt = Len(t)
<1>2. ASSUME NEW x, HasLine(s, x) PROVE HasLine(c, x)
  <2>1. PICK i \in 1 .. ls : x \in Snip!LinesOf(s[i])
    BY <1>2 DEF HasLine
  <2>2. i \in 1 .. ls + lt /\ c[i] = s[i]
    BY ONLY <1>1, i \in 1 .. ls
  <2> QED
    BY <1>1, <2>1, <2>2 DEF HasLine
<1>3. ASSUME NEW x, HasLine(t, x) PROVE HasLine(c, x)
  <2>1. PICK i \in 1 .. lt : x \in Snip!LinesOf(t[i])
    BY <1>3 DEF HasLine
  <2>2. ls + i \in 1 .. ls + lt /\ c[ls + i] = t[i]
    <3>1. ls + i \in 1 .. ls + lt /\ ~(ls + i <= ls) /\ ls + i - ls = i
      BY ONLY <1>1, i \in 1 .. lt
    <3> QED
      BY ONLY <1>1, <3>1
  <2> QED
    BY <1>1, <2>1, <2>2 DEF HasLine
<1> QED
  BY <1>1, <1>2, <1>3

LEMMA SelectKeeps ==
  ASSUME KeptInv, Snip!Select
  PROVE  KeptInv'
<1>1. progress = "merged" /\ lines \in Nat /\ merged \subseteq Piece /\ blocks \in Seq(Span)
  BY DEF Snip!Select, KeptInv
<1>2. PICK c \in merged, ranges \in Snip!Some(Snip!Intervals(lines)) :
        /\ \E list \in Snip!Sanitized(ranges, c) : blocks' = blocks \o list
        /\ asked' = asked \cup (Snip!AllLines(ranges) \cap Snip!LinesOf(c))
  BY DEF Snip!Select
<1>3. PICK list \in Snip!Sanitized(ranges, c) : blocks' = blocks \o list
  BY <1>2
<1>4. ranges \subseteq Span /\ c \in Piece
  BY <1>1, SomeAre
<1>5. /\ list \in Seq(Span)
      /\ \A x \in Snip!AllLines(ranges) \cap Snip!LinesOf(c) : HasLine(list, x)
  BY <1>4, SanitizedIs
<1>6. /\ blocks' \in Seq(Span)
      /\ \A x : HasLine(blocks, x) \/ HasLine(list, x) => HasLine(blocks', x)
  BY <1>1, <1>3, <1>5, CatHas
<1>7. \A x \in asked' : HasLine(blocks', x)
  BY <1>2, <1>5, <1>6 DEF KeptInv
<1>8. /\ progress' = progress /\ lines' = lines /\ hits' = hits /\ merged' = merged
      /\ shown' = shown
  BY DEF Snip!Select
<1>9. \A x \in Snip!AllLines(hits)' : x \in Snip!AllLines(hits)
  BY <1>8 DEF Snip!AllLines
<1>10. (\A x \in asked : HasLine(blocks, x))'
  BY <1>7 DEF HasLine
<1> QED
  BY <1>1, <1>6, <1>8, <1>9, <1>10 DEF KeptInv

LEMMA SelectedKeeps ==
  ASSUME KeptInv, Snip!Selected
  PROVE  KeptInv'
<1>1. /\ progress' = "selected" /\ merged' = {} /\ lines' = lines /\ blocks' = blocks
      /\ asked' = asked /\ shown' = shown
  BY DEF Snip!Selected
<1> QED
  BY <1>1 DEF KeptInv, HasLine

(* merge_overlapping_blocks: no line is lost, none is in two blocks.       *)
LEMMA MergeBlocksKeeps ==
  ASSUME KeptInv, Snip!MergeBlocks
  PROVE  KeptInv'
<1> PICK m : m = Len(blocks)
  OBVIOUS
<1>1. progress' = "joined" /\ blocks \in Seq(Span) /\ m \in Nat /\ DOMAIN blocks = 1 .. m
  BY DEF Snip!MergeBlocks, KeptInv
<1>2. PICK sorted \in {s \in Snip!SetToSeqs(DOMAIN blocks) :
                        \A i, j \in DOMAIN s : i < j => blocks[s[i]].from <= blocks[s[j]].from} :
        blocks' \in Snip!SetToSeqs(
                      Snip!Range(Snip!Coalesced([i \in DOMAIN sorted |-> blocks[sorted[i]]])))
  BY DEF Snip!MergeBlocks
<1>3. IsFiniteSet(1 .. m)
  BY <1>1, FS_Interval
<1>4. /\ sorted \in Seq(1 .. m) /\ DOMAIN sorted = 1 .. Len(sorted)
      /\ \A k \in 1 .. m : \E i \in 1 .. Len(sorted) : sorted[i] = k
  <2>1. sorted \in Snip!SetToSeqs(1 .. m)
    BY <1>1, <1>2
  <2> QED
    BY ONLY <1>3, <2>1, OrderIs
<1> PICK n : n = Len(sorted)
  OBVIOUS
<1> PICK t : t = [i \in DOMAIN sorted |-> blocks[sorted[i]]]
  OBVIOUS
<1>5. n \in Nat /\ t = [i \in 1 .. n |-> blocks[sorted[i]]]
  BY <1>4
<1>6. \A i \in 1 .. n : sorted[i] \in 1 .. m /\ blocks[sorted[i]] \in Span
  BY <1>1, <1>4
<1>7. t \in Seq(Span) /\ Len(t) = n /\ \A i \in 1 .. n : t[i] = blocks[sorted[i]]
  BY ONLY <1>5, <1>6
<1>8. Rising(t)
  <2>1. \A i, j \in 1 .. n : i < j => blocks[sorted[i]].from <= blocks[sorted[j]].from
    BY <1>2, <1>4
  <2> QED
    BY ONLY <1>7, <2>1 DEF Rising
<1> PICK d : d = Snip!Coalesced(t)
  OBVIOUS
<1>9. Coalescing(d, t, n)
  BY <1>7, <1>8, CoalescedIs
<1>10. d \in Seq(Span) /\ Apart(d)
  BY <1>9 DEF Coalescing
<1> PICK pieces : pieces = {d[i] : i \in 1 .. Len(d)}
  OBVIOUS
<1>11. blocks' \in Snip!SetToSeqs(pieces)
  <2>1. Snip!Range(d) = pieces
    <3>1. DOMAIN d = 1 .. Len(d)
      BY <1>10
    <3> QED
      BY ONLY <3>1, pieces = {d[i] : i \in 1 .. Len(d)} DEF Snip!Range
  <2> QED
    BY <1>2, <2>1
<1>12. pieces \subseteq Span /\ IsFiniteSet(pieces)
  <2> DEFINE f == [i \in 1 .. Len(d) |-> d[i]]
  <2>1. f \in Surjection(1 .. Len(d), pieces)
    BY DEF Surjection
  <2>2. IsFiniteSet(1 .. Len(d))
    BY <1>10, FS_Interval
  <2>3. IsFiniteSet(pieces)
    BY <2>1, <2>2, FS_Surjection
  <2> QED
    BY <1>10, <2>3
<1> PICK b : b = blocks'
  OBVIOUS
<1>13. /\ b \in Seq(pieces)
       /\ \A r \in pieces : \E i \in 1 .. Len(b) : b[i] = r
       /\ \A i, j \in 1 .. Len(b) : i # j => b[i] # b[j]
  <2>1. b \in Snip!SetToSeqs(pieces)
    BY <1>11
  <2> QED
    BY ONLY <1>12, <2>1, OrderIs
<1>14. b \in Seq(Span) /\ \A i \in 1 .. Len(b) : b[i] \in pieces
  BY <1>12, <1>13
<1>15. ASSUME NEW x, HasLine(blocks, x) PROVE HasLine(b, x)
  <2>1. PICK k \in 1 .. m : x \in Snip!LinesOf(blocks[k])
    BY <1>15 DEF HasLine
  <2>2. PICK i \in 1 .. n : sorted[i] = k
    BY <1>4
  <2>3. x \in Snip!LinesOf(t[i])
    BY <1>7, <2>1, <2>2
  <2>4. HasLine(d, x)
    BY <1>7, <1>9, <2>3 DEF Coalescing
  <2>5. PICK l \in 1 .. Len(d) : x \in Snip!LinesOf(d[l])
    BY <2>4 DEF HasLine
  <2>6. PICK j \in 1 .. Len(b) : b[j] = d[l]
    BY <1>13
  <2> QED
    BY <2>5, <2>6 DEF HasLine
<1>16. ASSUME NEW i \in 1 .. Len(d), NEW j \in 1 .. Len(d), i < j
       PROVE  Snip!LinesOf(d[i]) \cap Snip!LinesOf(d[j]) = {}
  <2>1. d[i] \in Span /\ d[j] \in Span
    BY <1>10
  <2> PICK f \in Nat : f = d[i].from
    BY <2>1, SpanIs
  <2> PICK l \in Nat : l = d[i].to
    BY <2>1, SpanIs
  <2> PICK g \in Nat : g = d[j].from
    BY <2>1, SpanIs
  <2> PICK k \in Nat : k = d[j].to
    BY <2>1, SpanIs
  <2>2. l + 1 < g
    BY <1>10, <1>16 DEF Apart
  <2>3. (f .. l) \cap (g .. k) = {}
    BY ONLY <2>2, f \in Nat, l \in Nat, g \in Nat, k \in Nat
  <2> QED
    BY <2>3 DEF Snip!LinesOf
<1>17. ASSUME NEW i \in 1 .. Len(b), NEW j \in 1 .. Len(b), i # j
       PROVE  Snip!LinesOf(b[i]) \cap Snip!LinesOf(b[j]) = {}
  <2>1. PICK k \in 1 .. Len(d) : b[i] = d[k]
    BY <1>14
  <2>2. PICK l \in 1 .. Len(d) : b[j] = d[l]
    BY <1>14
  <2>3. k # l
    BY <1>13, <1>17, <2>1, <2>2
  <2>4. k < l \/ l < k
    BY <1>10, <2>3
  <2>5. Snip!LinesOf(d[k]) \cap Snip!LinesOf(d[l]) = {}
    <3>1. CASE k < l
      BY <1>16, <3>1
    <3>2. CASE l < k
      BY <1>16, <3>2
    <3> QED
      BY <2>4, <3>1, <3>2
  <2> QED
    BY ONLY <2>1, <2>2, <2>5
<1>18. lines' = lines /\ merged' = merged /\ asked' = asked /\ shown' = shown
  BY DEF Snip!MergeBlocks
<1>19. (\A x \in asked : HasLine(blocks, x))'
  <2>1. \A x \in asked : HasLine(b, x)
    BY <1>15 DEF KeptInv
  <2> QED
    BY <1>18, <2>1 DEF HasLine
<1>20. (\A i, j \in 1 .. Len(blocks) : i # j =>
          Snip!LinesOf(blocks[i]) \cap Snip!LinesOf(blocks[j]) = {})'
  BY <1>17
<1> QED
  BY <1>1, <1>14, <1>18, <1>19, <1>20 DEF KeptInv

(* assemble_with_budget: the blocks in full come first.                    *)
Forms == {"full", "short", "none"}
FullFirst(forms) ==
  \A i, j \in 1 .. Len(forms) : i < j /\ forms[j] = "full" => forms[i] = "full"
Answers == [over : BOOLEAN, size : Nat, forms : Seq(Forms)]
Showing(a) ==
  /\ a \in Answers /\ FullFirst(a.forms)
  /\ ~a.over => \A i \in 1 .. Len(a.forms) : a.forms[i] = "full"

LEMMA FormAdded ==
  ASSUME NEW s \in Seq(Forms), NEW f \in Forms, FullFirst(s),
         f = "full" => \A i \in 1 .. Len(s) : s[i] = "full"
  PROVE  /\ Append(s, f) \in Seq(Forms) /\ FullFirst(Append(s, f))
         /\ f = "full" => \A i \in 1 .. Len(Append(s, f)) : Append(s, f)[i] = "full"
<1> PICK t : t = Append(s, f)
  OBVIOUS
<1> PICK n : n = Len(s)
  OBVIOUS
<1>1. /\ t \in Seq(Forms) /\ Len(t) = n + 1 /\ n \in Nat /\ t[n + 1] = f
      /\ \A i \in 1 .. n : t[i] = s[i]
  BY OneAppended
<1>2. \A i \in 1 .. n + 1 : i \in 1 .. n \/ i = n + 1
  BY <1>1
<1>3. f = "full" => \A i \in 1 .. n + 1 : t[i] = "full"
  BY <1>1, <1>2
<1>4. ASSUME NEW i \in 1 .. n + 1, NEW j \in 1 .. n + 1, i < j, t[j] = "full"
      PROVE  t[i] = "full"
  <2>1. CASE j = n + 1
    BY <1>1, <1>3, <1>4, <2>1
  <2>2. CASE j \in 1 .. n
    <3>1. i \in 1 .. n
      BY <1>1, <1>4, <2>2
    <3>2. s[j] = "full" /\ t[i] = s[i]
      BY <1>1, <1>4, <2>2, <3>1
    <3> QED
      BY <1>4, <2>2, <3>1, <3>2 DEF FullFirst
  <2> QED
    BY <1>2, <2>1, <2>2
<1> QED
  BY <1>1, <1>3, <1>4 DEF FullFirst

(* One block more: nothing is in full once the budget was passed.          *)
LEMMA ShowKeeps ==
  ASSUME NEW a, Showing(a), NEW r \in Span
  PROVE  Showing(Snip!Show(a, r))
<1>1. /\ a \in Answers /\ a.over \in BOOLEAN /\ a.size \in Nat /\ a.forms \in Seq(Forms)
      /\ FullFirst(a.forms)
      /\ ~a.over => \A i \in 1 .. Len(a.forms) : a.forms[i] = "full"
  BY DEF Showing, Answers
<1>2. r.from \in Nat /\ r.to \in Nat /\ r.from <= r.to /\ Budget \in Nat
  BY SpanIs, SnippetsOk DEF Snip!SnippetsAssumption
<1>3. a.size + Snip!Full(r) \in Nat /\ a.size + Snip!Short(r) \in Nat
  <2> PICK f \in Nat : f = r.from
    BY <1>2
  <2> PICK l \in Nat : l = r.to
    BY <1>2
  <2>1. f <= l
    BY <1>2
  <2>2. 1 + l - f + 1 \in Nat
    BY ONLY <2>1, f \in Nat, l \in Nat
  <2>3. Snip!Full(r) \in Nat /\ Snip!Short(r) \in Nat
    BY <2>2 DEF Snip!Full, Snip!Short
  <2> QED
    BY <1>1, <2>3
<1> PICK b : b = Snip!Show(a, r)
  OBVIOUS
<1>4. CASE ~a.over /\ a.size + Snip!Full(r) <= Budget
  <2>1. b = [a EXCEPT !.size = @ + Snip!Full(r), !.forms = Append(@, "full")]
    BY <1>4 DEF Snip!Show
  <2>2. /\ Append(a.forms, "full") \in Seq(Forms) /\ FullFirst(Append(a.forms, "full"))
        /\ \A i \in 1 .. Len(Append(a.forms, "full")) : Append(a.forms, "full")[i] = "full"
    BY <1>1, <1>4, FormAdded DEF Forms
  <2>3. b \in Answers /\ b.forms = Append(a.forms, "full")
    BY <1>1, <1>3, <2>1, <2>2 DEF Answers
  <2> QED
    BY <2>2, <2>3 DEF Showing
<1>5. CASE ~(~a.over /\ a.size + Snip!Full(r) <= Budget) /\ a.size + Snip!Short(r) <= Budget
  <2>1. b = [over |-> TRUE, size |-> a.size + Snip!Short(r), forms |-> Append(a.forms, "short")]
    BY <1>5 DEF Snip!Show
  <2>2. Append(a.forms, "short") \in Seq(Forms) /\ FullFirst(Append(a.forms, "short"))
    BY <1>1, FormAdded DEF Forms
  <2> QED
    BY <1>3, <2>1, <2>2 DEF Showing, Answers
<1>6. CASE ~(~a.over /\ a.size + Snip!Full(r) <= Budget) /\ ~(a.size + Snip!Short(r) <= Budget)
  <2>1. b = [a EXCEPT !.over = TRUE, !.forms = Append(@, "none")]
    BY <1>6 DEF Snip!Show
  <2>2. Append(a.forms, "none") \in Seq(Forms) /\ FullFirst(Append(a.forms, "none"))
    BY <1>1, FormAdded DEF Forms
  <2>3. b \in Answers /\ b.forms = Append(a.forms, "none") /\ b.over
    BY <1>1, <2>1, <2>2 DEF Answers
  <2> QED
    BY <2>2, <2>3 DEF Showing
<1> QED
  BY <1>4, <1>5, <1>6

LEMMA AssembleKeeps ==
  ASSUME KeptInv, Snip!Assemble
  PROVE  KeptInv'
<1> DEFINE N == Len(blocks)
           empty == [over |-> FALSE, size |-> 0, forms |-> <<>>]
           told[n \in 0 .. N] ==
             IF n = 0 THEN empty ELSE Snip!Show(told[n - 1], blocks[n])
           All == {a \in Answers : Showing(a)}
           taken == [p \in All \X (1 .. N) |-> Snip!Show(p[1], blocks[p[2]])]
<1>1. blocks \in Seq(Span) /\ N \in Nat
  BY DEF KeptInv
<1>2. shown' = told[N].forms
  BY DEF Snip!Assemble
<1>3. \A a : Showing(a) <=> a \in All
  BY DEF Showing
<1>4. taken \in [All \X (1 .. N) -> All]
  <2>1. ASSUME NEW a \in All, NEW n \in 1 .. N PROVE Snip!Show(a, blocks[n]) \in All
    BY <1>1, <1>3, ShowKeeps
  <2> HIDE DEF All
  <2> QED
    BY <2>1
<1>5. empty \in All
  <2>1. <<>> \in Seq(Forms) /\ FullFirst(<<>>)
    BY DEF FullFirst
  <2>2. empty \in Answers /\ empty.forms = <<>>
    BY <2>1 DEF Answers
  <2> QED
    BY <2>1, <2>2 DEF Showing
<1> HIDE DEF taken, All, empty
<1>6. PICK f \in [0 .. N -> All] : Runs(f, N, empty, taken)
  <2> HIDE DEF N
  <2> QED
    BY ONLY <1>1, <1>4, <1>5, Loop
<1>7. f = [n \in 0 .. N |-> IF n = 0 THEN empty ELSE Snip!Show(f[n - 1], blocks[n])]
  <2>1. f = [n \in 0 .. N |-> f[n]] /\ f[0] = empty
    BY <1>6 DEF Runs
  <2>2. ASSUME NEW n \in 1 .. N PROVE f[n] = Snip!Show(f[n - 1], blocks[n])
    <3>1. f[n - 1] \in All /\ f[n] = taken[<<f[n - 1], n>>]
      BY <1>6 DEF Runs
    <3> QED
      BY <3>1 DEF taken
  <2>3. \A n \in 0 .. N : n # 0 => n \in 1 .. N
    OBVIOUS
  <2> QED
    BY <2>1, <2>2, <2>3
<1>8. told = [n \in 0 .. N |-> IF n = 0 THEN empty ELSE Snip!Show(told[n - 1], blocks[n])]
  BY <1>7
<1> HIDE DEF told
<1>9. told[0] = empty /\ \A n \in 1 .. N : told[n] = Snip!Show(told[n - 1], blocks[n])
  BY <1>1, <1>8
<1> DEFINE T == {n \in 0 .. N : Showing(told[n])}
<1>10. 0 \in T
  BY <1>1, <1>3, <1>5, <1>9
<1>11. ASSUME NEW n \in 1 .. N, n - 1 \in T PROVE n \in T
  BY <1>1, <1>9, <1>11, ShowKeeps
<1>12. Showing(told[N])
  <2> HIDE DEF T
  <2>1. \A n \in 0 .. N : n \in T
    <3> HIDE DEF N
    <3> QED
      BY ONLY <1>1, <1>10, <1>11, UpTo
  <2>2. N \in 0 .. N
    BY <1>1
  <2> QED
    BY <2>1, <2>2 DEF T
<1>13. /\ progress = "joined" /\ progress' = "answered" /\ lines' = lines /\ blocks' = blocks
       /\ asked' = asked /\ merged' = merged
  BY DEF Snip!Assemble
<1>14. (\A i, j \in DOMAIN shown : i < j /\ shown[j] = "full" => shown[i] = "full")'
  <2>1. shown' \in Seq(Forms) /\ FullFirst(shown')
    BY <1>2, <1>12 DEF Showing, Answers
  <2>2. DOMAIN shown' = 1 .. Len(shown')
    BY <2>1
  <2> QED
    BY <2>1, <2>2 DEF FullFirst
<1>15. /\ (\A x \in asked : HasLine(blocks, x))'
       /\ (\A i, j \in 1 .. Len(blocks) : i # j =>
            Snip!LinesOf(blocks[i]) \cap Snip!LinesOf(blocks[j]) = {})'
  BY <1>13 DEF KeptInv, HasLine
<1> QED
  BY <1>1, <1>13, <1>14, <1>15 DEF KeptInv

LEMMA KeptStep == KeptInv /\ [Snip!Next]_(Snip!vars) => KeptInv'
<1> SUFFICES ASSUME KeptInv, [Snip!Next]_(Snip!vars) PROVE KeptInv'
  OBVIOUS
<1>1. CASE Snip!ChunkFile
  BY <1>1, ChunkFileKeeps
<1>2. CASE Snip!MergeChunks
  BY <1>2, MergeChunksKeeps
<1>3. CASE Snip!Select
  BY <1>3, SelectKeeps
<1>4. CASE Snip!Selected
  BY <1>4, SelectedKeeps
<1>5. CASE Snip!MergeBlocks
  BY <1>5, MergeBlocksKeeps
<1>6. CASE Snip!Assemble
  BY <1>6, AssembleKeeps
<1>7. CASE UNCHANGED Snip!vars
  <2>1. /\ progress' = progress /\ lines' = lines /\ blank' = blank /\ spans' = spans
        /\ chunks' = chunks /\ hits' = hits /\ merged' = merged /\ asked' = asked
        /\ blocks' = blocks /\ shown' = shown
    BY <1>7 DEF Snip!vars
  <2> QED
    BY <2>1 DEF KeptInv, InFile, HasLine, Snip!AllLines
<1> QED
  BY <1>1, <1>2, <1>3, <1>4, <1>5, <1>6, <1>7 DEF Snip!Next

LEMMA KeptInvIsEnough == KeptInv => Snip!LinesKept
<1> SUFFICES ASSUME KeptInv PROVE Snip!LinesKept
  OBVIOUS
<1>1. progress = "chunked" => (1 .. lines) \ blank \subseteq Snip!AllLines(chunks)
  BY DEF KeptInv
<1>2. \A c \in merged : c.text \in Seq(Nat) /\ DOMAIN c.text = 1 .. Len(c.text)
  <2>1. \A c \in merged : c.text \in Seq(Nat)
    BY PieceIs DEF KeptInv
  <2> QED
    BY <2>1
<1>3. \A c \in merged : \A x : Holds(c, x) => x \in Snip!Range(c.text)
  BY <1>2 DEF Holds, Snip!Range
<1>4. progress = "merged" /\ Snip!Cardinality(merged) < TopK =>
        Snip!AllLines(hits) \subseteq UNION {Snip!Range(c.text) : c \in merged}
  <2>1. progress = "merged" /\ Cardinality(merged) < TopK =>
          \A x \in Snip!AllLines(hits) : \E c \in merged : Holds(c, x)
    BY DEF KeptInv
  <2> QED
    BY <1>3, <2>1, SnipCounts
<1>5. ASSUME NEW c \in merged
      PROVE  /\ Snip!Range(c.text) \subseteq Snip!LinesOf(c)
             /\ \A i, j \in DOMAIN c.text : i < j => c.text[i] < c.text[j]
  <2>1. TextOk(c)
    BY DEF KeptInv
  <2> QED
    BY <1>2, <2>1 DEF TextOk, InOrder, Snip!Range, Snip!LinesOf
<1>6. DOMAIN blocks = 1 .. Len(blocks)
  BY DEF KeptInv
<1>7. asked \subseteq Snip!AllLines(Snip!Range(blocks))
  <2>1. ASSUME NEW x \in asked PROVE x \in Snip!AllLines(Snip!Range(blocks))
    <3>1. PICK i \in 1 .. Len(blocks) : x \in Snip!LinesOf(blocks[i])
      BY DEF KeptInv, HasLine
    <3>2. blocks[i] \in Snip!Range(blocks)
      BY <1>6 DEF Snip!Range
    <3> QED
      BY <3>1, <3>2 DEF Snip!AllLines
  <2> QED
    BY <2>1
<1>8. progress \in {"joined", "answered"} =>
        \A i, j \in DOMAIN blocks : i # j =>
          Snip!LinesOf(blocks[i]) \cap Snip!LinesOf(blocks[j]) = {}
  BY <1>6 DEF KeptInv
<1>9. \A i, j \in DOMAIN shown : i < j /\ shown[j] = "full" => shown[i] = "full"
  BY DEF KeptInv
<1> QED
  BY <1>1, <1>4, <1>5, <1>7, <1>8, <1>9 DEF Snip!LinesKept

-----------------------------------------------------------------------------
(* While a component works, a step is one of its own.                      *)
LEMMA ParsingWorks ==
  ASSUME component = "parsing" \/ component' = "parsing", [Next]_vars
  PROVE  /\ component = "parsing"
         /\ [Parse!Next]_(Parse!vars)
<1>1. component' = component
  BY DEF Next, vars
<1>2. Parse!Next \/ UNCHANGED parse_vars
  BY <1>1 DEF Next, vars
<1> QED
  BY <1>1, <1>2 DEF Parse!vars, parse_vars

LEMMA BridgeWorks ==
  ASSUME component = "bridge" \/ component' = "bridge", [Next]_vars
  PROVE  /\ component = "bridge"
         /\ [Bridged!Next]_(Bridged!vars)
<1>1. component' = component
  BY DEF Next, vars
<1>2. Bridged!Next \/ UNCHANGED bridged_vars
  BY <1>1 DEF Next, vars
<1> QED
  BY <1>1, <1>2 DEF Bridged!vars, bridged_vars, Bridged!state, Bridged!trigger

LEMMA SnippetsWork ==
  ASSUME component = "snippets" \/ component' = "snippets", [Next]_vars
  PROVE  /\ component = "snippets"
         /\ [Snip!Next]_(Snip!vars)
<1>1. component' = component
  BY DEF Next, vars
<1>2. Snip!Next \/ UNCHANGED snip_vars
  BY <1>1 DEF Next, vars
<1> QED
  BY <1>1, <1>2 DEF Snip!vars, snip_vars

LEMMA SettingsWork ==
  ASSUME component = "settings" \/ component' = "settings", [Next]_vars
  PROVE  /\ component = "settings"
         /\ [Settings!Next]_(Settings!vars)
<1>1. component' = component
  BY DEF Next, vars
<1>2. Settings!Next \/ UNCHANGED settings_vars
  BY <1>1 DEF Next, vars
<1> QED
  BY <1>1, <1>2 DEF Settings!vars, settings_vars

(* The visitors of parsing/mod.rs, for trees of any depth: an edge starts  *)
(* at the name of the symbol around it and a parent is the name of the     *)
(* symbol around it, whatever nests in what.                               *)
THEOREM ParsingNamesJoin == Spec => []NamesJoinUp
<1> DEFINE I == component = "parsing" => JoinInv
<1>1. Init => I
  BY JoinInit DEF Init
<1>2. I /\ [Next]_vars => I'
  BY JoinStep, ParsingWorks
<1>3. I => NamesJoinUp
  BY JoinInvIsEnough DEF NamesJoinUp
<1> QED
  BY <1>1, <1>2, <1>3, PTL DEF Spec

(* app.py and state.py, for any number of requests and blobs: files,       *)
(* owners and trigger stay in step through every interleaving at an await. *)
THEOREM BridgeTells == Spec => []EngineIsTold
<1> DEFINE I == component = "bridge" => ToldInv
<1> USE BridgeOk
<1>1. Init => I
  BY ToldInit DEF Init
<1>2. I /\ [Next]_vars => I'
  BY ToldStep, BridgeWorks
<1>3. I => EngineIsTold
  BY ToldInvIsEnough DEF EngineIsTold
<1> QED
  BY <1>1, <1>2, <1>3, PTL DEF Spec

(* merge_chunks, sanitize_ranges, merge_overlapping_blocks and             *)
(* assemble_with_budget, for files of any length, windows, strides no      *)
(* longer than them, caps, pads, hits, ranges and budgets: every line that *)
(* is not blank is in a chunk; what the merge makes has its lines in order *)
(* and none twice, and every line found unless TopK cuts it; what the      *)
(* model asked for is in the blocks; the blocks of the answer share no     *)
(* line, and none is shown in full after one that was not.                 *)
THEOREM SnippetsKeepLines == Spec => []LinesKept
<1> DEFINE I == component = "snippets" => KeptInv
<1>1. Init => I
  BY KeptInit DEF Init
<1>2. I /\ [Next]_vars => I'
  BY KeptStep, SnippetsWork
<1>3. I => LinesKept
  BY KeptInvIsEnough DEF LinesKept
<1> QED
  BY <1>1, <1>2, <1>3, PTL DEF Spec

(* put_config, for any number of concurrent requests: each entry of a      *)
(* repository into the live settings is claimed by one of them.            *)
THEOREM SettingsAddOnce == Spec => []AddedOnce
<1> DEFINE I == component = "settings" => OnceInv
<1>1. Init => I
  BY OnceInit DEF Init
<1>2. I /\ [Next]_vars => I'
  BY OnceStep, SettingsWork
<1>3. I => AddedOnce
  BY OnceInvIsEnough DEF AddedOnce
<1> QED
  BY <1>1, <1>2, <1>3, PTL DEF Spec

(* put_config, ensure_dir_and_load and main: the live list has been in the *)
(* file, up to spelling and repetitions, whatever a migration, a cleaning, *)
(* a failed rename, an edit by hand or a crash does to the file meanwhile. *)
THEOREM SettingsSaved == Spec => []MemoryWasSaved
<1> DEFINE I == component = "settings" => SavedInv
<1> USE SettingsOk
<1>1. Init => I
  BY SavedInit DEF Init
<1>2. I /\ [Next]_vars => I'
  BY SavedStep, SettingsWork
<1>3. I => MemoryWasSaved
  BY SavedInvIsEnough DEF MemoryWasSaved
<1> QED
  BY <1>1, <1>2, <1>3, PTL DEF Spec
=============================================================================
