--------------------------- MODULE GraphExpansion ---------------------------
(***************************************************************************)
(* The walk from the chunks a search found to their callers and callees:   *)
(* graph_expand of src/query/graph_expand.rs.  Every base chunk seeds a    *)
(* stack with its symbols; `seen` and `expanded` live as long as the whole *)
(* walk.  Scores are thousandths.                                          *)
(***************************************************************************)
EXTENDS Naturals, Sequences, FiniteSets, SequencesExt

CONSTANTS
  Symbols,        (* The symbols of the repository.                        *)
  BaseChunks,     (* The base chunks, numbered in the order of the search. *)
  Scores,         (* Scores a base chunk may have.                         *)
  MaxDepth,       (* 2 in the code.                                        *)
  MaxBonus,       (* MAX_BONUS_CHUNKS, 30 in the code.                     *)
  MaxCalls,       (* Bound on the size of the call graph.                  *)
  MaxOverlaps     (* Bound on the symbols of a base chunk.                 *)

(* The symbols are the rows of a table, the base chunks a list.            *)
ExpansionAssumption ==
  /\ IsFiniteSet(Symbols)
  /\ Cardinality(BaseChunks) \in Nat /\ BaseChunks = 1 .. Cardinality(BaseChunks)
  /\ Scores \subseteq Nat /\ MaxDepth \in Nat /\ MaxBonus \in Nat

CallerScore(score) == (score * 6) \div 10
CalleeScore(score) == (score * 5) \div 10
ScoreFloor == 150

VARIABLES
  graph,      (* The calls table: pairs <<caller, callee>>.                *)
  overlaps,   (* overlaps[b]: the symbols of base chunk b.                 *)
  covered,    (* The symbols whose first chunk is a base chunk.            *)
  score,      (* score[b]: the score of base chunk b.                      *)
  at,         (* The base chunk whose stack is worked off.                 *)
  stack,      (* Its stack (`queue` in the code), the top last.            *)
  seen,       (* global_seen                                               *)
  expanded    (* all_expanded                                              *)

input == <<graph, overlaps, covered, score>>
vars == <<input, at, stack, seen, expanded>>

Finished == Cardinality(BaseChunks) + 1
Entry(symbol, points, depth) == [symbol |-> symbol, score |-> points, depth |-> depth]
Entries(symbols, points, depth) ==
  [i \in DOMAIN symbols |-> Entry(symbols[i], points, depth)]

TypeOK ==
  /\ graph \subseteq Symbols \X Symbols
  /\ covered \subseteq Symbols /\ seen \subseteq Symbols
  /\ at \in 0 .. Finished
  /\ \A e \in Range(stack) \cup Range(expanded) :
       e.symbol \in Symbols /\ e.depth \in Nat
  /\ Len(expanded) <= MaxBonus

(* A symbol without a chunk of its own (a field, a variable) is left out;  *)
(* a base chunk that none overlaps seeds nothing.                          *)
Init ==
  /\ graph \in {g \in SUBSET (Symbols \X Symbols) : Cardinality(g) <= MaxCalls}
  /\ overlaps \in [BaseChunks -> {S \in SUBSET Symbols : Cardinality(S) <= MaxOverlaps}]
  /\ covered \in SUBSET UNION {overlaps[b] : b \in BaseChunks}
  /\ score \in [BaseChunks -> Scores]
  /\ at = 0 /\ stack = <<>> /\ seen = {} /\ expanded = <<>>

(* The next base chunk that has symbols, or the end of the walk.           *)
NextBase ==
  /\ stack = <<>> /\ at < Finished
  /\ at' = at + 1
  /\ \E order \in IF at' = Finished THEN {<<>>} ELSE SetToSeqs(overlaps[at']) :
       stack' = Entries(order, score[at'], 0)
  /\ UNCHANGED <<input, seen, expanded>>

(* What a query for callers or callees returns: none if the score is below *)
(* the floor or the query fails, and none beyond the LIMIT on its rows,    *)
(* which counts a caller once per call.                                    *)
Rows(found, points) == IF points < ScoreFloor THEN {{}} ELSE SUBSET found

(* The symbols of rows whose chunk is not a base chunk, in the order of    *)
(* the rows; one whose chunk is a base chunk is met but leads nowhere.     *)
Orders(symbols) == SetToSeqs(symbols \ covered)

Capped_Late(bonus) ==
  IF Len(bonus) <= MaxBonus + 1 THEN bonus ELSE SubSeq(bonus, 1, MaxBonus + 1)

(* Chunks are taken while there are fewer than the cap.                    *)
Capped(bonus) == IF Len(bonus) <= MaxBonus THEN bonus ELSE SubSeq(bonus, 1, MaxBonus)

(* First the callers of top, then its callees: what was met before is      *)
(* skipped, however it was met; the rest is pushed, and taken up to the    *)
(* cap.                                                                    *)
MeetAround(top) ==
  \E callers \in Rows({s \in Symbols : <<s, top.symbol>> \in graph}, CallerScore(top.score)),
     callees \in Rows({s \in Symbols : <<top.symbol, s>> \in graph}, CalleeScore(top.score)) :
  \E up \in Orders(callers \ seen), down \in Orders(callees \ (seen \cup callers)) :
    LET met == Entries(up, CallerScore(top.score), top.depth + 1)
                 \o Entries(down, CalleeScore(top.score), top.depth + 1)
    IN  /\ stack' = Front(stack) \o met
        /\ expanded' = Capped(expanded \o met)
        /\ seen' = seen \cup callers \cup callees
        /\ UNCHANGED at

Pop_OneDeeper ==
  /\ stack # <<>>
  /\ LET top == Last(stack) IN
     \/ /\ top.depth > MaxDepth
        /\ stack' = Front(stack) /\ UNCHANGED <<at, seen, expanded>>
     \/ /\ top.depth <= MaxDepth /\ Len(expanded) >= MaxBonus
        /\ stack' = <<>> /\ at' = Finished /\ UNCHANGED <<seen, expanded>>
     \/ /\ top.depth <= MaxDepth /\ Len(expanded) < MaxBonus
        /\ MeetAround(top)
  /\ UNCHANGED input

(* The top of the stack: too deep; or the walk is full and ends; or its    *)
(* callers and its callees.                                                *)
Pop ==
  /\ stack # <<>>
  /\ LET top == Last(stack) IN
     \/ /\ top.depth >= MaxDepth
        /\ stack' = Front(stack) /\ UNCHANGED <<at, seen, expanded>>
     \/ /\ top.depth < MaxDepth /\ Len(expanded) >= MaxBonus
        /\ stack' = <<>> /\ at' = Finished /\ UNCHANGED <<seen, expanded>>
     \/ /\ top.depth < MaxDepth /\ Len(expanded) < MaxBonus
        /\ MeetAround(top)
  /\ UNCHANGED input

Next == NextBase \/ Pop

Spec == Init /\ [][Next]_vars

-----------------------------------------------------------------------------
Linked(s, t) == <<s, t>> \in graph \/ <<t, s>> \in graph

(* The symbol is n calls away from one of a base chunk, in either          *)
(* direction.                                                              *)
Away(symbol, n) ==
  \E path \in [0 .. n - 1 -> Symbols] :
    /\ path[0] \in UNION {overlaps[b] : b \in BaseChunks}
    /\ \A i \in 1 .. n - 1 : Linked(path[i - 1], path[i])
    /\ Linked(path[n - 1], symbol)

(* The bonus chunks are no more than the cap, none of them twice and none  *)
(* of them already found by the search; and each is at most two calls away *)
(* from a base chunk, as the depth it was met at says, along whichever     *)
(* path and from whichever base chunk the walk met it first.               *)
BonusIsNear ==
  /\ Len(expanded) <= MaxBonus
  /\ \A i, j \in DOMAIN expanded :
       expanded[i].symbol = expanded[j].symbol => i = j
  /\ \A i \in DOMAIN expanded :
       LET e == expanded[i]
       IN  /\ e.symbol \notin covered /\ e.score >= ScoreFloor
           /\ e.depth \in 1 .. MaxDepth /\ Away(e.symbol, e.depth)
=============================================================================
