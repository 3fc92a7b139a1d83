----------------------------- MODULE QueryProofs ----------------------------
(***************************************************************************)
(* A query and the conversation with the model it holds: what the agentic  *)
(* loop fetched is not given up unread, what it selects stays within the   *)
(* character budget and reaches the answer, the two passes over the keys   *)
(* leave the refused ones alone, every request is a conversation the       *)
(* provider accepts, and the expansion along the call graph adds only what *)
(* is near; for every bound on hits, turns, characters and chunks, any     *)
(* number of keys, every call graph, depth and cap.  And the embeddings of *)
(* a file, which the search compares the query with, have one dimension.   *)
(*                                                                         *)
(* The invariants and the steps are those of the four components, the      *)
(* theorems those of their composition in MCComponents.                    *)
(***************************************************************************)
EXTENDS MCComponents, Integers, Sequences, FiniteSetTheorems, SequenceTheorems, TLAPS,
        WellFoundedInduction

(* The agentic loop.                                                       *)
Before == {"embed", "search", "filter", "expand", "merge", "rerank"}
Working == {"turn", "calls"}
Over == {"finish", "harvest", "decide", "done", "failed"}

(* The flag of the code and the history agree until the final turn, and    *)
(* no selection was made since the flag was set; the loop has its initial  *)
(* exit until it ends; and a budget or a cap ends it only after a          *)
(* selection, or with the flag for the final turn.                         *)
HarvestInv ==
  /\ stage \in Before \cup Working \cup Over
  /\ pending \in BOOLEAN /\ unharvested \in BOOLEAN /\ awaiting \in BOOLEAN
  /\ exit \in Query!Exits
  /\ stage \in Before => ~pending
  /\ stage \in Before \cup Working => exit = "IterationCap"
  /\ pending => unharvested /\ ~awaiting
  /\ stage = "finish" /\ pending
       => exit \in {"LlmError", "AgentDone", "ByteCap", "IterationCap"}
  /\ stage \in {"decide", "done"} /\ pending
       => exit \in {"LlmError", "AgentDone"}

LEMMA HarvestInit == Query!Init => HarvestInv
BY DEF Query!Init, HarvestInv, Before, Working, Over, Query!Exits

LEMMA HarvestStep == HarvestInv /\ [Query!Next]_(Query!vars) => HarvestInv'
<1> SUFFICES ASSUME HarvestInv, [Query!Next]_(Query!vars) PROVE HarvestInv'
  OBVIOUS
<1> USE DEF HarvestInv, Before, Working, Over, Query!Exits
<1>1. CASE Query!EmbedQuery
  BY <1>1 DEF Query!EmbedQuery, Query!search, Query!limits, Query!loop
<1>2. CASE Query!VectorSearch
  BY <1>2 DEF Query!VectorSearch, Query!limits, Query!loop
<1>3. CASE Query!ApplyFilters
  BY <1>3 DEF Query!ApplyFilters, Query!limits, Query!loop
<1>4. CASE Query!GraphExpand
  BY <1>4 DEF Query!GraphExpand, Query!limits, Query!loop
<1>5. CASE Query!MergeChunks
  BY <1>5 DEF Query!MergeChunks, Query!limits
<1>6. CASE Query!RerankAtOnce
  BY <1>6 DEF Query!RerankAtOnce, Query!Answer, Query!search, Query!limits,
       Query!loop
<1>7. CASE Query!StartLoop
  BY <1>7 DEF Query!StartLoop, Query!Answer, Query!search, Query!limits,
       Query!loop
<1>8. CASE Query!EndLoop
  BY <1>8 DEF Query!EndLoop, Query!search, Query!limits
<1>9. CASE Query!TakeTurn
  BY <1>9 DEF Query!TakeTurn, Query!search, Query!limits
<1>10. CASE Query!AddChunks
  BY <1>10 DEF Query!AddChunks, Query!search, Query!limits
<1>11. CASE Query!Query
  <2>1. stage = "calls" /\ stage' = stage /\ exit' = exit /\ awaiting' = FALSE
    BY <1>11 DEF Query!Query
  <2>2. CASE pending' = pending /\ unharvested' = unharvested
    BY <2>1, <2>2
  <2>3. CASE pending' = TRUE /\ unharvested' = TRUE
    BY <2>1, <2>3
  <2> QED
    BY <1>11, <2>2, <2>3 DEF Query!Query
<1>12. CASE Query!EndTurn
  BY <1>12 DEF Query!EndTurn, Query!search, Query!limits
<1>13. CASE Query!Finish
  BY <1>13 DEF Query!Finish, Query!search, Query!limits, Query!loop
<1>14. CASE Query!Harvest
  BY <1>14 DEF Query!Harvest, Query!search, Query!limits
<1>15. CASE Query!Decide
  BY <1>15 DEF Query!Decide, Query!Answer, Query!search, Query!limits,
       Query!loop
<1>16. CASE UNCHANGED Query!vars
  BY <1>16 DEF Query!vars, Query!search, Query!limits, Query!loop
<1> QED
  BY <1>1, <1>2, <1>3, <1>4, <1>5, <1>6, <1>7, <1>8, <1>9, <1>10, <1>11, <1>12,
     <1>13, <1>14, <1>15, <1>16 DEF Query!Next

-----------------------------------------------------------------------------
Left == charBudget = 0 \/ chars < charBudget

(* While the model may still select, the budget is not spent; and a cap    *)
(* that may grant the final turn ended the loop before it was.             *)
BudgetInv ==
  /\ chars \in Nat /\ charBudget \in Nat
  /\ stage \in Before \cup Working \cup {"harvest"} => Left
  /\ stage = "finish" /\ exit \in {"ByteCap", "IterationCap"} => Left

(* handle_add_chunks adds up sizes.                                        *)
LEMMA SelectAdds ==
  ASSUME Query!RetrievalAssumption, chars \in Nat, Query!Select
  PROVE  chars' \in Nat
<1>1. PICK picked \in Query!SeqOf((1 .. pool) \ Query!Range(accumulated), 2) :
        IF picked = <<>> THEN chars' = chars
        ELSE \E size \in Sizes : chars' = chars + Len(picked) * size
  BY DEF Query!Select
<1>2. Len(picked) \in Nat
  BY DEF Query!SeqOf
<1>3. ASSUME NEW size \in Sizes PROVE Len(picked) * size \in Nat
  <2>1. size \in Nat
    BY DEF Query!RetrievalAssumption
  <2> QED
    BY <1>2, <2>1
<1> QED
  BY <1>1, <1>3

LEMMA BudgetInit == Query!RetrievalAssumption /\ Query!Init => BudgetInv
BY DEF Query!RetrievalAssumption, Query!Init, BudgetInv, Left

LEMMA BudgetStep ==
  ASSUME Query!RetrievalAssumption, BudgetInv, [Query!Next]_(Query!vars)
  PROVE  BudgetInv' /\ [Query!SelectsWithinBudget]_(Query!vars)
<1> USE DEF BudgetInv, Left, Before, Working, Query!SelectsWithinBudget
<1>1. CASE Query!EmbedQuery
  BY <1>1 DEF Query!EmbedQuery, Query!limits, Query!loop
<1>2. CASE Query!VectorSearch
  BY <1>2 DEF Query!VectorSearch, Query!limits, Query!loop
<1>3. CASE Query!ApplyFilters
  BY <1>3 DEF Query!ApplyFilters, Query!limits, Query!loop
<1>4. CASE Query!GraphExpand
  BY <1>4 DEF Query!GraphExpand, Query!limits, Query!loop
<1>5. CASE Query!MergeChunks
  BY <1>5 DEF Query!MergeChunks, Query!limits
<1>6. CASE Query!RerankAtOnce
  BY <1>6 DEF Query!RerankAtOnce, Query!Answer, Query!limits, Query!loop
<1>7. CASE Query!StartLoop
  BY <1>7 DEF Query!StartLoop, Query!Answer, Query!limits, Query!loop
<1>8. CASE Query!EndLoop
  BY <1>8 DEF Query!EndLoop, Query!limits
<1>9. CASE Query!TakeTurn
  BY <1>9 DEF Query!TakeTurn, Query!limits
<1>10. CASE Query!AddChunks
  <2>1. chars' \in Nat
    BY <1>10, SelectAdds DEF Query!AddChunks
  <2>2. stage = "calls" /\ charBudget' = charBudget
    BY <1>10 DEF Query!AddChunks, Query!limits
  <2>3. CASE Query!Spent
    BY <1>10, <2>1, <2>2, <2>3 DEF Query!AddChunks
  <2>4. CASE ~Query!Spent
    BY <1>10, <2>1, <2>2, <2>4 DEF Query!AddChunks, Query!Spent
  <2> QED
    BY <2>3, <2>4
<1>11. CASE Query!Query
  BY <1>11 DEF Query!Query, Query!limits
<1>12. CASE Query!EndTurn
  BY <1>12 DEF Query!EndTurn, Query!limits
<1>13. CASE Query!Finish
  BY <1>13 DEF Query!Finish, Query!limits, Query!loop
<1>14. CASE Query!Harvest
  <2>1. chars' \in Nat
    BY <1>14, SelectAdds DEF Query!Harvest
  <2> QED
    BY <1>14, <2>1 DEF Query!Harvest, Query!limits
<1>15. CASE Query!Decide
  BY <1>15 DEF Query!Decide, Query!Answer, Query!limits, Query!loop
<1>16. CASE UNCHANGED Query!vars
  BY <1>16 DEF Query!vars, Query!limits, Query!loop
<1> QED
  BY <1>1, <1>2, <1>3, <1>4, <1>5, <1>6, <1>7, <1>8, <1>9, <1>10, <1>11, <1>12,
     <1>13, <1>14, <1>15, <1>16 DEF Query!Next

-----------------------------------------------------------------------------
(* A selection names chunks of the pool, which never shrinks; before the   *)
(* candidates are known there is neither; and the loop runs only with      *)
(* candidates.                                                             *)
StandsInv ==
  /\ base \in Nat /\ pool \in Nat
  /\ accumulated \in Seq(1 .. pool)
  /\ stage \in Before => accumulated = <<>> /\ answer = <<>> /\ ~fallback
  /\ stage \in Before \ {"rerank"} => base = 0
  /\ stage \in Working \cup {"finish", "harvest", "decide"} => base > 0
  /\ Query!SelectionStands

LEMMA StandsInit == Query!Init => StandsInv
BY DEF Query!Init, StandsInv, Before, Working, Query!SelectionStands

LEMMA SelectStays ==
  ASSUME pool \in Nat, accumulated \in Seq(1 .. pool), Query!Select
  PROVE  accumulated' \in Seq(1 .. pool)
<1> DEFINE P == 1 .. pool
<1>1. PICK picked \in Query!SeqOf(P \ Query!Range(accumulated), 2) :
        accumulated' = accumulated \o picked
  BY DEF Query!Select
<1>2. picked \in Seq(P)
  <2> DEFINE Q == P \ Query!Range(accumulated)
  <2> HIDE DEF Q
  <2>1. PICK m \in 0 .. 2 : picked \in [1 .. m -> Q]
    BY DEF Query!SeqOf, Q
  <2>2. Q \subseteq P
    BY DEF Q
  <2> HIDE DEF P
  <2>3. picked \in Seq(P)
    BY <2>1, <2>2
  <2> QED
    BY <2>3
<1>3. accumulated \in Seq(P)
  OBVIOUS
<1> HIDE DEF P
<1>4. accumulated \o picked \in Seq(P)
  BY <1>2, <1>3, ConcatProperties
<1> QED
  BY <1>1, <1>4 DEF P

LEMMA BoundsKeepAll ==
  ASSUME NEW n \in Nat, NEW s \in Seq(1 .. n)
  PROVE  Query!InBounds(s, n) = s
<1>1. Query!Range(s) \subseteq 1 .. n
  BY DEF Query!Range
<1> QED
  BY <1>1 DEF Query!InBounds

LEMMA StandsStep == StandsInv /\ [Query!Next]_(Query!vars) => StandsInv'
<1> SUFFICES ASSUME StandsInv, [Query!Next]_(Query!vars) PROVE StandsInv'
  OBVIOUS
<1> USE DEF StandsInv, Before, Working, Query!SelectionStands
<1>1. CASE Query!EmbedQuery
  BY <1>1 DEF Query!EmbedQuery, Query!search, Query!limits, Query!loop
<1>2. CASE Query!VectorSearch
  BY <1>2 DEF Query!VectorSearch, Query!limits, Query!loop
<1>3. CASE Query!ApplyFilters
  BY <1>3 DEF Query!ApplyFilters, Query!limits, Query!loop
<1>4. CASE Query!GraphExpand
  BY <1>4 DEF Query!GraphExpand, Query!limits, Query!loop
<1>5. CASE Query!MergeChunks
  <2>1. base' \in Nat
    BY <1>5 DEF Query!MergeChunks
  <2> QED
    BY <1>5, <2>1 DEF Query!MergeChunks, Query!limits
<1>6. CASE Query!RerankAtOnce
  BY <1>6 DEF Query!RerankAtOnce, Query!Answer, Query!search, Query!limits,
       Query!loop
<1>7. CASE Query!StartLoop
  BY <1>7 DEF Query!StartLoop, Query!Answer, Query!search, Query!limits,
       Query!loop
<1>8. CASE Query!EndLoop
  BY <1>8 DEF Query!EndLoop, Query!search, Query!limits
<1>9. CASE Query!TakeTurn
  BY <1>9 DEF Query!TakeTurn, Query!search, Query!limits
<1>10. CASE Query!AddChunks
  <2>1. accumulated' \in Seq(1 .. pool)
    BY <1>10, SelectStays DEF Query!AddChunks
  <2>2. stage' \in {"calls", "finish"} /\ stage = "calls"
    BY <1>10 DEF Query!AddChunks
  <2> QED
    BY <1>10, <2>1, <2>2 DEF Query!AddChunks, Query!search, Query!limits
<1>11. CASE Query!Query
  <2>1. pool' \in Nat /\ pool <= pool' /\ accumulated' = accumulated
    BY <1>11 DEF Query!Query
  <2>2. accumulated' \in Seq(1 .. pool')
    BY <2>1
  <2>3. stage = "calls" /\ stage' = stage /\ base' = base
    BY <1>11 DEF Query!Query, Query!search
  <2> QED
    BY <2>1, <2>2, <2>3
<1>12. CASE Query!EndTurn
  BY <1>12 DEF Query!EndTurn, Query!search, Query!limits
<1>13. CASE Query!Finish
  BY <1>13 DEF Query!Finish, Query!search, Query!limits, Query!loop
<1>14. CASE Query!Harvest
  <2>1. accumulated' \in Seq(1 .. pool)
    BY <1>14, SelectStays DEF Query!Harvest
  <2> QED
    BY <1>14, <2>1 DEF Query!Harvest, Query!search, Query!limits
<1>15. CASE Query!Decide
  <2>1. stage = "decide" /\ stage' = "done"
        /\ UNCHANGED <<mode, base, pool, accumulated, exit>>
    BY <1>15 DEF Query!Decide, Query!Answer, Query!search, Query!loop
  <2>2. base > 0 /\ base \in Nat /\ Query!Indices(base) # <<>>
    BY <2>1 DEF Query!Indices
  <2>3. CASE accumulated # <<>>
    <3>1. Query!InBounds(accumulated, pool) = accumulated
      BY BoundsKeepAll
    <3> QED
      BY <1>15, <2>1, <2>3, <3>1 DEF Query!Decide, Query!Answer
  <2>4. CASE accumulated = <<>>
    BY <1>15, <2>1, <2>2, <2>4 DEF Query!Decide, Query!Answer
  <2> QED
    BY <2>3, <2>4
<1>16. CASE UNCHANGED Query!vars
  BY <1>16 DEF Query!vars, Query!search, Query!limits, Query!loop
<1> QED
  BY <1>1, <1>2, <1>3, <1>4, <1>5, <1>6, <1>7, <1>8, <1>9, <1>10, <1>11, <1>12,
     <1>13, <1>14, <1>15, <1>16 DEF Query!Next

-----------------------------------------------------------------------------
(* The keys of the model's client.                                         *)
(* The key at offset j of a pass that begins with key f.                   *)
KeyAt(f, j) == (f + j) % NKeys

LEMMA KeyAtIs ==
  ASSUME Llm!LlmAssumption, NEW f \in Llm!Keys, NEW j \in Llm!Keys
  PROVE  KeyAt(f, j) = IF f + j < NKeys THEN f + j ELSE f + j - NKeys
<1> DEFINE q == (f + j) \div NKeys
           r == (f + j) % NKeys
<1>1. NKeys \in Nat \ {0} /\ f \in 0 .. NKeys - 1 /\ j \in 0 .. NKeys - 1
  BY DEF Llm!LlmAssumption, Llm!Keys
<1>2. q \in Int /\ r \in 0 .. NKeys - 1 /\ f + j = NKeys * q + r
  BY <1>1, SMT
<1>3. r = KeyAt(f, j)
  BY DEF KeyAt
<1> HIDE DEF q, r
<1>4. q >= 0
  BY <1>1, <1>2, SMT
<1>5. q < 2
  BY <1>1, <1>2, SMT
<1>6. CASE q = 0
  BY <1>1, <1>2, <1>3, <1>6
<1>7. CASE q = 1
  BY <1>1, <1>2, <1>3, <1>7
<1> QED
  BY <1>2, <1>4, <1>5, <1>6, <1>7

(* A pass meets every key, and none of them twice.                         *)
LEMMA PassIsComplete ==
  ASSUME Llm!LlmAssumption, NEW f \in Llm!Keys
  PROVE  /\ \A j \in Llm!Keys : KeyAt(f, j) \in Llm!Keys
         /\ \A i, j \in Llm!Keys : KeyAt(f, i) = KeyAt(f, j) => i = j
         /\ \A k \in Llm!Keys : \E j \in Llm!Keys : KeyAt(f, j) = k
<1>1. \A j \in Llm!Keys :
        KeyAt(f, j) = IF f + j < NKeys THEN f + j ELSE f + j - NKeys
  BY KeyAtIs
<1>2. NKeys \in Nat \ {0}
  BY DEF Llm!LlmAssumption
<1>3. \A j \in Llm!Keys : KeyAt(f, j) \in Llm!Keys
  BY <1>1, <1>2 DEF Llm!Keys
<1>4. \A i, j \in Llm!Keys : KeyAt(f, i) = KeyAt(f, j) => i = j
  BY <1>1, <1>2 DEF Llm!Keys
<1>5. ASSUME NEW k \in Llm!Keys PROVE \E j \in Llm!Keys : KeyAt(f, j) = k
  <2> DEFINE j == IF k >= f THEN k - f ELSE k + NKeys - f
  <2>1. j \in Llm!Keys
    BY <1>2 DEF Llm!Keys
  <2>2. KeyAt(f, j) = IF f + j < NKeys THEN f + j ELSE f + j - NKeys
    BY <1>1, <2>1
  <2>3. KeyAt(f, j) = k
    BY <1>2, <2>2 DEF Llm!Keys
  <2> QED
    BY <2>1, <2>3
<1> QED
  BY <1>3, <1>4, <1>5

(* Number of uses of the key at offset j, if it was refused or not.        *)
Tried(j, n) == uses[KeyAt(first, j)] = n
Refused(j) == KeyAt(first, j) \in refused

(* The marks are the refused keys; and the uses of every key are known in  *)
(* each pass by its offset.                                                *)
KeyInv ==
  /\ first \in Llm!Keys /\ rotor \in Llm!Keys /\ passed \in Llm!Keys
  /\ limited = refused
  /\ uses \in [Llm!Keys -> Nat]
  /\ \A j \in Llm!Keys : Refused(j) => Tried(j, 1)
  /\ place = "try" => \A j \in Llm!Keys :
       IF j < passed THEN Tried(j, 1) ELSE Tried(j, 0) /\ ~Refused(j)
  /\ place = "backoff" => passed = 0 /\ \A j \in Llm!Keys : Tried(j, 1)
  /\ place = "retry" => \A j \in Llm!Keys :
       IF j < passed /\ ~Refused(j) THEN Tried(j, 2) ELSE Tried(j, 1)
  /\ place = "failed" => \A j \in Llm!Keys : ~Refused(j) => Tried(j, 2)
  /\ refused \subseteq Llm!Keys

LEMMA KeyInit == Llm!LlmAssumption /\ Llm!Init => KeyInv
<1> SUFFICES ASSUME Llm!LlmAssumption, Llm!Init PROVE KeyInv
  OBVIOUS
<1>1. 0 \in Llm!Keys
  BY DEF Llm!LlmAssumption, Llm!Keys
<1> QED
  BY <1>1 DEF Llm!Init, KeyInv, Tried, Refused

(* A request begins.                                                       *)
LEMMA BeginKeeps ==
  ASSUME Llm!LlmAssumption, KeyInv, Llm!BeginRequest
  PROVE  KeyInv'
<1>1. 0 \in Llm!Keys /\ (rotor + 1) % NKeys \in Llm!Keys
  BY DEF Llm!LlmAssumption, Llm!Keys, KeyInv
<1>2. \A j \in Llm!Keys : KeyAt(rotor, j) \in Llm!Keys
  BY PassIsComplete DEF KeyInv
<1>3. /\ first' = rotor /\ rotor' = (rotor + 1) % NKeys /\ passed' = 0
      /\ limited' = {} /\ refused' = {} /\ place' = "try"
      /\ uses' = [k \in Llm!Keys |-> 0]
  BY DEF Llm!BeginRequest
<1>4. \A j \in Llm!Keys : ~(j < 0)
  BY DEF Llm!Keys
<1>5. \A j \in Llm!Keys : Tried(j, 0)' /\ ~Refused(j)'
  BY <1>2, <1>3 DEF Tried, Refused, KeyAt
<1> QED
  BY <1>1, <1>3, <1>4, <1>5 DEF KeyInv

(* What a use of the current key does to the counts.                       *)
LEMMA UseCounts ==
  ASSUME Llm!LlmAssumption, KeyInv, Llm!UseKey
  PROVE  /\ uses' \in [Llm!Keys -> Nat]
         /\ \A j \in Llm!Keys : uses'[KeyAt(first, j)] =
              IF j = passed THEN uses[KeyAt(first, j)] + 1 ELSE uses[KeyAt(first, j)]
<1>1. Llm!Key = KeyAt(first, passed)
  BY DEF Llm!Key, KeyAt
<1>2. /\ \A j \in Llm!Keys : KeyAt(first, j) \in Llm!Keys
      /\ \A i, j \in Llm!Keys : KeyAt(first, i) = KeyAt(first, j) => i = j
  BY PassIsComplete DEF KeyInv
<1>3. uses \in [Llm!Keys -> Nat] /\ passed \in Llm!Keys /\ Llm!Key \in Llm!Keys
  BY <1>1, <1>2 DEF KeyInv
<1>4. uses' = [uses EXCEPT ![Llm!Key] = @ + 1]
  BY DEF Llm!UseKey
<1>5. uses[Llm!Key] + 1 \in Nat
  BY <1>3
<1>6. uses' \in [Llm!Keys -> Nat]
  BY <1>3, <1>4, <1>5
<1>7. ASSUME NEW j \in Llm!Keys
      PROVE  uses'[KeyAt(first, j)] =
               IF j = passed THEN uses[KeyAt(first, j)] + 1 ELSE uses[KeyAt(first, j)]
  <2>1. KeyAt(first, j) \in Llm!Keys
    BY <1>2
  <2>2. CASE j = passed
    BY <1>1, <1>3, <1>4, <2>2
  <2>3. CASE j # passed
    BY <1>1, <1>2, <1>3, <1>4, <2>1, <2>3
  <2> QED
    BY <2>2, <2>3
<1> QED
  BY <1>6, <1>7

(* Nothing about the keys changes, and no pass begins or ends.             *)
LEMMA RestKeeps ==
  ASSUME KeyInv, UNCHANGED <<rotor, Llm!request>>,
         place' = place \/ place' \in {"loop", "calls", "done"}
  PROVE  KeyInv'
BY DEF KeyInv, Tried, Refused, KeyAt, Llm!request

LEMMA KeyFailsKeeps ==
  ASSUME Llm!LlmAssumption, KeyInv, Llm!KeyFails
  PROVE  KeyInv'
<1>1. /\ uses' \in [Llm!Keys -> Nat]
      /\ \A j \in Llm!Keys : uses'[KeyAt(first, j)] =
           IF j = passed THEN uses[KeyAt(first, j)] + 1 ELSE uses[KeyAt(first, j)]
  BY UseCounts DEF Llm!KeyFails
<1>2. /\ place = "try" /\ rotor' = rotor /\ first' = first
      /\ \/ limited' = limited \cup {Llm!Key} /\ refused' = refused \cup {Llm!Key}
         \/ limited' = limited /\ refused' = refused
  BY DEF Llm!KeyFails
<1>3. Llm!Key = KeyAt(first, passed)
  BY DEF Llm!Key, KeyAt
<1>4. /\ \A j \in Llm!Keys : KeyAt(first, j) \in Llm!Keys
      /\ \A i, j \in Llm!Keys : KeyAt(first, i) = KeyAt(first, j) => i = j
  BY PassIsComplete DEF KeyInv
<1>5. passed \in Llm!Keys /\ first \in Llm!Keys /\ rotor \in Llm!Keys
  BY DEF KeyInv
<1>6. limited' = refused' /\ refused' \subseteq Llm!Keys
  BY <1>2, <1>3, <1>4, <1>5 DEF KeyInv
<1>7. \A j \in Llm!Keys : j # passed => (Refused(j)' <=> Refused(j))
  BY <1>2, <1>3, <1>4, <1>5 DEF Refused, KeyAt
<1>8. ASSUME NEW j \in Llm!Keys
      PROVE  IF j < passed + 1 THEN Tried(j, 1)' ELSE Tried(j, 0)' /\ ~Refused(j)'
  <2>1. IF j < passed THEN Tried(j, 1) ELSE Tried(j, 0) /\ ~Refused(j)
    BY <1>2 DEF KeyInv
  <2>2. uses'[KeyAt(first', j)] =
          IF j = passed THEN uses[KeyAt(first, j)] + 1 ELSE uses[KeyAt(first, j)]
    BY <1>1, <1>2
  <2>3. j < passed + 1 <=> j < passed \/ j = passed
    BY <1>5 DEF Llm!LlmAssumption, Llm!Keys
  <2>4. j = passed => ~(j < passed)
    BY <1>5 DEF Llm!LlmAssumption, Llm!Keys
  <2> QED
    BY <1>7, <2>1, <2>2, <2>3, <2>4 DEF Tried
<1>9. \A j \in Llm!Keys : Refused(j)' => Tried(j, 1)'
  BY <1>8
<1>10. CASE passed + 1 < NKeys
  <2>1. passed' = passed + 1 /\ place' = "try" /\ passed' \in Llm!Keys
    BY <1>2, <1>5, <1>10 DEF Llm!KeyFails, Llm!NextKey, Llm!Keys,
         Llm!LlmAssumption
  <2> QED
    BY <1>1, <1>2, <1>5, <1>6, <1>8, <1>9, <2>1 DEF KeyInv
<1>11. CASE ~(passed + 1 < NKeys)
  <2>1. passed' = 0 /\ place' = "backoff" /\ 0 \in Llm!Keys
    BY <1>11 DEF Llm!KeyFails, Llm!NextKey, Llm!Keys, Llm!LlmAssumption
  <2>2. \A j \in Llm!Keys : j < passed + 1
    BY <1>5, <1>11 DEF Llm!Keys, Llm!LlmAssumption
  <2>3. \A j \in Llm!Keys : Tried(j, 1)'
    BY <1>8, <2>2
  <2> QED
    BY <1>1, <1>2, <1>5, <1>6, <1>9, <2>1, <2>3 DEF KeyInv
<1> QED
  BY <1>10, <1>11

LEMMA RetryFailsKeeps ==
  ASSUME Llm!LlmAssumption, KeyInv, Llm!RetryFails
  PROVE  KeyInv'
<1>1. /\ place = "retry" /\ rotor' = rotor /\ first' = first
      /\ limited' = limited /\ refused' = refused
  BY DEF Llm!RetryFails
<1>2. Llm!Key = KeyAt(first, passed)
  BY DEF Llm!Key, KeyAt
<1>3. passed \in Llm!Keys /\ first \in Llm!Keys /\ limited = refused
  BY DEF KeyInv
<1>4. \A j \in Llm!Keys : Refused(j)' <=> Refused(j)
  BY <1>1 DEF Refused, KeyAt
<1>5. /\ uses' \in [Llm!Keys -> Nat]
      /\ \A j \in Llm!Keys : uses'[KeyAt(first, j)] =
           IF j = passed /\ ~Refused(j)
           THEN uses[KeyAt(first, j)] + 1 ELSE uses[KeyAt(first, j)]
  <2>1. CASE Refused(passed)
    <3>1. uses' = uses
      BY <1>2, <1>3, <2>1 DEF Llm!RetryFails, Refused
    <3> QED
      BY <2>1, <3>1 DEF KeyInv
  <2>2. CASE ~Refused(passed)
    <3>1. Llm!UseKey
      BY <1>2, <1>3, <2>2 DEF Llm!RetryFails, Refused
    <3> QED
      BY <2>2, <3>1, UseCounts
  <2> QED
    BY <2>1, <2>2
<1>6. ASSUME NEW j \in Llm!Keys
      PROVE  IF j < passed + 1 /\ ~Refused(j)' THEN Tried(j, 2)' ELSE Tried(j, 1)'
  <2>1. IF j < passed /\ ~Refused(j) THEN Tried(j, 2) ELSE Tried(j, 1)
    BY <1>1 DEF KeyInv
  <2>2. uses'[KeyAt(first', j)] =
          IF j = passed /\ ~Refused(j)
          THEN uses[KeyAt(first, j)] + 1 ELSE uses[KeyAt(first, j)]
    BY <1>1, <1>5
  <2>3. j < passed + 1 <=> j < passed \/ j = passed
    BY <1>3 DEF Llm!LlmAssumption, Llm!Keys
  <2>4. j = passed => ~(j < passed)
    BY <1>3 DEF Llm!LlmAssumption, Llm!Keys
  <2> QED
    BY <1>4, <2>1, <2>2, <2>3, <2>4 DEF Tried
<1>7. \A j \in Llm!Keys : Refused(j)' => Tried(j, 1)'
  BY <1>6
<1>8. CASE passed + 1 < NKeys
  <2>1. passed' = passed + 1 /\ place' = "retry" /\ passed' \in Llm!Keys
    BY <1>1, <1>3, <1>8 DEF Llm!RetryFails, Llm!NextKey, Llm!Keys,
         Llm!LlmAssumption
  <2> QED
    BY <1>1, <1>5, <1>6, <1>7, <2>1 DEF KeyInv
<1>9. CASE ~(passed + 1 < NKeys)
  <2>1. passed' = 0 /\ place' = "failed" /\ 0 \in Llm!Keys
    BY <1>9 DEF Llm!RetryFails, Llm!NextKey, Llm!Keys, Llm!LlmAssumption
  <2>2. \A j \in Llm!Keys : j < passed + 1
    BY <1>3, <1>9 DEF Llm!Keys, Llm!LlmAssumption
  <2>3. \A j \in Llm!Keys : ~Refused(j)' => Tried(j, 2)'
    BY <1>6, <2>2
  <2> QED
    BY <1>1, <1>5, <1>7, <2>1, <2>3 DEF KeyInv
<1> QED
  BY <1>8, <1>9

(* A key that answers was not refused before.                              *)
LEMMA ReplyKeeps ==
  ASSUME Llm!LlmAssumption, KeyInv, Llm!MayAnswer, Llm!UseKey,
         UNCHANGED <<rotor, first, passed, limited, refused>>,
         place' \in {"calls", "done"}
  PROVE  KeyInv'
<1>1. Llm!Key = KeyAt(first, passed) /\ passed \in Llm!Keys
  BY DEF Llm!Key, KeyAt, KeyInv
<1>2. ~Refused(passed)
  <2>1. CASE place = "try"
    <3>1. ~(passed < passed)
      BY <1>1 DEF Llm!Keys, Llm!LlmAssumption
    <3> QED
      BY <1>1, <2>1, <3>1 DEF KeyInv
  <2>2. CASE place = "retry"
    BY <1>1, <2>2 DEF Llm!MayAnswer, KeyInv, Refused
  <2> QED
    BY <2>1, <2>2 DEF Llm!MayAnswer
<1>3. \A j \in Llm!Keys : Refused(j)' => Tried(j, 1)'
  BY <1>1, <1>2, UseCounts DEF KeyInv, Refused, Tried, KeyAt
<1> QED
  BY <1>3, UseCounts DEF KeyInv

LEMMA KeyStep ==
  ASSUME Llm!LlmAssumption, KeyInv, [Llm!Next]_(Llm!vars)
  PROVE  KeyInv'
<1>1. CASE Llm!NextTurn
  BY <1>1, BeginKeeps DEF Llm!NextTurn
<1>2. CASE Llm!CapReached
  BY <1>2, BeginKeeps, RestKeeps DEF Llm!CapReached
<1>3. CASE Llm!KeyFails
  BY <1>3, KeyFailsKeeps
<1>4. CASE Llm!Backoff
  <2>1. \A j \in Llm!Keys : ~(j < 0)
    BY DEF Llm!Keys
  <2> QED
    BY <1>4, <2>1 DEF Llm!Backoff, KeyInv, Tried, Refused, KeyAt, Llm!request
<1>5. CASE Llm!RetryFails
  BY <1>5, RetryFailsKeeps
<1>6. CASE Llm!ReplyText
  BY <1>6, ReplyKeeps DEF Llm!ReplyText
<1>7. CASE Llm!ReplyCalls
  <2>1. place' \in {"calls", "done"}
    BY <1>7 DEF Llm!ReplyCalls
  <2> QED
    BY <1>7, <2>1, ReplyKeeps DEF Llm!ReplyCalls
<1>8. CASE Llm!AnswerCall
  BY <1>8, RestKeeps DEF Llm!AnswerCall
<1>9. CASE Llm!StopMidTurn
  BY <1>9, RestKeeps DEF Llm!StopMidTurn
<1>10. CASE Llm!EndTurn
  BY <1>10, RestKeeps DEF Llm!EndTurn
<1>11. CASE UNCHANGED Llm!vars
  BY <1>11, RestKeeps DEF Llm!vars
<1> QED
  BY <1>1, <1>2, <1>3, <1>4, <1>5, <1>6, <1>7, <1>8, <1>9, <1>10, <1>11 DEF
       Llm!Next

LEMMA KeyInvIsEnough == Llm!LlmAssumption /\ KeyInv => Llm!LimitedKeysRest
<1> SUFFICES ASSUME Llm!LlmAssumption, KeyInv PROVE Llm!LimitedKeysRest
  OBVIOUS
<1>1. \A k \in Llm!Keys : \E j \in Llm!Keys : KeyAt(first, j) = k
  BY PassIsComplete DEF KeyInv
<1>2. \A k \in refused : uses[k] <= 1
  <2> TAKE k \in refused
  <2>1. PICK j \in Llm!Keys : KeyAt(first, j) = k
    BY <1>1 DEF KeyInv
  <2>2. uses[k] = 1
    BY <2>1 DEF KeyInv, Tried, Refused
  <2> QED
    BY <2>2
<1>3. ASSUME place = "failed", NEW k \in Llm!Keys \ refused PROVE uses[k] = 2
  <2>1. PICK j \in Llm!Keys : KeyAt(first, j) = k
    BY <1>1
  <2> QED
    BY <1>3, <2>1 DEF KeyInv, Tried, Refused
<1> QED
  BY <1>2, <1>3 DEF Llm!LimitedKeysRest

-----------------------------------------------------------------------------
(* The expansion along the call graph (Expand).                            *)

(* Constant-level forms of what the walk knows: an entry is as many calls  *)
(* away as its depth says; a bonus chunk is new, above the floor, met      *)
(* once, and not one of the search.                                        *)
Met == [symbol : Symbols, score : Nat, depth : 0 .. MaxDepth]
Joined(calls_table, s, t) == <<s, t>> \in calls_table \/ <<t, s>> \in calls_table
Apart(calls_table, bases, s, n) ==
  \E path \in [0 .. n -> Symbols] :
    /\ \E b \in BaseChunks : path[0] \in bases[b]
    /\ path[n] = s
    /\ \A i \in 1 .. n : Joined(calls_table, path[i - 1], path[i])
NearAll(calls_table, bases, entries) ==
  \A i \in 1 .. Len(entries) :
    Apart(calls_table, bases, entries[i].symbol, entries[i].depth)
New(entries, excluded) ==
  \A i \in 1 .. Len(entries) :
    /\ entries[i].symbol \notin excluded
    /\ entries[i].score >= Expand!ScoreFloor /\ entries[i].depth >= 1
Distinct(entries) ==
  \A i, j \in 1 .. Len(entries) : entries[i].symbol = entries[j].symbol => i = j

(* What the walk has pushed and taken so far.  A bonus chunk has been      *)
(* seen, so that it is not met again.                                      *)
WalkInv ==
  /\ overlaps \in [BaseChunks -> SUBSET Symbols] /\ score \in [BaseChunks -> Nat]
  /\ at \in 0 .. Expand!Finished
  /\ stack \in Seq(Met) /\ NearAll(graph, overlaps, stack)
  /\ expanded \in Seq(Met) /\ NearAll(graph, overlaps, expanded)
  /\ Distinct(expanded) /\ New(expanded, covered) /\ Len(expanded) <= MaxBonus
  /\ \A i \in 1 .. Len(expanded) : expanded[i].symbol \in seen

LEMMA WalkIsNear == WalkInv => Expand!BonusIsNear
<1> SUFFICES ASSUME WalkInv PROVE Expand!BonusIsNear
  OBVIOUS
<1>1. DOMAIN expanded = 1 .. Len(expanded)
  <2>1. expanded \in Seq(Met)
    BY DEF WalkInv
  <2> QED
    BY <2>1
<1>2. ASSUME NEW i \in 1 .. Len(expanded) PROVE expanded[i].depth \in 1 .. MaxDepth
  <2>1. expanded \in Seq(Met) /\ expanded[i].depth >= 1
    BY DEF WalkInv, New
  <2>2. expanded[i] \in Met
    BY <2>1
  <2> QED
    BY <2>1, <2>2 DEF Met
<1>3. ASSUME NEW i \in 1 .. Len(expanded)
      PROVE  Expand!Away(expanded[i].symbol, expanded[i].depth)
  <2>1. Apart(graph, overlaps, expanded[i].symbol, expanded[i].depth)
    BY DEF WalkInv, NearAll
  <2> DEFINE s == expanded[i].symbol
             n == expanded[i].depth
  <2>2. PICK path \in [0 .. n -> Symbols] :
          /\ \E b \in BaseChunks : path[0] \in overlaps[b]
          /\ path[n] = s
          /\ \A k \in 1 .. n : Joined(graph, path[k - 1], path[k])
    BY <2>1 DEF Apart
  <2>3. n \in Nat \ {0}
    BY <1>2
  <2> DEFINE front == [k \in 0 .. n - 1 |-> path[k]]
  <2>4. front \in [0 .. n - 1 -> Symbols]
    BY <2>3
  <2>5. front[0] = path[0] /\ front[n - 1] = path[n - 1]
    BY <2>3
  <2>6. \A k \in 1 .. n - 1 : front[k - 1] = path[k - 1] /\ front[k] = path[k]
    BY <2>3
  <2>7. Joined(graph, front[n - 1], s)
    BY <2>2, <2>3, <2>5
  <2>8. \A k \in 1 .. n - 1 : Joined(graph, front[k - 1], front[k])
    BY <2>2, <2>3, <2>6
  <2> HIDE DEF front, n, s
  <2>9. Expand!Away(s, n)
    BY <2>2, <2>4, <2>5, <2>7, <2>8 DEF Joined, Expand!Away, Expand!Linked
  <2> QED
    BY <2>9 DEF s, n
<1> QED
  BY <1>1, <1>2, <1>3 DEF WalkInv, New, Distinct, Expand!BonusIsNear

(* One call further.                                                       *)
LEMMA OneCallFurther ==
  ASSUME NEW g, NEW o, NEW s, NEW t \in Symbols, NEW n \in Nat,
         Apart(g, o, s, n), Joined(g, s, t)
  PROVE  Apart(g, o, t, n + 1)
<1>1. PICK path \in [0 .. n -> Symbols] :
         /\ \E b \in BaseChunks : path[0] \in o[b]
         /\ path[n] = s
         /\ \A i \in 1 .. n : Joined(g, path[i - 1], path[i])
  BY DEF Apart
<1> DEFINE longer == [i \in 0 .. n + 1 |-> IF i <= n THEN path[i] ELSE t]
<1>2. longer \in [0 .. n + 1 -> Symbols]
  OBVIOUS
<1>3. longer[0] = path[0] /\ longer[n + 1] = t
  OBVIOUS
<1>4. ASSUME NEW i \in 1 .. n + 1 PROVE Joined(g, longer[i - 1], longer[i])
  <2>1. CASE i \in 1 .. n
    <3>1. longer[i - 1] = path[i - 1] /\ longer[i] = path[i]
      BY <2>1
    <3> QED
      BY <1>1, <2>1, <3>1
  <2>2. CASE i = n + 1
    <3>1. longer[i - 1] = s /\ longer[i] = t
      BY <1>1, <2>2
    <3> QED
      BY <3>1
  <2> QED
    BY <2>1, <2>2
<1> HIDE DEF longer
<1> QED
  BY <1>1, <1>2, <1>3, <1>4 DEF Apart

LEMMA NoCallAway ==
  ASSUME NEW g, NEW o, NEW b \in BaseChunks, NEW s \in Symbols, s \in o[b]
  PROVE  Apart(g, o, s, 0)
<1> DEFINE path == [i \in 0 .. 0 |-> s]
<1>1. path \in [0 .. 0 -> Symbols] /\ path[0] = s
  OBVIOUS
<1> HIDE DEF path
<1> QED
  BY <1>1 DEF Apart

(* The instance has these definitions of its own.                          *)
LEMMA SameSizes ==
  \A S : Expand!Cardinality(S) = Cardinality(S) /\ (Expand!IsFiniteSet(S) <=> IsFiniteSet(S))
BY DEF Expand!Cardinality, Cardinality, Expand!IsFiniteSet, IsFiniteSet

(* An order of a finite set: its elements, each once.                      *)
LEMMA OrderIs ==
  ASSUME NEW S, IsFiniteSet(S), NEW order \in Expand!SetToSeqs(S)
  PROVE  /\ order \in Seq(S)
         /\ \A i, j \in 1 .. Len(order) : order[i] = order[j] => i = j
<1>1. Cardinality(S) \in Nat
  BY FS_CardinalityType
<1>2. order \in [1 .. Cardinality(S) -> S]
  BY SameSizes DEF Expand!SetToSeqs
<1>3. order \in Seq(S) /\ Len(order) = Cardinality(S)
  BY <1>1, <1>2
<1>4. \A i, j \in 1 .. Cardinality(S) : i # j => order[i] # order[j]
  BY SameSizes DEF Expand!SetToSeqs
<1> QED
  BY <1>3, <1>4

(* The entries made of an order.                                           *)
MadeOf(made, these, points, depth) ==
  /\ made \in Seq(Met) /\ Distinct(made)
  /\ \A i \in 1 .. Len(made) :
       /\ made[i].symbol \in these
       /\ made[i].score = points /\ made[i].depth = depth

LEMMA EntriesAre ==
  ASSUME NEW S, S \subseteq Symbols, IsFiniteSet(S), NEW order \in Expand!SetToSeqs(S),
         NEW points \in Nat, NEW depth \in 0 .. MaxDepth,
         NEW made, made = Expand!Entries(order, points, depth)
  PROVE  MadeOf(made, S, points, depth)
<1>1. order \in Seq(S) /\ \A i, j \in 1 .. Len(order) : order[i] = order[j] => i = j
  BY OrderIs
<1>2. DOMAIN order = 1 .. Len(order) /\ Len(order) \in Nat /\ \A i \in 1 .. Len(order) : order[i] \in S
  BY <1>1
<1>3. made = [i \in 1 .. Len(order) |-> [symbol |-> order[i], score |-> points, depth |-> depth]]
  BY <1>2 DEF Expand!Entries, Expand!Entry
<1>4. \A i \in 1 .. Len(order) : made[i] \in Met
  BY <1>2, <1>3 DEF Met
<1>5. made \in Seq(Met) /\ Len(made) = Len(order)
  BY <1>2, <1>3, <1>4
<1>6. \A i \in 1 .. Len(made) :
        made[i].symbol = order[i] /\ made[i].score = points /\ made[i].depth = depth
  BY <1>3, <1>5
<1>7. Distinct(made)
  BY <1>1, <1>5, <1>6 DEF Distinct
<1> QED
  BY <1>2, <1>5, <1>6, <1>7 DEF MadeOf

(* An entry whose callers and callees are asked for; symbols the database  *)
(* may return for it; and what the walk knows of the entries it makes of   *)
(* symbols it has not seen.                                                *)
Reached(top) ==
  top \in Met /\ top.depth < MaxDepth /\ Apart(graph, overlaps, top.symbol, top.depth)
Around(top, all) == all \subseteq Symbols /\ \A s \in all : Joined(graph, top.symbol, s)
Unmet(made, these) ==
  /\ made \in Seq(Met) /\ NearAll(graph, overlaps, made)
  /\ Distinct(made) /\ New(made, covered)
  /\ \A i \in 1 .. Len(made) : made[i].symbol \in these

(* What one query adds to the stack.                                       *)
LEMMA RowsAreNear ==
  ASSUME Expand!ExpansionAssumption, NEW all, NEW points \in Nat, NEW known,
         NEW rows \in Expand!Rows(all, points), NEW order \in Expand!Orders(rows \ known),
         NEW top, Reached(top), Around(top, all), NEW depth, depth = top.depth + 1,
         NEW made, made = Expand!Entries(order, points, depth)
  PROVE  Unmet(made, rows \ known)
<1> USE DEF Reached, Around
<1> DEFINE S == (rows \ known) \ covered
<1>1. rows \subseteq all /\ (rows # {} => points >= Expand!ScoreFloor)
  <2>1. CASE points < Expand!ScoreFloor
    BY <2>1 DEF Expand!Rows
  <2>2. CASE ~(points < Expand!ScoreFloor)
    BY <2>2 DEF Expand!Rows, Expand!ScoreFloor
  <2> QED
    BY <2>1, <2>2
<1>2. S \subseteq Symbols /\ IsFiniteSet(S)
  <2>1. S \subseteq Symbols
    BY <1>1
  <2>2. IsFiniteSet(Symbols)
    BY SameSizes DEF Expand!ExpansionAssumption
  <2> QED
    BY <2>1, <2>2, FS_Subset
<1>3. order \in Expand!SetToSeqs(S)
  BY DEF Expand!Orders
<1>4. top.depth \in Nat /\ depth \in 0 .. MaxDepth /\ depth >= 1
  BY DEF Met, Expand!ExpansionAssumption
<1> HIDE DEF S
<1>5. MadeOf(made, S, points, depth)
  BY ONLY <1>2, <1>3, <1>4, points \in Nat, made = Expand!Entries(order, points, depth),
          EntriesAre
<1> USE DEF MadeOf
<1>6. ASSUME NEW i \in 1 .. Len(made)
      PROVE  /\ Apart(graph, overlaps, made[i].symbol, made[i].depth)
             /\ made[i].symbol \in rows \ known /\ made[i].symbol \notin covered
             /\ made[i].score >= Expand!ScoreFloor /\ made[i].depth >= 1
  <2>1. made[i].symbol \in rows \ known /\ made[i].symbol \notin covered
    BY <1>5 DEF S
  <2>2. made[i].symbol \in Symbols /\ Joined(graph, top.symbol, made[i].symbol)
    BY <1>1, <2>1
  <2>3. Apart(graph, overlaps, made[i].symbol, depth)
    BY <1>4, <2>2, OneCallFurther
  <2> QED
    BY <1>1, <1>4, <1>5, <2>1, <2>3
<1>7. NearAll(graph, overlaps, made) /\ New(made, covered)
  BY <1>6 DEF NearAll, New
<1> QED
  BY <1>5, <1>6, <1>7 DEF Unmet

(* What is true of two lists is true of one after the other.               *)
LEMMA BothAre ==
  ASSUME NEW s \in Seq(Met), NEW t \in Seq(Met)
  PROVE  /\ s \o t \in Seq(Met) /\ Len(s \o t) = Len(s) + Len(t)
         /\ \A i \in 1 .. Len(s) : (s \o t)[i] = s[i]
         /\ \A i \in 1 .. Len(s \o t) : i > Len(s) =>
              i - Len(s) \in 1 .. Len(t) /\ (s \o t)[i] = t[i - Len(s)]
OBVIOUS

LEMMA BothAreNear ==
  ASSUME NEW s \in Seq(Met), NEW t \in Seq(Met), NEW g, NEW o, NEW set,
         NearAll(g, o, s), NearAll(g, o, t)
  PROVE  /\ NearAll(g, o, s \o t)
         /\ New(s, set) /\ New(t, set) => New(s \o t, set)
<1>1. \A i \in 1 .. Len(s \o t) :
        (i \in 1 .. Len(s) /\ (s \o t)[i] = s[i])
        \/ (i - Len(s) \in 1 .. Len(t) /\ (s \o t)[i] = t[i - Len(s)])
  BY BothAre
<1> QED
  BY <1>1 DEF NearAll, New

LEMMA BothAreDistinct ==
  ASSUME NEW s \in Seq(Met), NEW t \in Seq(Met), Distinct(s), Distinct(t),
         \A i \in 1 .. Len(s), j \in 1 .. Len(t) : s[i].symbol # t[j].symbol
  PROVE  Distinct(s \o t)
<1> SUFFICES ASSUME NEW i \in 1 .. Len(s \o t), NEW j \in 1 .. Len(s \o t),
                    (s \o t)[i].symbol = (s \o t)[j].symbol
             PROVE  i = j
  BY DEF Distinct
<1>1. Len(s) \in Nat /\ Len(t) \in Nat /\ Len(s \o t) = Len(s) + Len(t)
  OBVIOUS
<1>2. \A k \in 1 .. Len(s \o t) :
        IF k <= Len(s) THEN k \in 1 .. Len(s) /\ (s \o t)[k] = s[k]
        ELSE k - Len(s) \in 1 .. Len(t) /\ (s \o t)[k] = t[k - Len(s)]
  BY <1>1, BothAre
<1>3. CASE i <= Len(s) /\ j <= Len(s)
  BY <1>2, <1>3 DEF Distinct
<1>4. CASE i > Len(s) /\ j > Len(s)
  <2>1. i - Len(s) = j - Len(s)
    BY <1>1, <1>2, <1>4 DEF Distinct
  <2> QED
    BY <1>1, <2>1
<1>5. CASE i <= Len(s) /\ j > Len(s)
  BY <1>1, <1>2, <1>5
<1>6. CASE i > Len(s) /\ j <= Len(s)
  BY <1>1, <1>2, <1>6
<1> QED
  BY <1>1, <1>3, <1>4, <1>5, <1>6

(* What the cap leaves.                                                    *)
LEMMA CappedIs ==
  ASSUME MaxBonus \in Nat, NEW s \in Seq(Met)
  PROVE  LET c == Expand!Capped(s)
         IN  /\ c \in Seq(Met) /\ Len(c) <= MaxBonus
             /\ \A i \in 1 .. Len(c) : i \in 1 .. Len(s) /\ c[i] = s[i]
<1>1. CASE Len(s) <= MaxBonus
  BY <1>1 DEF Expand!Capped
<1>2. CASE ~(Len(s) <= MaxBonus)
  <2>1. Expand!Capped(s) = SubSeq(s, 1, MaxBonus)
    BY <1>2 DEF Expand!Capped
  <2>2. Len(s) \in Nat /\ MaxBonus < Len(s)
    BY <1>2
  <2>3. SubSeq(s, 1, MaxBonus) = [i \in 1 .. MaxBonus |-> s[i]]
    BY <2>2
  <2>4. \A i \in 1 .. MaxBonus : i \in 1 .. Len(s) /\ s[i] \in Met
    BY <2>2
  <2> QED
    BY <2>1, <2>3, <2>4
<1> QED
  BY <1>1, <1>2

LEMMA FrontIsNear ==
  ASSUME NEW g, NEW o, NEW s \in Seq(Met), s # <<>>, NearAll(g, o, s)
  PROVE  /\ Expand!Last(s) \in Met
         /\ Apart(g, o, Expand!Last(s).symbol, Expand!Last(s).depth)
         /\ Expand!Front(s) \in Seq(Met) /\ NearAll(g, o, Expand!Front(s))
<1>1. Len(s) \in Nat \ {0} /\ Len(s) \in 1 .. Len(s) /\ s[Len(s)] \in Met
  OBVIOUS
<1>2. Expand!Front(s) = [i \in 1 .. Len(s) - 1 |-> s[i]]
  BY <1>1 DEF Expand!Front
<1>3. /\ Expand!Front(s) \in Seq(Met) /\ Len(Expand!Front(s)) = Len(s) - 1
      /\ \A i \in 1 .. Len(s) - 1 : i \in 1 .. Len(s) /\ Expand!Front(s)[i] = s[i]
  BY <1>1, <1>2
<1> QED
  BY <1>1, <1>3 DEF NearAll, Expand!Last

LEMMA MetAroundIsNear ==
  ASSUME Expand!ExpansionAssumption, WalkInv, NEW top \in Met, top.depth < MaxDepth,
         Apart(graph, overlaps, top.symbol, top.depth), stack # <<>>,
         Expand!MeetAround(top), UNCHANGED Expand!input
  PROVE  WalkInv'
<1> DEFINE up_points == Expand!CallerScore(top.score)
           down_points == Expand!CalleeScore(top.score)
           above == {s \in Symbols : <<s, top.symbol>> \in graph}
           below == {s \in Symbols : <<top.symbol, s>> \in graph}
<1>1. PICK callers \in Expand!Rows(above, up_points), callees \in Expand!Rows(below, down_points) :
      \E up_order \in Expand!Orders(callers \ seen), down_order \in Expand!Orders(callees \ (seen \cup callers)) :
        LET met == Expand!Entries(up_order, up_points, top.depth + 1)
                     \o Expand!Entries(down_order, down_points, top.depth + 1)
        IN  /\ stack' = Expand!Front(stack) \o met
            /\ expanded' = Expand!Capped(expanded \o met)
            /\ seen' = seen \cup callers \cup callees
            /\ UNCHANGED at
  BY DEF Expand!MeetAround
<1>2. PICK up_order \in Expand!Orders(callers \ seen),
           down_order \in Expand!Orders(callees \ (seen \cup callers)) :
        LET met == Expand!Entries(up_order, up_points, top.depth + 1)
                     \o Expand!Entries(down_order, down_points, top.depth + 1)
        IN  /\ stack' = Expand!Front(stack) \o met
            /\ expanded' = Expand!Capped(expanded \o met)
            /\ seen' = seen \cup callers \cup callees
            /\ UNCHANGED at
  BY <1>1
<1> DEFINE first_met == Expand!Entries(up_order, up_points, top.depth + 1)
           then_met == Expand!Entries(down_order, down_points, top.depth + 1)
           met == first_met \o then_met
<1>3. up_points \in Nat /\ down_points \in Nat
  <2>1. top.score \in Nat
    BY DEF Met
  <2> QED
    BY <2>1 DEF Expand!CallerScore, Expand!CalleeScore
<1>4. Around(top, above) /\ Around(top, below) /\ Reached(top)
  BY DEF Around, Joined, Reached
<1>rows. callers \in Expand!Rows(above, up_points) /\ up_order \in Expand!Orders(callers \ seen)
  OBVIOUS
<1>more. /\ callees \in Expand!Rows(below, down_points)
         /\ down_order \in Expand!Orders(callees \ (seen \cup callers))
  OBVIOUS
<1> HIDE DEF up_points, down_points, above, below
<1>7. /\ stack' = Expand!Front(stack) \o met /\ expanded' = Expand!Capped(expanded \o met)
      /\ seen' = seen \cup callers \cup callees /\ at' = at
  BY <1>2
<1> DEFINE deeper == top.depth + 1
<1>deeper. deeper = top.depth + 1
  OBVIOUS
<1>first. first_met = Expand!Entries(up_order, up_points, deeper)
  OBVIOUS
<1>then. then_met = Expand!Entries(down_order, down_points, deeper)
  OBVIOUS
<1> HIDE DEF first_met, then_met, deeper
<1>5. Unmet(first_met, callers \ seen)
  BY ONLY Expand!ExpansionAssumption, <1>3, <1>4, <1>rows, <1>first, <1>deeper,
          RowsAreNear
<1>6. Unmet(then_met, callees \ (seen \cup callers))
  BY ONLY Expand!ExpansionAssumption, <1>3, <1>4, <1>more, <1>then, <1>deeper,
          RowsAreNear
<1> USE DEF Unmet
<1>8. /\ met \in Seq(Met) /\ NearAll(graph, overlaps, met) /\ New(met, covered)
      /\ Distinct(met)
  BY <1>5, <1>6, BothAre, BothAreNear, BothAreDistinct
<1>9. \A i \in 1 .. Len(met) : met[i].symbol \in (callers \cup callees) \ seen
  <2>1. \A i \in 1 .. Len(met) :
          (i \in 1 .. Len(first_met) /\ met[i] = first_met[i])
          \/ (i - Len(first_met) \in 1 .. Len(then_met) /\ met[i] = then_met[i - Len(first_met)])
    BY <1>5, <1>6, BothAre
  <2> QED
    BY <1>5, <1>6, <2>1
<1> HIDE DEF met
<1>10. UNCHANGED <<graph, overlaps, covered, score>>
  BY DEF Expand!input
<1>11. stack' \in Seq(Met) /\ NearAll(graph, overlaps, stack')
  <2>1. Expand!Front(stack) \in Seq(Met) /\ NearAll(graph, overlaps, Expand!Front(stack))
    BY FrontIsNear DEF WalkInv
  <2> QED
    BY <1>7, <1>8, <2>1, BothAre, BothAreNear
<1> DEFINE more == expanded \o met
<1>12. /\ expanded \in Seq(Met) /\ NearAll(graph, overlaps, expanded)
       /\ Distinct(expanded) /\ New(expanded, covered)
       /\ \A i \in 1 .. Len(expanded) : expanded[i].symbol \in seen
  BY DEF WalkInv
<1>13. /\ more \in Seq(Met) /\ NearAll(graph, overlaps, more) /\ New(more, covered)
       /\ Distinct(more)
  BY <1>8, <1>9, <1>12, BothAre, BothAreNear, BothAreDistinct
<1>14. \A i \in 1 .. Len(more) : more[i].symbol \in seen'
  <2>1. \A i \in 1 .. Len(more) :
          (i \in 1 .. Len(expanded) /\ more[i] = expanded[i])
          \/ (i - Len(expanded) \in 1 .. Len(met) /\ more[i] = met[i - Len(expanded)])
    BY <1>8, <1>12, BothAre
  <2> QED
    BY <1>7, <1>9, <1>12, <2>1
<1> HIDE DEF more
<1>15. /\ expanded' \in Seq(Met) /\ Len(expanded') <= MaxBonus
       /\ \A i \in 1 .. Len(expanded') : i \in 1 .. Len(more) /\ expanded'[i] = more[i]
  <2>1. expanded' = Expand!Capped(more)
    BY <1>7 DEF more
  <2>2. MaxBonus \in Nat
    BY DEF Expand!ExpansionAssumption
  <2> QED
    BY <1>13, <2>1, <2>2, CappedIs
<1>16. /\ NearAll(graph, overlaps, expanded') /\ New(expanded', covered)
       /\ Distinct(expanded') /\ \A i \in 1 .. Len(expanded') : expanded'[i].symbol \in seen'
  BY <1>13, <1>14, <1>15 DEF NearAll, New, Distinct
<1>17. /\ overlaps' \in [BaseChunks -> SUBSET Symbols] /\ score' \in [BaseChunks -> Nat]
       /\ at' \in 0 .. Expand!Finished
  BY <1>7, <1>10 DEF WalkInv
<1> QED
  BY <1>10, <1>11, <1>15, <1>16, <1>17 DEF WalkInv, Expand!Finished

LEMMA WalkInit == Expand!ExpansionAssumption /\ Expand!Init => WalkInv
<1> SUFFICES ASSUME Expand!ExpansionAssumption, Expand!Init PROVE WalkInv
  OBVIOUS
<1>1. overlaps \in [BaseChunks -> SUBSET Symbols] /\ score \in [BaseChunks -> Nat]
  BY DEF Expand!Init, Expand!ExpansionAssumption
<1>2. at \in 0 .. Expand!Finished
  BY SameSizes DEF Expand!Init, Expand!ExpansionAssumption, Expand!Finished
<1>3. stack = <<>> /\ expanded = <<>> /\ MaxBonus \in Nat
  BY DEF Expand!Init, Expand!ExpansionAssumption
<1>4. NearAll(graph, overlaps, <<>>) /\ New(<<>>, covered) /\ Distinct(<<>>)
  BY DEF NearAll, New, Distinct
<1> QED
  BY <1>1, <1>2, <1>3, <1>4 DEF WalkInv

LEMMA WalkStep ==
  Expand!ExpansionAssumption /\ WalkInv /\ [Expand!Next]_(Expand!vars) => WalkInv'
<1> SUFFICES ASSUME Expand!ExpansionAssumption, WalkInv, [Expand!Next]_(Expand!vars)
             PROVE  WalkInv'
  OBVIOUS
<1>1. CASE Expand!NextBase
  <2>1. /\ UNCHANGED <<graph, overlaps, covered, score, seen, expanded>>
        /\ at' = at + 1 /\ at < Expand!Finished
    BY <1>1 DEF Expand!NextBase, Expand!input
  <2>2. /\ Expand!Finished = Cardinality(BaseChunks) + 1
        /\ Cardinality(BaseChunks) \in Nat /\ BaseChunks = 1 .. Cardinality(BaseChunks)
    BY SameSizes DEF Expand!ExpansionAssumption, Expand!Finished
  <2>3. at' \in 1 .. Expand!Finished
    BY <2>1, <2>2 DEF WalkInv
  <2>4. stack' \in Seq(Met) /\ NearAll(graph, overlaps, stack')
    <3>1. CASE at' = Expand!Finished
      <4>1. stack' = <<>>
        BY <1>1, <3>1 DEF Expand!NextBase, Expand!Entries
      <4> QED
        BY <4>1 DEF NearAll
    <3>2. CASE at' # Expand!Finished
      <4>1. at' \in BaseChunks
        BY <2>2, <2>3, <3>2
      <4>2. PICK order \in Expand!SetToSeqs(overlaps[at']) :
               stack' = Expand!Entries(order, score[at'], 0)
        BY <1>1, <3>2 DEF Expand!NextBase
      <4>3. /\ overlaps[at'] \subseteq Symbols /\ score[at'] \in Nat
            /\ IsFiniteSet(overlaps[at']) /\ 0 \in 0 .. MaxDepth
        BY <4>1, SameSizes, FS_Subset DEF WalkInv, Expand!ExpansionAssumption
      <4>4. /\ stack' \in Seq(Met)
            /\ \A i \in 1 .. Len(stack') :
                 stack'[i].symbol \in overlaps[at'] /\ stack'[i].depth = 0
        <5>1. MadeOf(stack', overlaps[at'], score[at'], 0)
          BY ONLY <4>2, <4>3, order \in Expand!SetToSeqs(overlaps[at']), EntriesAre
        <5> QED
          BY <5>1 DEF MadeOf
      <4> QED
        BY <4>1, <4>3, <4>4, NoCallAway DEF NearAll
    <3> QED
      BY <3>1, <3>2
  <2> QED
    BY <2>1, <2>3, <2>4 DEF WalkInv, Expand!Finished
<1>2. CASE Expand!Pop
  <2> DEFINE top == Expand!Last(stack)
  <2>1. stack # <<>> /\ UNCHANGED Expand!input
    BY <1>2 DEF Expand!Pop
  <2>2. /\ top \in Met /\ Apart(graph, overlaps, top.symbol, top.depth)
        /\ Expand!Front(stack) \in Seq(Met)
        /\ NearAll(graph, overlaps, Expand!Front(stack))
    BY <2>1, FrontIsNear DEF WalkInv
  <2>3. UNCHANGED <<graph, overlaps, covered, score>>
    BY <2>1 DEF Expand!input
  <2>4. CASE stack' = Expand!Front(stack) /\ UNCHANGED <<at, seen, expanded>>
    BY <2>2, <2>3, <2>4 DEF WalkInv, Expand!Finished
  <2>5. CASE stack' = <<>> /\ at' = Expand!Finished /\ UNCHANGED <<seen, expanded>>
    <3>1. NearAll(graph, overlaps, <<>>) /\ <<>> \in Seq(Met)
      BY DEF NearAll
    <3>2. Expand!Finished \in 0 .. Expand!Finished
      BY SameSizes DEF Expand!ExpansionAssumption, Expand!Finished
    <3> QED
      BY <2>3, <2>5, <3>1, <3>2 DEF WalkInv, Expand!Finished
  <2>6. CASE top.depth < MaxDepth /\ Expand!MeetAround(top)
    BY <2>1, <2>2, <2>6, MetAroundIsNear
  <2> QED
    BY <1>2, <2>4, <2>5, <2>6 DEF Expand!Pop
<1>3. CASE UNCHANGED Expand!vars
  BY <1>3 DEF Expand!vars, Expand!input, WalkInv, Expand!Finished
<1> QED
  BY <1>1, <1>2, <1>3 DEF Expand!Next

-----------------------------------------------------------------------------
(* Numbers one after the other: a set that has 0, and with each number the *)
(* next, has them all, as it cannot have a least exception.                *)
LEMMA Least ==
  ASSUME NEW T, T \subseteq Nat, T # {}
  PROVE  \E n \in T : \A m \in T : ~(m < n)
<1> DEFINE R == {ss \in Nat \X Nat : ss[1] < ss[2]}
<1>1. IsWellFoundedOn(R, Nat)
  BY NatLessThanWellFounded DEF OpToRel
<1>2. \A m, n \in T : m < n => <<m, n>> \in R
  OBVIOUS
<1> HIDE DEF R
<1>3. PICK n \in T : \A m \in T : <<m, n>> \notin R
  BY <1>1, WFMin
<1> QED
  BY <1>2, <1>3

LEMMA UpTo ==
  ASSUME NEW N \in Nat, NEW S, 0 \in S,
         \A n \in 1 .. N : n - 1 \in S => n \in S
  PROVE  \A n \in 0 .. N : n \in S
<1> SUFFICES ASSUME NEW k \in 0 .. N, k \notin S PROVE FALSE
  OBVIOUS
<1> DEFINE T == {n \in 0 .. N : n \notin S}
<1>1. T \subseteq Nat /\ T # {}
  OBVIOUS
<1> HIDE DEF T
<1>2. PICK n \in T : \A m \in T : ~(m < n)
  BY <1>1, Least
<1>3. n \in 1 .. N /\ n - 1 \in 0 .. N
  BY <1>2 DEF T
<1>4. n - 1 \in S
  BY <1>2, <1>3 DEF T
<1> QED
  BY <1>2, <1>3, <1>4 DEF T

(* A loop: a step function on All, taken N times from d.                   *)
Runs(f, N, d, taken) ==
  f[0] = d /\ \A n \in 1 .. N : f[n] = taken[<<f[n - 1], n>>]

LEMMA Loop ==
  ASSUME NEW N \in Nat, NEW All, NEW d \in All, NEW taken \in [All \X (1 .. N) -> All]
  PROVE  \E f \in [0 .. N -> All] : Runs(f, N, d, taken)
<1> DEFINE S == {n \in 0 .. N : \E f \in [0 .. n -> All] : Runs(f, n, d, taken)}
<1>1. 0 \in S
  <2> DEFINE f == [n \in 0 .. 0 |-> d]
  <2>1. f \in [0 .. 0 -> All] /\ Runs(f, 0, d, taken)
    BY DEF Runs
  <2> QED
    BY <2>1
<1>2. ASSUME NEW n \in 1 .. N, n - 1 \in S PROVE n \in S
  <2>1. PICK f \in [0 .. n - 1 -> All] : Runs(f, n - 1, d, taken)
    BY <1>2
  <2> DEFINE g == [i \in 0 .. n |-> IF i = n THEN taken[<<f[n - 1], n>>] ELSE f[i]]
  <2>2. f[n - 1] \in All
    OBVIOUS
  <2>3. g \in [0 .. n -> All]
    BY <2>2
  <2>4. \A i \in 0 .. n - 1 : g[i] = f[i]
    OBVIOUS
  <2>5. g[n] = taken[<<g[n - 1], n>>]
    <3>1. g[n] = taken[<<f[n - 1], n>>]
      OBVIOUS
    <3>2. g[n - 1] = f[n - 1]
      BY <2>4
    <3> QED
      BY ONLY <3>1, <3>2
  <2> HIDE DEF g
  <2>6. ASSUME NEW i \in 1 .. n PROVE g[i] = taken[<<g[i - 1], i>>]
    <3>1. CASE i = n
      BY <2>5, <3>1
    <3>2. CASE i # n
      <4>1. i \in 1 .. n - 1 /\ i - 1 \in 0 .. n - 1 /\ i \in 0 .. n - 1
        BY <3>2
      <4> QED
        BY <2>1, <2>4, <4>1 DEF Runs
    <3> QED
      BY <3>1, <3>2
  <2>7. g[0] = d
    BY <2>1, <2>4 DEF Runs
  <2> QED
    BY <2>3, <2>6, <2>7 DEF Runs
<1> HIDE DEF S
<1>3. N \in S
  BY <1>1, <1>2, UpTo
<1> QED
  BY <1>3 DEF S

(* The places of the elements of seqs in what they are flattened to.       *)
Laid(off, seqs, flat, N) ==
  /\ \A k \in 1 .. N : \A m \in 1 .. Len(seqs[k]) :
       off[k - 1] + m \in 1 .. Len(flat) /\ flat[off[k - 1] + m] = seqs[k][m]
  /\ \A i \in 1 .. Len(flat) : \E k \in 1 .. N : \E m \in 1 .. Len(seqs[k]) :
       i = off[k - 1] + m

LEMMA CatAt ==
  ASSUME NEW B, NEW a \in Seq(B), NEW b \in Seq(B)
  PROVE  /\ a \o b \in Seq(B) /\ Len(a \o b) = Len(a) + Len(b)
         /\ \A i \in 1 .. Len(a) : (a \o b)[i] = a[i]
         /\ \A i \in 1 .. Len(b) : (a \o b)[Len(a) + i] = b[i]
OBVIOUS

LEMMA LaidStep ==
  ASSUME NEW B, NEW off, NEW seqs, NEW N \in Nat, NEW flat \in Seq(B),
         seqs[N + 1] \in Seq(B), off[N] = Len(flat), Laid(off, seqs, flat, N)
  PROVE  Laid(off, seqs, flat \o seqs[N + 1], N + 1)
<1> PICK next : next = seqs[N + 1]
  OBVIOUS
<1> PICK all : all = flat \o next
  OBVIOUS
<1>1. /\ next \in Seq(B) /\ Len(all) = Len(flat) + Len(next)
      /\ Len(flat) \in Nat /\ Len(next) \in Nat
      /\ \A i \in 1 .. Len(flat) : all[i] = flat[i]
      /\ \A i \in 1 .. Len(next) : all[Len(flat) + i] = next[i]
  BY CatAt
<1>0. N + 1 - 1 = N /\ N + 1 \in 1 .. N + 1
  OBVIOUS
<1>6. off[N + 1 - 1] = Len(flat) /\ seqs[N + 1] = next
  BY <1>0
<1>2. ASSUME NEW k \in 1 .. N + 1, NEW m \in 1 .. Len(seqs[k])
      PROVE  off[k - 1] + m \in 1 .. Len(all) /\ all[off[k - 1] + m] = seqs[k][m]
  <2>1. CASE k = N + 1
    <3>1. off[k - 1] = Len(flat) /\ seqs[k] = next
      BY ONLY <2>1, <1>6
    <3>2. m \in 1 .. Len(next)
      BY ONLY m \in 1 .. Len(seqs[k]), <3>1
    <3>3. Len(flat) + m \in 1 .. Len(all) /\ all[Len(flat) + m] = next[m]
      BY ONLY <1>1, <3>2
    <3> QED
      BY ONLY <3>1, <3>3
  <2>2. CASE k # N + 1
    <3>1. k \in 1 .. N
      BY <2>2
    <3>2. off[k - 1] + m \in 1 .. Len(flat) /\ flat[off[k - 1] + m] = seqs[k][m]
      BY <3>1 DEF Laid
    <3>3. PICK p : p = off[k - 1] + m
      OBVIOUS
    <3>4. p \in 1 .. Len(flat) /\ flat[p] = seqs[k][m]
      BY ONLY <3>2, <3>3
    <3>5. p \in 1 .. Len(all) /\ all[p] = seqs[k][m]
      BY ONLY <1>1, <3>4
    <3> QED
      BY ONLY <3>3, <3>5
  <2> QED
    BY <2>1, <2>2
<1>3. ASSUME NEW i \in 1 .. Len(all)
      PROVE  \E k \in 1 .. N + 1 : \E m \in 1 .. Len(seqs[k]) : i = off[k - 1] + m
  <2>1. CASE i <= Len(flat)
    <3>0. i \in 1 .. Len(flat)
      BY <1>1, <2>1
    <3>1. PICK k \in 1 .. N : \E m \in 1 .. Len(seqs[k]) : i = off[k - 1] + m
      BY ONLY <3>0, Laid(off, seqs, flat, N) DEF Laid
    <3>2. k \in 1 .. N + 1
      OBVIOUS
    <3> QED
      BY ONLY <3>1, <3>2
  <2>2. CASE ~(i <= Len(flat))
    <3>1. i - Len(flat) \in 1 .. Len(next) /\ i = Len(flat) + (i - Len(flat))
      BY <1>1, <2>2
    <3>2. PICK m : m = i - Len(flat)
      OBVIOUS
    <3>3. m \in 1 .. Len(seqs[N + 1]) /\ i = off[N + 1 - 1] + m
      BY ONLY <1>6, <3>1, <3>2
    <3>4. \E k \in {N + 1} : \E q \in 1 .. Len(seqs[k]) : i = off[k - 1] + q
      BY ONLY <3>3
    <3> QED
      BY ONLY <3>4, <1>0
  <2> QED
    BY <2>1, <2>2
<1>4. all = flat \o seqs[N + 1]
  OBVIOUS
<1>5. Laid(off, seqs, all, N + 1)
  BY ONLY <1>2, <1>3 DEF Laid
<1> QED
  BY <1>4, <1>5

(* A sequence of sequences, flattened.                                     *)
LEMMA FlattenIs ==
  ASSUME NEW B, NEW seqs \in Seq(Seq(B))
  PROVE  \E off :
           /\ off \in [0 .. Len(seqs) -> Nat] /\ off[0] = 0
           /\ \A k \in 1 .. Len(seqs) : off[k] = off[k - 1] + Len(seqs[k])
           /\ Llm!FlattenSeq(seqs) \in Seq(B)
           /\ Laid(off, seqs, Llm!FlattenSeq(seqs), Len(seqs))
<1> DEFINE N == Len(seqs)
           flatten[i \in 1 .. N] == IF i = 1 THEN seqs[i] ELSE flatten[i - 1] \o seqs[i]
           taken == [x \in Seq(B) \X (1 .. N) |-> x[1] \o seqs[x[2]]]
<1>1. N \in Nat /\ \A n \in 1 .. N : seqs[n] \in Seq(B)
  OBVIOUS
<1>2. Llm!FlattenSeq(seqs) = IF N = 0 THEN seqs ELSE flatten[N]
  BY DEF Llm!FlattenSeq
<1>3. taken \in [Seq(B) \X (1 .. N) -> Seq(B)]
  <2>1. ASSUME NEW x \in Seq(B), NEW n \in 1 .. N PROVE x \o seqs[n] \in Seq(B)
    BY <1>1, CatAt
  <2> QED
    BY <2>1
<1>4. \A x \in Seq(B), n \in 1 .. N : taken[<<x, n>>] = x \o seqs[n]
  OBVIOUS
<1> HIDE DEF taken
<1>5. PICK f \in [0 .. N -> Seq(B)] : Runs(f, N, <<>>, taken)
  <2>1. <<>> \in Seq(B)
    OBVIOUS
  <2> HIDE DEF N
  <2> QED
    BY ONLY <1>1, <1>3, <2>1, Loop
<1>6. f[0] = <<>> /\ \A n \in 1 .. N : f[n] = f[n - 1] \o seqs[n] /\ f[n - 1] \in Seq(B)
  <2>1. \A n \in 1 .. N : n - 1 \in 0 .. N
    BY <1>1
  <2> QED
    BY <1>4, <1>5, <2>1 DEF Runs
<1> DEFINE g == [i \in 1 .. N |-> f[i]]
<1>7. g = [i \in 1 .. N |-> IF i = 1 THEN seqs[i] ELSE g[i - 1] \o seqs[i]]
  <2>1. ASSUME NEW i \in 1 .. N PROVE f[i] = IF i = 1 THEN seqs[i] ELSE g[i - 1] \o seqs[i]
    <3>1. CASE i = 1
      <4>0. 1 \in 1 .. N /\ 1 - 1 = 0
        BY <1>1, <3>1
      <4>1. f[1] = <<>> \o seqs[1] /\ seqs[1] \in Seq(B)
        BY ONLY <1>1, <1>6, <4>0
      <4> QED
        BY <3>1, <4>1, ConcatEmptySeq
    <3>2. CASE i # 1
      <4>1. i - 1 \in 1 .. N
        BY <1>1, <3>2
      <4>2. g[i - 1] = f[i - 1]
        BY <4>1
      <4> QED
        BY <1>6, <3>2, <4>2
    <3> QED
      BY <3>1, <3>2
  <2> QED
    BY <2>1
<1> HIDE DEF g
<1>8. flatten = [i \in 1 .. N |-> IF i = 1 THEN seqs[i] ELSE flatten[i - 1] \o seqs[i]]
  BY ONLY <1>7, Zenon
<1> HIDE DEF flatten
<1> DEFINE S == {n \in 0 .. N : n = 0 \/ flatten[n] = f[n]}
<1>9. \A n \in 0 .. N : n \in S
  <2>1. 0 \in S
    BY <1>1
  <2>2. ASSUME NEW n \in 1 .. N, n - 1 \in S PROVE n \in S
    <3>1. flatten[n] = IF n = 1 THEN seqs[n] ELSE flatten[n - 1] \o seqs[n]
      BY <1>8
    <3>2. n \in 0 .. N /\ n \in Nat
      BY <1>1
    <3>3. CASE n = 1
      <4>0. 1 \in 1 .. N /\ 1 - 1 = 0
        BY <1>1, <3>3
      <4>1. f[1] = <<>> \o seqs[1] /\ seqs[1] \in Seq(B)
        BY ONLY <1>1, <1>6, <4>0
      <4> QED
        BY <3>1, <3>2, <3>3, <4>1, ConcatEmptySeq
    <3>4. CASE n # 1
      <4>1. n - 1 # 0
        BY <3>2, <3>4
      <4> QED
        BY <1>6, <2>2, <3>1, <3>2, <3>4, <4>1
    <3> QED
      BY <3>3, <3>4
  <2> HIDE DEF S, N
  <2> QED
    BY ONLY <1>1, <2>1, <2>2, UpTo
<1>10. Llm!FlattenSeq(seqs) = f[N]
  <2>1. CASE N = 0
    <3>1. seqs = <<>>
      BY <2>1
    <3> QED
      BY <1>2, <1>6, <2>1, <3>1
  <2>2. CASE N # 0
    <3>1. N \in S
      BY <1>1, <1>9
    <3> QED
      BY <1>2, <2>2, <3>1
  <2> QED
    BY <2>1, <2>2
<1> DEFINE off == [n \in 0 .. N |-> Len(f[n])]
<1>11. \A n \in 0 .. N : off[n] = Len(f[n]) /\ f[n] \in Seq(B) /\ off[n] \in Nat
  BY <1>5
<1>12. off \in [0 .. N -> Nat]
  BY <1>11
<1> HIDE DEF off
<1>13. \A k \in 1 .. N : off[k] = off[k - 1] + Len(seqs[k])
  <2> TAKE k \in 1 .. N
  <2>1. k \in 0 .. N /\ k - 1 \in 0 .. N
    BY <1>1
  <2>2. Len(f[k - 1] \o seqs[k]) = Len(f[k - 1]) + Len(seqs[k])
    BY <1>1, <1>6, CatAt
  <2> QED
    BY <1>6, <1>11, <2>1, <2>2
<1> DEFINE R == {n \in 0 .. N : Laid(off, seqs, f[n], n)}
<1>14. \A n \in 0 .. N : n \in R
  <2>1. 0 \in R
    BY <1>1, <1>6 DEF Laid
  <2>2. ASSUME NEW n \in 1 .. N, n - 1 \in R PROVE n \in R
    <3>1. n \in 0 .. N /\ n - 1 \in 0 .. N /\ n - 1 \in Nat /\ n - 1 + 1 = n
      BY <1>1
    <3>2. PICK p : p = n - 1
      OBVIOUS
    <3>3. p \in Nat /\ p + 1 = n /\ f[p] \in Seq(B) /\ off[p] = Len(f[p])
          /\ Laid(off, seqs, f[p], p) /\ seqs[p + 1] \in Seq(B)
      BY <1>1, <1>11, <2>2, <3>1, <3>2
    <3>4. Laid(off, seqs, f[p] \o seqs[p + 1], p + 1)
      BY ONLY <3>3, LaidStep
    <3> QED
      BY <1>6, <3>1, <3>2, <3>3, <3>4
  <2> HIDE DEF R, N
  <2> QED
    BY ONLY <1>1, <2>1, <2>2, UpTo
<1>15. Laid(off, seqs, f[N], N) /\ f[N] \in Seq(B) /\ off[0] = 0
  <2>1. N \in R /\ N \in 0 .. N /\ 0 \in 0 .. N
    BY <1>1, <1>14
  <2>2. Len(<<>>) = 0
    OBVIOUS
  <2> QED
    BY <1>6, <1>11, <2>1, <2>2
<1> QED
  BY <1>10, <1>12, <1>13, <1>15

(* The conversation with the model.                                        *)
Ids == {NoId} \cup (Nat \X Nat)
CallSet == [id : Ids, sign : {NoSign} \cup (Nat \X Nat), known : BOOLEAN]
Said == [kind : {"user", "calls", "results"}, calls : Seq(CallSet)]

(* The calls among the first n messages are followed by one result each.   *)
Closed(t, n) ==
  \A i \in 1 .. n : t[i].kind = "calls" =>
    i < Len(t) /\ t[i + 1] = Llm!ToolResults(t[i].calls)

(* Results follow the calls they answer.                                   *)
Preceded(t) ==
  \A i \in 1 .. Len(t) : t[i].kind = "results" =>
    1 < i /\ t[i - 1] = Llm!ModelToolCalls(t[i].calls)

(* The turns of the model are in the conversation as they came.            *)
TurnsOf(t) == {i \in 1 .. Len(t) : t[i].kind = "calls"}
Replayed(t, s) ==
  /\ Cardinality(TurnsOf(t)) = Len(s)
  /\ \A i \in TurnsOf(t) :
       /\ Cardinality({j \in TurnsOf(t) : j <= i}) \in 1 .. Len(s)
       /\ t[i].calls = s[Cardinality({j \in TurnsOf(t) : j <= i})]

(* Until the loop is done, only the calls being worked off are unanswered, *)
(* and what is answered and what is not are together what the model asked. *)
TalkInv ==
  /\ turns \in Nat
  /\ place \in {"loop", "try", "backoff", "retry", "calls", "done", "failed"}
  /\ talk \in Seq(Said) /\ said \in Seq(Seq(CallSet))
  /\ todo \in Seq(CallSet) /\ results \in Seq(CallSet)
  /\ Replayed(talk, said)
  /\ place # "done" => Preceded(talk)
  /\ place = "calls" => /\ talk # <<>>
                        /\ talk[Len(talk)] = Llm!ModelToolCalls(results \o todo)
                        /\ Closed(talk, Len(talk) - 1)
  /\ place \notin {"calls", "done"} => Closed(talk, Len(talk))

LEMMA AppendIs ==
  ASSUME NEW S, NEW t \in Seq(S), NEW m \in S
  PROVE  /\ Append(t, m) \in Seq(S) /\ Len(Append(t, m)) = Len(t) + 1
         /\ Len(t) \in Nat
         /\ \A i \in 1 .. Len(t) : Append(t, m)[i] = t[i]
         /\ Append(t, m)[Len(t) + 1] = m
OBVIOUS

LEMMA MessageKinds ==
  ASSUME NEW c \in Seq(CallSet)
  PROVE  /\ Llm!User \in Said /\ Llm!User.kind = "user"
         /\ Llm!ModelToolCalls(c) \in Said /\ Llm!ModelToolCalls(c).kind = "calls"
         /\ Llm!ModelToolCalls(c).calls = c
         /\ Llm!ToolResults(c) \in Said /\ Llm!ToolResults(c).kind = "results"
         /\ Llm!ToolResults(c).calls = c
BY DEF Said, Llm!User, Llm!ModelToolCalls, Llm!ToolResults

(* The rest of the conversation stays as it is when a message is added.    *)
LEMMA ClosedGrows ==
  ASSUME NEW t \in Seq(Said), NEW m \in Said, NEW n \in 0 .. Len(t), Closed(t, n)
  PROVE  Closed(Append(t, m), n)
<1> PICK u : u = Append(t, m)
  OBVIOUS
<1>1. /\ Len(u) = Len(t) + 1 /\ Len(t) \in Nat
      /\ \A i \in 1 .. Len(t) : u[i] = t[i]
  BY AppendIs
<1>2. ASSUME NEW i \in 1 .. n, u[i].kind = "calls"
      PROVE  i < Len(u) /\ u[i + 1] = Llm!ToolResults(u[i].calls)
  <2>1. i \in 1 .. Len(t) /\ u[i] = t[i]
    BY <1>1
  <2>2. i < Len(t) /\ t[i + 1] = Llm!ToolResults(t[i].calls)
    BY <1>2, <2>1 DEF Closed
  <2>3. i + 1 \in 1 .. Len(t) /\ i < Len(u)
    BY <1>1, <2>1, <2>2
  <2> QED
    BY ONLY <1>1, <2>1, <2>2, <2>3
<1>3. Closed(u, n)
  BY ONLY <1>2 DEF Closed
<1> QED
  BY <1>3

LEMMA PrecededGrows ==
  ASSUME NEW t \in Seq(Said), NEW m \in Said, Preceded(t),
         m.kind = "results" =>
           0 < Len(t) /\ t[Len(t)] = Llm!ModelToolCalls(m.calls)
  PROVE  Preceded(Append(t, m))
<1> PICK u : u = Append(t, m)
  OBVIOUS
<1>1. /\ Len(u) = Len(t) + 1 /\ Len(t) \in Nat
      /\ \A i \in 1 .. Len(t) : u[i] = t[i]
      /\ u[Len(t) + 1] = m
  BY AppendIs
<1>2. ASSUME NEW i \in 1 .. Len(u), u[i].kind = "results"
      PROVE  1 < i /\ u[i - 1] = Llm!ModelToolCalls(u[i].calls)
  <2>1. CASE i \in 1 .. Len(t)
    <3>1. 1 < i /\ t[i - 1] = Llm!ModelToolCalls(t[i].calls)
      BY <1>1, <1>2, <2>1 DEF Preceded
    <3>2. i - 1 \in 1 .. Len(t)
      BY ONLY <1>1, <2>1, <3>1
    <3> QED
      BY ONLY <1>1, <2>1, <3>1, <3>2
  <2>2. CASE i \notin 1 .. Len(t)
    <3>1. i = Len(t) + 1
      BY ONLY <1>1, <2>2, i \in 1 .. Len(u)
    <3>2. u[i] = m /\ 0 < Len(t) /\ t[Len(t)] = Llm!ModelToolCalls(m.calls)
      BY <1>1, <1>2, <3>1
    <3>3. i - 1 = Len(t) /\ Len(t) \in 1 .. Len(t) /\ 1 < i
      BY ONLY <1>1, <3>1, <3>2
    <3> QED
      BY ONLY <1>1, <3>2, <3>3
  <2> QED
    BY <2>1, <2>2
<1>3. Preceded(u)
  BY ONLY <1>2 DEF Preceded
<1> QED
  BY <1>3

LEMMA SameTurns ==
  ASSUME NEW t \in Seq(Said), NEW m \in Said, NEW s, m.kind # "calls", Replayed(t, s)
  PROVE  Replayed(Append(t, m), s)
<1> PICK u : u = Append(t, m)
  OBVIOUS
<1>1. /\ Len(u) = Len(t) + 1 /\ Len(t) \in Nat
      /\ \A i \in 1 .. Len(t) : u[i] = t[i]
      /\ u[Len(t) + 1] = m
  BY AppendIs
<1>2. 1 .. Len(u) = (1 .. Len(t)) \cup {Len(t) + 1}
  BY ONLY <1>1
<1>3. TurnsOf(u) = TurnsOf(t)
  BY <1>1, <1>2 DEF TurnsOf
<1>4. \A i \in TurnsOf(t) : u[i] = t[i]
  BY <1>1 DEF TurnsOf
<1> HIDE DEF TurnsOf
<1>5. Replayed(u, s)
  BY <1>3, <1>4 DEF Replayed
<1> QED
  BY <1>5

LEMMA OneTurnMore ==
  ASSUME NEW t \in Seq(Said), NEW s \in Seq(Seq(CallSet)), NEW c \in Seq(CallSet),
         Replayed(t, s)
  PROVE  Replayed(Append(t, Llm!ModelToolCalls(c)), Append(s, c))
<1> PICK m : m = Llm!ModelToolCalls(c)
  OBVIOUS
<1> PICK u : u = Append(t, m)
  OBVIOUS
<1> PICK v : v = Append(s, c)
  OBVIOUS
<1>0. m \in Said /\ m.kind = "calls" /\ m.calls = c
  BY MessageKinds
<1>1. /\ Len(u) = Len(t) + 1 /\ Len(t) \in Nat
      /\ \A i \in 1 .. Len(t) : u[i] = t[i]
      /\ u[Len(t) + 1] = m
  BY <1>0, AppendIs
<1>2. /\ Len(v) = Len(s) + 1 /\ Len(s) \in Nat
      /\ \A i \in 1 .. Len(s) : v[i] = s[i]
      /\ v[Len(s) + 1] = c
  BY AppendIs
<1>3. 1 .. Len(u) = (1 .. Len(t)) \cup {Len(t) + 1} /\ Len(t) + 1 \notin 1 .. Len(t)
  BY ONLY <1>1
<1>4. TurnsOf(u) = TurnsOf(t) \cup {Len(t) + 1} /\ Len(t) + 1 \notin TurnsOf(t)
  BY <1>0, <1>1, <1>3 DEF TurnsOf
<1>5. TurnsOf(t) \subseteq 1 .. Len(t) /\ IsFiniteSet(TurnsOf(t))
  <2>1. IsFiniteSet(1 .. Len(t))
    BY <1>1, FS_Interval
  <2> QED
    BY <2>1, FS_Subset DEF TurnsOf
<1> HIDE DEF TurnsOf
<1>6. Cardinality(TurnsOf(u)) = Len(s) + 1
  <2>1. Cardinality(TurnsOf(t) \cup {Len(t) + 1}) = Cardinality(TurnsOf(t)) + 1
    BY <1>4, <1>5, FS_AddElement
  <2> QED
    BY <1>4, <2>1 DEF Replayed
<1>7. ASSUME NEW i \in TurnsOf(u)
      PROVE  /\ Cardinality({j \in TurnsOf(u) : j <= i}) \in 1 .. Len(v)
             /\ u[i].calls = v[Cardinality({j \in TurnsOf(u) : j <= i})]
  <2>1. CASE i \in TurnsOf(t)
    <3>1. {j \in TurnsOf(u) : j <= i} = {j \in TurnsOf(t) : j <= i}
      <4>1. ~(Len(t) + 1 <= i)
        BY <1>1, <1>5, <2>1
      <4> QED
        BY <1>4, <4>1
    <3> PICK n : n = Cardinality({j \in TurnsOf(t) : j <= i})
      OBVIOUS
    <3>2. n \in 1 .. Len(s) /\ t[i].calls = s[n]
      BY <2>1 DEF Replayed
    <3>3. n \in 1 .. Len(v) /\ v[n] = s[n]
      BY ONLY <1>2, <3>2
    <3>4. u[i] = t[i]
      BY <1>1, <1>5, <2>1
    <3> QED
      BY <3>1, <3>2, <3>3, <3>4
  <2>2. CASE i \notin TurnsOf(t)
    <3>1. i = Len(t) + 1
      BY <1>4, <2>2
    <3>2. \A j \in TurnsOf(u) : j <= i
      BY <1>1, <1>4, <1>5, <3>1
    <3>3. {j \in TurnsOf(u) : j <= i} = TurnsOf(u)
      BY <3>2
    <3>4. Len(s) + 1 \in 1 .. Len(v)
      BY ONLY <1>2
    <3> QED
      BY <1>0, <1>1, <1>2, <1>6, <3>1, <3>3, <3>4
  <2> QED
    BY <2>1, <2>2
<1>8. Replayed(u, v)
  BY <1>2, <1>6, <1>7 DEF Replayed
<1> QED
  BY <1>8

LEMMA OneMoved ==
  ASSUME NEW S, NEW r \in Seq(S), NEW t \in Seq(S), t # <<>>
  PROVE  /\ Head(t) \in S /\ Tail(t) \in Seq(S) /\ Append(r, Head(t)) \in Seq(S)
         /\ Append(r, Head(t)) \o Tail(t) = r \o t
OBVIOUS

LEMMA RepliesAre ==
  ASSUME turns \in Nat, NEW c \in Llm!Replies
  PROVE  c \in Seq(CallSet)
<1> DEFINE Call(n) ==
      IF provider = "openai"
      THEN {[id |-> <<turns, n>>, sign |-> NoSign, known |-> b] : b \in BOOLEAN}
      ELSE {[id |-> NoId, sign |-> <<turns, n>>, known |-> TRUE],
            [id |-> NoId, sign |-> NoSign, known |-> FALSE]}
<1>1. ASSUME NEW n \in {1, 2} PROVE Call(n) \subseteq CallSet
  <2> PICK p : p = <<turns, n>>
    OBVIOUS
  <2>1. p \in Nat \X Nat
    OBVIOUS
  <2>2. \A b \in BOOLEAN : [id |-> p, sign |-> NoSign, known |-> b] \in CallSet
    BY ONLY <2>1 DEF CallSet, Ids
  <2>3. /\ [id |-> NoId, sign |-> p, known |-> TRUE] \in CallSet
        /\ [id |-> NoId, sign |-> NoSign, known |-> FALSE] \in CallSet
    BY ONLY <2>1 DEF CallSet, Ids
  <2> QED
    BY <2>2, <2>3
<1>2. c \in {<<e>> : e \in Call(1)} \cup {<<e, d>> : e \in Call(1), d \in Call(2)}
  BY DEF Llm!Replies
<1> HIDE DEF Call
<1>3. CASE \E e \in Call(1) : c = <<e>>
  BY <1>1, <1>3
<1>4. CASE \E e \in Call(1), d \in Call(2) : c = <<e, d>>
  BY <1>1, <1>4
<1> QED
  BY <1>2, <1>3, <1>4

LEMMA TalkInit == Llm!Init => TalkInv
<1> SUFFICES ASSUME Llm!Init PROVE TalkInv
  OBVIOUS
<1>1. talk = <<Llm!User>> /\ todo = <<>> /\ results = <<>> /\ said = <<>>
      /\ place = "loop" /\ turns = 0
  BY DEF Llm!Init
<1>2. Llm!User \in Said /\ Llm!User.kind = "user"
  BY DEF Llm!User, Said
<1>3. talk \in Seq(Said) /\ Len(talk) = 1 /\ talk[1] = Llm!User
  BY <1>1, <1>2
<1>4. \A i \in 1 .. Len(talk) : talk[i].kind = "user"
  BY <1>2, <1>3
<1>5. Preceded(talk) /\ Closed(talk, Len(talk))
  BY <1>4 DEF Preceded, Closed
<1>6. Replayed(talk, said)
  <2>1. TurnsOf(talk) = {}
    BY <1>4 DEF TurnsOf
  <2>2. Cardinality({}) = 0 /\ Len(said) = 0
    BY <1>1, FS_EmptySet
  <2> QED
    BY <2>1, <2>2 DEF Replayed
<1> QED
  BY <1>1, <1>3, <1>5, <1>6 DEF TalkInv

(* A request leaves the conversation alone until an answer arrives.        *)
LEMMA TalkRests ==
  ASSUME TalkInv, UNCHANGED <<turns, Llm!conversation>>, place \notin {"calls", "done"},
         place' \in {"loop", "try", "backoff", "retry", "done", "failed"}
  PROVE  TalkInv'
BY DEF TalkInv, Llm!conversation

LEMMA TalkReply ==
  ASSUME TalkInv, Llm!ReplyCalls
  PROVE  TalkInv'
<1>1. place \in {"try", "retry"} /\ turns' = turns /\ turns \in Nat
  BY DEF Llm!ReplyCalls, Llm!MayAnswer, TalkInv
<1>2. CASE last
  BY <1>1, <1>2, TalkRests DEF Llm!ReplyCalls
<1>3. CASE ~last
  <2>1. PICK c \in Llm!Replies :
          /\ talk' = Append(talk, Llm!ModelToolCalls(c))
          /\ said' = Append(said, c) /\ todo' = c /\ results' = <<>>
          /\ place' = "calls"
    BY <1>3 DEF Llm!ReplyCalls
  <2>2. c \in Seq(CallSet)
    BY <1>1, RepliesAre
  <2> PICK m : m = Llm!ModelToolCalls(c)
    OBVIOUS
  <2>3. m \in Said /\ m.kind = "calls"
    BY <2>2, MessageKinds
  <2>4. /\ talk \in Seq(Said) /\ said \in Seq(Seq(CallSet))
        /\ Replayed(talk, said) /\ Preceded(talk) /\ Closed(talk, Len(talk))
    BY <1>1 DEF TalkInv
  <2>5. /\ talk' \in Seq(Said) /\ Len(talk') = Len(talk) + 1 /\ Len(talk) \in Nat
        /\ talk'[Len(talk) + 1] = m
    BY <2>1, <2>3, <2>4, AppendIs
  <2>6. said' \in Seq(Seq(CallSet))
    BY <2>1, <2>2, <2>4, AppendIs
  <2>7. Replayed(talk', said')
    BY <2>1, <2>2, <2>4, OneTurnMore
  <2>8. Preceded(talk')
    BY <2>1, <2>3, <2>4, PrecededGrows
  <2>9. Closed(talk', Len(talk') - 1)
    <3>1. Closed(Append(talk, m), Len(talk))
      BY <2>3, <2>4, <2>5, ClosedGrows
    <3>2. Len(talk') - 1 = Len(talk)
      BY ONLY <2>5
    <3> QED
      BY <2>1, <3>1, <3>2
  <2>10. results' \o todo' = c /\ results' \in Seq(CallSet)
    BY <2>1, <2>2, ConcatEmptySeq
  <2>11. talk' # <<>> /\ talk'[Len(talk')] = m
    BY <2>5
  <2> QED
    BY <1>1, <2>1, <2>2, <2>5, <2>6, <2>7, <2>8, <2>9, <2>10, <2>11 DEF TalkInv
<1> QED
  BY <1>2, <1>3

(* The results of the calls of the last message follow it.                 *)
LEMMA ResultsFollow ==
  ASSUME NEW t \in Seq(Said), NEW c \in Seq(CallSet), t # <<>>,
         t[Len(t)] = Llm!ModelToolCalls(c), Closed(t, Len(t) - 1), Preceded(t)
  PROVE  /\ Closed(Append(t, Llm!ToolResults(c)), Len(t) + 1)
         /\ Preceded(Append(t, Llm!ToolResults(c)))
<1> PICK m : m = Llm!ToolResults(c)
  OBVIOUS
<1> PICK u : u = Append(t, m)
  OBVIOUS
<1>0. m \in Said /\ m.kind = "results" /\ m.calls = c
  BY MessageKinds
<1>1. /\ Len(u) = Len(t) + 1 /\ Len(t) \in Nat /\ 0 < Len(t)
      /\ \A i \in 1 .. Len(t) : u[i] = t[i]
      /\ u[Len(t) + 1] = m
  BY <1>0, AppendIs
<1>2. Closed(u, Len(t) - 1)
  BY <1>0, <1>1, ClosedGrows
<1>3. ASSUME NEW i \in 1 .. Len(t) + 1, u[i].kind = "calls"
      PROVE  i < Len(u) /\ u[i + 1] = Llm!ToolResults(u[i].calls)
  <2>1. CASE i \in 1 .. Len(t) - 1
    BY <1>2, <1>3, <2>1 DEF Closed
  <2>2. CASE i = Len(t)
    <3>1. u[i] = Llm!ModelToolCalls(c) /\ u[i].calls = c
      BY <1>1, <2>2, MessageKinds
    <3> QED
      BY <1>1, <2>2, <3>1
  <2>3. CASE i = Len(t) + 1
    BY <1>0, <1>1, <1>3, <2>3
  <2>4. i \in 1 .. Len(t) - 1 \/ i = Len(t) \/ i = Len(t) + 1
    BY ONLY <1>1, i \in 1 .. Len(t) + 1
  <2> QED
    BY <2>1, <2>2, <2>3, <2>4
<1>4. Closed(u, Len(t) + 1)
  BY ONLY <1>3 DEF Closed
<1>5. Preceded(u)
  BY <1>0, <1>1, PrecededGrows
<1> QED
  BY <1>4, <1>5

LEMMA TalkEnd ==
  ASSUME TalkInv, Llm!EndTurn
  PROVE  TalkInv'
<1> PICK m : m = Llm!ToolResults(results)
  OBVIOUS
<1> PICK u : u = Append(talk, m)
  OBVIOUS
<1>1. /\ place = "calls" /\ todo = <<>>
      /\ turns' = turns /\ todo' = todo /\ results' = results /\ said' = said
      /\ \/ talk' = talk \o <<m, Llm!User>> /\ place' = "loop"
         \/ talk' = u /\ place' = "done"
  BY DEF Llm!EndTurn
<1>2. /\ talk \in Seq(Said) /\ said \in Seq(Seq(CallSet)) /\ results \in Seq(CallSet)
      /\ talk # <<>> /\ talk[Len(talk)] = Llm!ModelToolCalls(results \o todo)
      /\ Closed(talk, Len(talk) - 1) /\ Preceded(talk) /\ Replayed(talk, said)
  BY <1>1 DEF TalkInv
<1>3. results \o todo = results
  BY <1>1, <1>2, ConcatEmptySeq
<1>4. m \in Said /\ m.kind = "results" /\ Llm!User \in Said /\ Llm!User.kind = "user"
  BY <1>2, MessageKinds
<1>5. u \in Seq(Said) /\ Len(u) = Len(talk) + 1 /\ Len(talk) \in Nat
  BY <1>2, <1>4, AppendIs
<1>6. Closed(u, Len(u)) /\ Preceded(u)
  BY <1>2, <1>3, <1>5, ResultsFollow
<1>7. Replayed(u, said)
  BY <1>2, <1>4, SameTurns
<1>8. CASE talk' = talk \o <<m, Llm!User>> /\ place' = "loop"
  <2> PICK w : w = Append(u, Llm!User)
    OBVIOUS
  <2>1. talk' = w
    BY <1>2, <1>4, <1>8
  <2>2. w \in Seq(Said) /\ Len(w) = Len(u) + 1 /\ w[Len(u) + 1] = Llm!User
    BY <1>4, <1>5, AppendIs
  <2>3. Preceded(w) /\ Closed(w, Len(u))
    <3>1. Len(u) \in 0 .. Len(u)
      BY <1>5
    <3> QED
      BY <1>4, <1>5, <1>6, <3>1, PrecededGrows, ClosedGrows
  <2>4. Closed(w, Len(w))
    <3> SUFFICES ASSUME NEW i \in 1 .. Len(w), w[i].kind = "calls"
                 PROVE  i < Len(w) /\ w[i + 1] = Llm!ToolResults(w[i].calls)
      BY DEF Closed
    <3>1. i # Len(u) + 1
      BY <1>4, <2>2
    <3>2. i \in 1 .. Len(u)
      BY ONLY <1>5, <2>2, <3>1, i \in 1 .. Len(w)
    <3> QED
      BY <2>3, <3>2 DEF Closed
  <2>5. Replayed(w, said)
    BY <1>4, <1>5, <1>7, SameTurns
  <2> QED
    BY <1>1, <1>8, <2>1, <2>2, <2>3, <2>4, <2>5 DEF TalkInv
<1>9. CASE talk' = u /\ place' = "done"
  BY <1>1, <1>5, <1>7, <1>9 DEF TalkInv
<1> QED
  BY <1>1, <1>8, <1>9

LEMMA TalkStep == TalkInv /\ [Llm!Next]_(Llm!vars) => TalkInv'
<1> SUFFICES ASSUME TalkInv, [Llm!Next]_(Llm!vars) PROVE TalkInv'
  OBVIOUS
<1>1. CASE Llm!NextTurn
  BY <1>1 DEF Llm!NextTurn, Llm!BeginRequest, Llm!conversation, TalkInv
<1>2. CASE Llm!CapReached
  <2>0. place = "loop"
    BY <1>2 DEF Llm!CapReached
  <2>1. CASE place' = "done" /\ UNCHANGED talk
    BY <1>2, <2>0, <2>1, TalkRests DEF Llm!CapReached, Llm!conversation
  <2>2. CASE talk' = Append(talk, Llm!User) /\ place' = "try"
    <3> PICK w : w = Append(talk, Llm!User)
      OBVIOUS
    <3>1. /\ talk \in Seq(Said) /\ Closed(talk, Len(talk)) /\ Preceded(talk)
          /\ Replayed(talk, said) /\ Llm!User \in Said /\ Llm!User.kind = "user"
      BY <2>0 DEF TalkInv, Said, Llm!User
    <3>2. /\ w \in Seq(Said) /\ Len(w) = Len(talk) + 1 /\ w[Len(talk) + 1] = Llm!User
          /\ Len(talk) \in Nat
      BY <3>1, AppendIs
    <3>3. Preceded(w) /\ Closed(w, Len(talk))
      <4>1. Len(talk) \in 0 .. Len(talk)
        BY <3>2
      <4> QED
        BY <3>1, <4>1, PrecededGrows, ClosedGrows
    <3>4. Closed(w, Len(w))
      <4> SUFFICES ASSUME NEW i \in 1 .. Len(w), w[i].kind = "calls"
                   PROVE  i < Len(w) /\ w[i + 1] = Llm!ToolResults(w[i].calls)
        BY DEF Closed
      <4>1. i # Len(talk) + 1
        BY <3>1, <3>2
      <4>2. i \in 1 .. Len(talk)
        BY ONLY <3>2, <4>1, i \in 1 .. Len(w)
      <4> QED
        BY <3>3, <4>2 DEF Closed
    <3>5. Replayed(w, said)
      BY <3>1, SameTurns
    <3>6. talk' = w /\ UNCHANGED <<turns, todo, results, said>>
      BY <1>2, <2>2 DEF Llm!CapReached
    <3> QED
      BY <2>2, <3>2, <3>3, <3>4, <3>5, <3>6 DEF TalkInv
  <2> QED
    BY <1>2, <2>1, <2>2 DEF Llm!CapReached, Llm!BeginRequest
<1>3. CASE Llm!KeyFails
  BY <1>3, TalkRests DEF Llm!KeyFails, Llm!NextKey
<1>4. CASE Llm!Backoff
  BY <1>4, TalkRests DEF Llm!Backoff
<1>5. CASE Llm!RetryFails
  BY <1>5, TalkRests DEF Llm!RetryFails, Llm!NextKey
<1>6. CASE Llm!ReplyText
  BY <1>6, TalkRests DEF Llm!ReplyText, Llm!MayAnswer
<1>7. CASE Llm!ReplyCalls
  BY <1>7, TalkReply
<1>8. CASE Llm!AnswerCall
  <2>1. /\ place = "calls" /\ todo # <<>>
        /\ results' = Append(results, Head(todo)) /\ todo' = Tail(todo)
        /\ UNCHANGED <<place, turns, talk, said>>
    BY <1>8 DEF Llm!AnswerCall
  <2>2. results \in Seq(CallSet) /\ todo \in Seq(CallSet)
    BY DEF TalkInv
  <2>3. /\ Tail(todo) \in Seq(CallSet) /\ Append(results, Head(todo)) \in Seq(CallSet)
        /\ Append(results, Head(todo)) \o Tail(todo) = results \o todo
    BY ONLY <2>1, <2>2, OneMoved
  <2>4. results' \in Seq(CallSet) /\ todo' \in Seq(CallSet)
        /\ results' \o todo' = results \o todo
    BY ONLY <2>1, <2>3
  <2> QED
    BY <2>1, <2>4 DEF TalkInv
<1>9. CASE Llm!StopMidTurn
  <2>1. /\ place = "calls" /\ place' = "done" /\ todo' = <<>>
        /\ talk' = Append(talk, Llm!ToolResults(results))
        /\ UNCHANGED <<turns, results, said>>
    BY <1>9 DEF Llm!StopMidTurn
  <2>2. results \in Seq(CallSet) /\ talk \in Seq(Said) /\ Replayed(talk, said)
    BY DEF TalkInv
  <2>3. Llm!ToolResults(results) \in Said /\ Llm!ToolResults(results).kind = "results"
    BY <2>2, MessageKinds
  <2>4. talk' \in Seq(Said) /\ Replayed(talk', said)
    BY <2>1, <2>2, <2>3, AppendIs, SameTurns
  <2> QED
    BY <2>1, <2>4 DEF TalkInv
<1>10. CASE Llm!EndTurn
  BY <1>10, TalkEnd
<1>11. CASE UNCHANGED Llm!vars
  BY <1>11 DEF Llm!vars, Llm!conversation, TalkInv
<1> QED
  BY <1>1, <1>2, <1>3, <1>4, <1>5, <1>6, <1>7, <1>8, <1>9, <1>10, <1>11
  DEF Llm!Next

(* The wire form of a message.                                             *)
ResultOf(id) == [role |-> "tool", ids |-> <<id>>]
Wire == [role : {"user", "assistant", "tool"}, ids : Seq(Ids)]

Formed(kind, c, q) ==
  /\ kind \in {"user", "calls", "results"} /\ c \in Seq(CallSet)
  /\ kind = "user" => Len(q) = 1 /\ q[1].role = "user"
  /\ kind = "calls" =>
       /\ Len(q) = 1 /\ q[1].role = "assistant" /\ DOMAIN q[1].ids = 1 .. Len(c)
       /\ \A n \in 1 .. Len(c) : q[1].ids[n] = c[n].id
  /\ kind = "results" =>
       /\ Len(q) = Len(c)
       /\ \A n \in 1 .. Len(c) : q[n] = ResultOf(c[n].id) /\ q[n].role = "tool"

LEMMA MessagesAre ==
  ASSUME NEW m \in Said, NEW c, c = m.calls, NEW q, q = Llm!OpenAIMessages(m)
  PROVE  q \in Seq(Wire) /\ Formed(m.kind, c, q)
<1>1. m.kind \in {"user", "calls", "results"} /\ c \in Seq(CallSet)
  BY DEF Said
<1>2. DOMAIN c = 1 .. Len(c) /\ Len(c) \in Nat /\ \A n \in 1 .. Len(c) : c[n] \in CallSet
  BY <1>1
<1>3. \A x \in CallSet : x.id \in Ids
  BY DEF CallSet
<1>4. \A n \in 1 .. Len(c) : c[n].id \in Ids
  BY ONLY <1>2, <1>3
<1>5. CASE m.kind = "user"
  <2> PICK x : x = [role |-> "user", ids |-> <<>>]
    OBVIOUS
  <2>1. q = <<x>>
    BY <1>5 DEF Llm!OpenAIMessages
  <2>2. x \in Wire /\ x.role = "user"
    BY DEF Wire
  <2> QED
    BY <1>1, <1>5, <2>1, <2>2 DEF Formed
<1>6. CASE m.kind = "calls"
  <2> PICK i : i = [n \in 1 .. Len(c) |-> c[n].id]
    OBVIOUS
  <2> PICK x : x = [role |-> "assistant", ids |-> i]
    OBVIOUS
  <2>1. q = <<x>>
    BY <1>2, <1>6 DEF Llm!OpenAIMessages
  <2>2. i \in Seq(Ids) /\ DOMAIN i = 1 .. Len(c) /\ \A n \in 1 .. Len(c) : i[n] = c[n].id
    BY ONLY <1>2, <1>4, i = [n \in 1 .. Len(c) |-> c[n].id]
  <2>3. x \in Wire /\ x.role = "assistant" /\ x.ids = i
    BY <2>2 DEF Wire
  <2>4. q \in Seq(Wire) /\ Len(q) = 1 /\ q[1] = x
    BY ONLY <2>1, <2>3
  <2> QED
    BY ONLY <1>1, <1>6, <2>2, <2>3, <2>4, Zenon DEF Formed
<1>7. CASE m.kind = "results"
  <2>1. q = [n \in 1 .. Len(c) |-> ResultOf(c[n].id)]
    BY <1>2, <1>7 DEF Llm!OpenAIMessages, ResultOf
  <2>2. \A id \in Ids : ResultOf(id) \in Wire /\ ResultOf(id).role = "tool"
    BY DEF ResultOf, Wire
  <2>3. \A n \in 1 .. Len(c) : ResultOf(c[n].id) \in Wire /\ ResultOf(c[n].id).role = "tool"
    BY ONLY <1>4, <2>2
  <2>4. q \in Seq(Wire) /\ Len(q) = Len(c) /\ \A n \in 1 .. Len(c) : q[n] = ResultOf(c[n].id)
    BY ONLY <1>2, <2>1, <2>3
  <2> QED
    BY <1>1, <1>7, <2>3, <2>4 DEF Formed
<1> QED
  BY <1>1, <1>5, <1>6, <1>7

LEMMA ContentsAre ==
  ASSUME NEW m \in Said, NEW c, c = m.calls, NEW q, q = Llm!GeminiContent(m)
  PROVE  /\ m.kind \in {"user", "calls", "results"} /\ c \in Seq(CallSet)
         /\ q.role = "model" <=> m.kind = "calls"
         /\ m.kind = "results" => q.role = "user" /\ Len(q.parts) = Len(c)
         /\ m.kind = "calls" =>
              /\ Len(q.parts) = Len(c)
              /\ \A n \in DOMAIN c : q.parts[n] = <<c[n].id, c[n].sign>>
<1>1. m.kind \in {"user", "calls", "results"} /\ c \in Seq(CallSet)
  BY DEF Said
<1>2. CASE m.kind = "user"
  BY <1>1, <1>2 DEF Llm!GeminiContent
<1>3. CASE m.kind = "calls"
  <2> PICK p : p = [n \in DOMAIN c |-> <<c[n].id, c[n].sign>>]
    OBVIOUS
  <2>1. q = [role |-> "model", parts |-> p]
    BY <1>3 DEF Llm!GeminiContent
  <2>2. Len(p) = Len(c) /\ \A n \in DOMAIN c : p[n] = <<c[n].id, c[n].sign>>
    BY <1>1
  <2> QED
    BY <1>1, <1>3, <2>1, <2>2
<1>4. CASE m.kind = "results"
  <2> PICK p : p = [n \in DOMAIN c |-> c[n].id]
    OBVIOUS
  <2>1. q = [role |-> "user", parts |-> p]
    BY <1>4 DEF Llm!GeminiContent
  <2>2. Len(p) = Len(c)
    BY <1>1
  <2> QED
    BY <1>1, <1>4, <2>1, <2>2
<1> QED
  BY <1>1, <1>2, <1>3, <1>4

(* Gemini: every turn of the model is there as it came, and answered.      *)
LEMMA SameCounts ==
  \A S : Llm!Cardinality(S) = Cardinality(S)
BY DEF Llm!Cardinality, Cardinality

LEMMA TurnsAreReplayed ==
  ASSUME TalkInv, place \in {"try", "retry"}
  PROVE  Llm!TurnsReplayed
<1> DEFINE model == {i \in DOMAIN Llm!Contents : Llm!Contents[i].role = "model"}
           turn(i) == Llm!Cardinality({j \in model : j <= i})
<1>1. /\ talk \in Seq(Said) /\ Closed(talk, Len(talk)) /\ Replayed(talk, said)
      /\ DOMAIN talk = 1 .. Len(talk) /\ Len(talk) \in Nat
  BY DEF TalkInv
<1> PICK wire : wire = Llm!Contents
  OBVIOUS
<1>2. /\ DOMAIN wire = 1 .. Len(talk)
      /\ \A i \in 1 .. Len(talk) : talk[i] \in Said /\ wire[i] = Llm!GeminiContent(talk[i])
  BY <1>1 DEF Llm!Contents
<1>3. \A i \in 1 .. Len(talk) : wire[i].role = "model" <=> talk[i].kind = "calls"
  BY <1>2, ContentsAre
<1>4. model = TurnsOf(talk)
  BY <1>2, <1>3 DEF TurnsOf
<1>5. ASSUME NEW i \in TurnsOf(talk)
      PROVE  /\ wire[i + 1].role = "user"
             /\ Len(wire[i + 1].parts) = Len(wire[i].parts)
             /\ \A n \in DOMAIN talk[i].calls :
                  wire[i].parts[n] = <<talk[i].calls[n].id, talk[i].calls[n].sign>>
  <2> PICK calls1 : calls1 = talk[i].calls
    OBVIOUS
  <2>1. i \in 1 .. Len(talk) /\ talk[i].kind = "calls" /\ calls1 \in Seq(CallSet)
    BY <1>2, ContentsAre DEF TurnsOf
  <2>2. i + 1 \in 1 .. Len(talk) /\ talk[i + 1] = Llm!ToolResults(calls1)
    BY <1>1, <2>1 DEF Closed
  <2>3. talk[i + 1].kind = "results" /\ talk[i + 1].calls = calls1
    BY <2>1, <2>2, MessageKinds
  <2>4. /\ Len(wire[i].parts) = Len(calls1)
        /\ \A n \in DOMAIN calls1 : wire[i].parts[n] = <<calls1[n].id, calls1[n].sign>>
    BY <1>2, <2>1, ContentsAre
  <2>5. wire[i + 1].role = "user" /\ Len(wire[i + 1].parts) = Len(calls1)
    BY <1>2, <2>2, <2>3, ContentsAre
  <2> QED
    BY <2>4, <2>5
<1>6. \A i \in model : turn(i) = Cardinality({j \in TurnsOf(talk) : j <= i})
  BY <1>4, SameCounts
<1>7. Llm!Cardinality(model) = Len(said)
      /\ \A i \in model : said[turn(i)] = talk[i].calls
  BY <1>1, <1>4, <1>6, SameCounts DEF Replayed
<1> HIDE DEF model, turn
<1>8. \A i \in model :
        /\ wire[i + 1].role = "user"
        /\ Len(wire[i + 1].parts) = Len(wire[i].parts)
        /\ \A n \in DOMAIN said[turn(i)] :
             wire[i].parts[n] = <<said[turn(i)][n].id, said[turn(i)][n].sign>>
  BY <1>4, <1>5, <1>7
<1> QED
  BY ONLY <1>7, <1>8, wire = Llm!Contents DEF model, turn, Llm!TurnsReplayed

(* OpenAI: one result for each call at once, and no other results.         *)
LEMMA ResultsDoAdjoin ==
  ASSUME TalkInv, place \in {"try", "retry"}
  PROVE  Llm!ResultsAdjoin
<1> PICK seqs : seqs = [i \in DOMAIN talk |-> Llm!OpenAIMessages(talk[i])]
  OBVIOUS
<1>1. /\ talk \in Seq(Said) /\ Closed(talk, Len(talk)) /\ Preceded(talk)
      /\ DOMAIN talk = 1 .. Len(talk) /\ Len(talk) \in Nat
  BY DEF TalkInv
<1>2. \A k \in 1 .. Len(talk) : talk[k] \in Said
  BY <1>1
<1>3. \A m \in Said : Llm!OpenAIMessages(m) \in Seq(Wire)
  BY MessagesAre
<1>4. /\ seqs \in Seq(Seq(Wire)) /\ Len(seqs) = Len(talk)
      /\ \A k \in 1 .. Len(talk) : seqs[k] = Llm!OpenAIMessages(talk[k])
  BY <1>1, <1>2, <1>3
<1> PICK wire : wire = Llm!FlattenSeq(seqs)
  OBVIOUS
<1>5. Llm!Messages = wire
  BY DEF Llm!Messages
<1>6. PICK off : /\ off \in [0 .. Len(talk) -> Nat] /\ off[0] = 0
                 /\ \A k \in 1 .. Len(talk) : off[k] = off[k - 1] + Len(seqs[k])
                 /\ wire \in Seq(Wire) /\ Laid(off, seqs, wire, Len(talk))
  BY ONLY <1>4, FlattenIs, wire = Llm!FlattenSeq(seqs)
<1> HIDE DEF Wire
<1>7. /\ DOMAIN wire = 1 .. Len(wire) /\ Len(wire) \in Nat
      /\ \A k \in 1 .. Len(talk) : \A m \in 1 .. Len(seqs[k]) :
           off[k - 1] + m \in 1 .. Len(wire) /\ wire[off[k - 1] + m] = seqs[k][m]
      /\ \A i \in 1 .. Len(wire) : \E k \in 1 .. Len(talk) : \E m \in 1 .. Len(seqs[k]) :
           i = off[k - 1] + m
  <2>1. wire \in Seq(Wire) /\ Laid(off, seqs, wire, Len(talk))
    BY <1>6
  <2>2. DOMAIN wire = 1 .. Len(wire) /\ Len(wire) \in Nat
    BY ONLY <2>1
  <2> QED
    BY ONLY <2>1, <2>2 DEF Laid
<1>8. \A k \in 1 .. Len(talk) : Formed(talk[k].kind, talk[k].calls, seqs[k])
  BY <1>2, <1>4, MessagesAre
<1>9. ASSUME NEW i \in 1 .. Len(wire)
      PROVE  \E k \in 1 .. Len(talk) : \E m \in 1 .. Len(seqs[k]) :
               /\ i = off[k - 1] + m /\ wire[i] = seqs[k][m]
               /\ wire[i].role = "assistant" => talk[k].kind = "calls"
               /\ wire[i].role = "tool" => talk[k].kind = "results"
  <2>1. PICK k \in 1 .. Len(talk) : \E m \in 1 .. Len(seqs[k]) : i = off[k - 1] + m
    BY <1>7
  <2>2. PICK m \in 1 .. Len(seqs[k]) : i = off[k - 1] + m
    BY <2>1
  <2> PICK q : q = seqs[k]
    OBVIOUS
  <2> PICK c : c = talk[k].calls
    OBVIOUS
  <2>3. wire[i] = q[m]
    BY <1>7, <2>2
  <2> PICK kind : kind = talk[k].kind
    OBVIOUS
  <2>4. Formed(kind, c, q) /\ m \in 1 .. Len(q)
    BY <1>8
  <2>5. /\ kind = "user" => q[m].role = "user"
        /\ kind = "calls" => q[m].role = "assistant"
        /\ kind = "results" => q[m].role = "tool"
        /\ kind \in {"user", "calls", "results"}
    BY ONLY <2>4 DEF Formed
  <2>6. /\ q[m].role = "assistant" => talk[k].kind = "calls"
        /\ q[m].role = "tool" => talk[k].kind = "results"
    BY ONLY <2>5, kind = talk[k].kind
  <2> QED
    BY <2>2, <2>3, <2>6
<1>10. ASSUME NEW i \in 1 .. Len(wire), wire[i].role = "assistant",
              NEW n \in DOMAIN wire[i].ids
       PROVE  i + n <= Len(wire) /\ wire[i + n] = ResultOf(wire[i].ids[n])
  <2>1. PICK k \in 1 .. Len(talk) : \E m \in 1 .. Len(seqs[k]) :
          i = off[k - 1] + m /\ wire[i] = seqs[k][m] /\ talk[k].kind = "calls"
    BY <1>9, <1>10
  <2>2. PICK m \in 1 .. Len(seqs[k]) : i = off[k - 1] + m /\ wire[i] = seqs[k][m]
    BY <2>1
  <2> PICK c : c = talk[k].calls
    OBVIOUS
  <2> PICK q : q = seqs[k]
    OBVIOUS
  <2>3. Formed("calls", c, q) /\ m \in 1 .. Len(q) /\ wire[i] = q[m]
    BY <1>8, <2>1, <2>2
  <2>4. /\ c \in Seq(CallSet) /\ Len(q) = 1 /\ m = 1
        /\ n \in 1 .. Len(c) /\ wire[i].ids[n] = c[n].id
    <3>1. /\ c \in Seq(CallSet) /\ Len(q) = 1 /\ DOMAIN q[1].ids = 1 .. Len(c)
          /\ \A x \in 1 .. Len(c) : q[1].ids[x] = c[x].id
      BY ONLY <2>3, Zenon DEF Formed
    <3>2. m = 1
      BY ONLY <2>3, <3>1
    <3>3. wire[i] = q[1] /\ n \in 1 .. Len(c)
      BY ONLY <2>3, <3>1, <3>2, n \in DOMAIN wire[i].ids
    <3> QED
      BY ONLY <3>1, <3>2, <3>3
  <2>5. k + 1 \in 1 .. Len(talk) /\ talk[k + 1] = Llm!ToolResults(c)
    BY <1>1, <2>1 DEF Closed
  <2>6. talk[k + 1].kind = "results" /\ talk[k + 1].calls = c
    BY <2>4, <2>5, MessageKinds
  <2>7. n \in 1 .. Len(seqs[k + 1]) /\ seqs[k + 1][n] = ResultOf(c[n].id)
    <3>1. Formed("results", c, seqs[k + 1])
      BY <1>8, <2>5, <2>6
    <3> QED
      BY ONLY <2>4, <3>1 DEF Formed
  <2>8. k + 1 - 1 = k /\ k - 1 \in 0 .. Len(talk)
    BY <1>1
  <2>9. off[k - 1] \in Nat /\ off[k] = off[k - 1] + 1 /\ i = off[k - 1] + 1
    <3>1. Len(seqs[k]) = 1
      BY <2>4
    <3> QED
      BY ONLY <1>6, <2>2, <2>4, <2>8, <3>1, k \in 1 .. Len(talk)
  <2>10. i + n \in 1 .. Len(wire) /\ wire[i + n] = seqs[k + 1][n]
    <3> PICK p : p = k + 1
      OBVIOUS
    <3>0. p \in 1 .. Len(talk) /\ n \in 1 .. Len(seqs[p])
      BY ONLY <2>5, <2>7, p = k + 1
    <3>1. off[p - 1] + n \in 1 .. Len(wire) /\ wire[off[p - 1] + n] = seqs[p][n]
      BY ONLY <1>7, <3>0
    <3>2. off[p - 1] = i
      BY ONLY <2>8, <2>9, p = k + 1
    <3> QED
      BY ONLY <3>1, <3>2, p = k + 1
  <2>11. i + n <= Len(wire)
    BY ONLY <1>7, <2>10
  <2> QED
    BY ONLY <2>4, <2>7, <2>10, <2>11
<1>11. ASSUME NEW i \in 1 .. Len(wire), wire[i].role = "tool"
       PROVE  \E j \in 1 .. i - 1 : /\ wire[j].role = "assistant"
                                    /\ i - j \in DOMAIN wire[j].ids
  <2>1. PICK k \in 1 .. Len(talk) : \E m \in 1 .. Len(seqs[k]) :
          i = off[k - 1] + m /\ wire[i] = seqs[k][m] /\ talk[k].kind = "results"
    BY <1>9, <1>11
  <2>2. PICK m \in 1 .. Len(seqs[k]) : i = off[k - 1] + m
    BY <2>1
  <2> PICK c : c = talk[k].calls
    OBVIOUS
  <2>3. c \in Seq(CallSet) /\ m \in 1 .. Len(c)
    <3>1. Formed("results", c, seqs[k])
      BY <1>8, <2>1
    <3> QED
      BY ONLY <3>1, m \in 1 .. Len(seqs[k]) DEF Formed
  <2> PICK h : h = k - 1
    OBVIOUS
  <2>4. h \in 1 .. Len(talk) /\ talk[h] = Llm!ModelToolCalls(c)
    BY <1>1, <2>1 DEF Preceded
  <2>5. talk[h].kind = "calls" /\ talk[h].calls = c
    BY <2>3, <2>4, MessageKinds
  <2>6. Len(seqs[h]) = 1 /\ seqs[h][1].role = "assistant"
        /\ DOMAIN seqs[h][1].ids = 1 .. Len(c)
    <3>1. Formed("calls", c, seqs[h])
      BY <1>8, <2>4, <2>5
    <3> QED
      BY ONLY <3>1 DEF Formed
  <2> PICK j : j = off[h - 1] + 1
    OBVIOUS
  <2>7. j \in 1 .. Len(wire) /\ wire[j] = seqs[h][1]
    <3>1. 1 \in 1 .. Len(seqs[h])
      BY <2>6
    <3> QED
      BY ONLY <1>7, <2>4, <3>1, j = off[h - 1] + 1
  <2>8. off[h] = j
    BY ONLY <1>6, <2>4, <2>6, j = off[h - 1] + 1
  <2>9. i = j + m
    BY <2>2, <2>8
  <2>10. j \in 1 .. i - 1 /\ i - j = m
    BY ONLY <1>7, <2>3, <2>7, <2>9
  <2>11. m \in DOMAIN wire[j].ids
    BY ONLY <2>3, <2>6, <2>7
  <2> QED
    BY <2>6, <2>7, <2>10, <2>11
<1>12. \A x : ResultOf(x) = [role |-> "tool", ids |-> <<x>>]
  BY DEF ResultOf
<1> QED
  BY ONLY <1>5, <1>7, <1>10, <1>11, <1>12 DEF Llm!ResultsAdjoin

LEMMA TalkIsAnswered == TalkInv => Llm!CallsAnswered
BY TurnsAreReplayed, ResultsDoAdjoin DEF Llm!CallsAnswered, Llm!Requesting

-----------------------------------------------------------------------------
(* The embedding client and its cache (Embed).                             *)

(* Embeddings of the backend's dimension, or empty ones.                   *)
Fit(f) == \A t \in DOMAIN f : f[t] \in {ApiDim, Embed!Empty}

(* Placing keeps what is placed, and has the chunks of both.               *)
LEMMA OverFits ==
  ASSUME NEW f, NEW g
  PROVE  /\ DOMAIN Embed!Over(f, g) = DOMAIN f \cup DOMAIN g
         /\ Fit(f) /\ Fit(g) => Fit(Embed!Over(f, g))
BY DEF Fit, Embed!Over

LEMMA PaddedHas ==
  ASSUME NEW texts, NEW f
  PROVE  texts \subseteq DOMAIN Embed!Padded(texts, f)
BY OverFits DEF Embed!Padded

LEMMA NothingFits == Fit(Embed!Nothing) /\ \A texts : Fit(Embed!Padded(texts, Embed!Nothing))
BY DEF Fit, Embed!Nothing, Embed!Padded, Embed!Over

(* What the state of one worker satisfies: the backend's answers have its  *)
(* dimension; an answered file has left the lookup for good and has only   *)
(* fitting embeddings; and while the misses are asked for, nothing but     *)
(* empty embeddings is placed.                                             *)
FileOk(where, texts, why, fresh, placed, fixed) ==
  /\ texts \subseteq DOMAIN placed
  /\ Fit(fresh)
  /\ fixed => why = "rehits" /\ where \notin {"idle", "lookup"} /\ Fit(placed)
  /\ where = "lookup" => Fit(placed)
  /\ why = "misses" /\ where \in {"begin", "try", "backoff", "put"} => Fit(placed)

OnWorkers(f) == f = [w \in Workers |-> f[w]]

DimensionInv ==
  /\ OnWorkers(step) /\ OnWorkers(own) /\ OnWorkers(phase)
  /\ OnWorkers(got) /\ OnWorkers(result) /\ OnWorkers(answered)
  /\ \A w \in Workers :
       FileOk(step[w], own[w], phase[w], got[w], result[w], answered[w])

LEMMA DimensionInit == Embed!Init => DimensionInv
BY NothingFits DEF Embed!Init, DimensionInv, OnWorkers, FileOk

(* A step of worker w changes only its own entries.                        *)
Only(w, f, g) == g = [f EXCEPT ![w] = g[w]]

LEMMA OneWorker ==
  ASSUME DimensionInv, NEW w \in Workers,
         Only(w, step, step'), Only(w, own, own'), Only(w, phase, phase'),
         Only(w, got, got'), Only(w, result, result'), Only(w, answered, answered'),
         FileOk(step'[w], own'[w], phase'[w], got'[w], result'[w], answered'[w])
  PROVE  DimensionInv'
<1>1. /\ OnWorkers(step) /\ OnWorkers(own) /\ OnWorkers(phase)
      /\ OnWorkers(got) /\ OnWorkers(result) /\ OnWorkers(answered)
      /\ \A v \in Workers :
           FileOk(step[v], own[v], phase[v], got[v], result[v], answered[v])
  BY DEF DimensionInv
<1>2. ASSUME NEW f, NEW g, OnWorkers(f), Only(w, f, g)
      PROVE  OnWorkers(g) /\ \A v \in Workers \ {w} : g[v] = f[v]
  BY <1>2 DEF OnWorkers, Only
<1>3. /\ OnWorkers(step') /\ OnWorkers(own') /\ OnWorkers(phase')
      /\ OnWorkers(got') /\ OnWorkers(result') /\ OnWorkers(answered')
  BY <1>1, <1>2
<1>4. ASSUME NEW v \in Workers
      PROVE  FileOk(step'[v], own'[v], phase'[v], got'[v], result'[v], answered'[v])
  <2>1. CASE v = w
    BY <2>1
  <2>2. CASE v # w
    <3>1. /\ step'[v] = step[v] /\ own'[v] = own[v] /\ phase'[v] = phase[v]
          /\ got'[v] = got[v] /\ result'[v] = result[v] /\ answered'[v] = answered[v]
      BY <1>1, <1>2, <2>2
    <3> QED
      BY <1>1, <3>1
  <2> QED
    BY <2>1, <2>2
<1> QED
  BY <1>3, <1>4 DEF DimensionInv

LEMMA AskOnly ==
  ASSUME DimensionInv, NEW w \in Workers, NEW why, NEW ws, Embed!Ask(w, why, ws)
  PROVE  /\ Only(w, step, step') /\ Only(w, phase, phase') /\ Only(w, got, got')
         /\ step'[w] \in {"begin", "done"} /\ phase'[w] = why /\ got'[w] = Embed!Nothing
         /\ ~client => step'[w] = "done"
BY DEF DimensionInv, OnWorkers, Embed!Ask, Only

LEMMA StartKeeps ==
  ASSUME DimensionInv, NEW w \in Workers, NEW texts, Embed!StartFile(w, texts)
  PROVE  DimensionInv'
<1>1. /\ step[w] = "idle" /\ own' = [own EXCEPT ![w] = texts]
      /\ result' = [result EXCEPT ![w] = Embed!Padded(texts, Embed!Nothing)]
      /\ answered' = answered
  BY DEF Embed!StartFile
<1>2. FileOk(step[w], own[w], phase[w], got[w], result[w], answered[w])
  BY DEF DimensionInv
<1>3. ~answered[w] /\ Fit(got[w])
  BY <1>1, <1>2 DEF FileOk
<1>4. /\ Only(w, own, own') /\ Only(w, result, result') /\ Only(w, answered, answered')
      /\ own'[w] = texts /\ result'[w] = Embed!Padded(texts, Embed!Nothing) /\ ~answered'[w]
  BY <1>1, <1>3 DEF DimensionInv, OnWorkers, Only
<1>5. Fit(result'[w]) /\ own'[w] \subseteq DOMAIN result'[w]
  BY <1>4, NothingFits, PaddedHas
<1>6. CASE caching /\ texts # {}
  <2>1. step' = [step EXCEPT ![w] = "lookup"] /\ phase' = phase /\ got' = got
    BY <1>6 DEF Embed!StartFile
  <2>2. /\ Only(w, step, step') /\ Only(w, phase, phase') /\ Only(w, got, got')
        /\ step'[w] = "lookup" /\ got'[w] = got[w]
    BY <2>1 DEF DimensionInv, OnWorkers, Only
  <2>3. FileOk(step'[w], own'[w], phase'[w], got'[w], result'[w], answered'[w])
    BY <1>3, <1>4, <1>5, <2>2 DEF FileOk
  <2> QED
    BY <1>4, <2>2, <2>3, OneWorker
<1>7. CASE ~(caching /\ texts # {})
  <2>1. Embed!Ask(w, "all", texts)
    BY <1>7 DEF Embed!StartFile
  <2>2. /\ Only(w, step, step') /\ Only(w, phase, phase') /\ Only(w, got, got')
        /\ step'[w] \in {"begin", "done"} /\ phase'[w] = "all" /\ got'[w] = Embed!Nothing
    BY <2>1, AskOnly
  <2>3. FileOk(step'[w], own'[w], phase'[w], got'[w], result'[w], answered'[w])
    BY <1>4, <1>5, <2>2, NothingFits DEF FileOk
  <2> QED
    BY <1>4, <2>2, <2>3, OneWorker
<1> QED
  BY <1>6, <1>7

LEMMA LookupKeeps ==
  ASSUME DimensionInv, NEW w \in Workers, Embed!Lookup(w)
  PROVE  DimensionInv'
<1> DEFINE texts == own[w]
           kept == {t \in texts : cache[t] \in Dims}
           hit == [t \in kept |-> cache[t]]
           wrong == {t \in texts : cache[t] # cache[Embed!Min(texts)]}
           same == [t \in texts \ wrong |-> cache[t]]
<1>1. step[w] = "lookup" /\ own' = own /\ answered' = answered
  BY DEF Embed!Lookup
<1>2. FileOk(step[w], own[w], phase[w], got[w], result[w], answered[w])
  BY DEF DimensionInv
<1>3. ~answered[w] /\ Fit(result[w]) /\ own[w] \subseteq DOMAIN result[w]
  BY <1>1, <1>2 DEF FileOk
<1>4. /\ Only(w, own, own') /\ Only(w, answered, answered')
      /\ own'[w] = texts /\ ~answered'[w]
  BY <1>1, <1>3 DEF DimensionInv, OnWorkers, Only
<1>5. \/ Embed!Ask(w, "mismatch", wrong)
         /\ result' = [result EXCEPT ![w] = Embed!Padded(texts, same)]
      \/ Embed!Ask(w, "misses", texts \ kept) /\ client /\ result' = result
      \/ Embed!Ask(w, "misses", texts \ kept) /\ ~client
         /\ result' = [result EXCEPT ![w] = Embed!Padded(texts, hit)]
  BY DEF Embed!Lookup
<1> HIDE DEF kept, hit, wrong, same
<1>6. CASE Embed!Ask(w, "mismatch", wrong)
           /\ result' = [result EXCEPT ![w] = Embed!Padded(texts, same)]
  <2>1. /\ Only(w, step, step') /\ Only(w, phase, phase') /\ Only(w, got, got')
        /\ phase'[w] = "mismatch" /\ got'[w] = Embed!Nothing /\ step'[w] \in {"begin", "done"}
    BY <1>6, AskOnly
  <2>2. Only(w, result, result') /\ result'[w] = Embed!Padded(texts, same)
    BY <1>6 DEF DimensionInv, OnWorkers, Only
  <2>3. texts \subseteq DOMAIN Embed!Padded(texts, same)
    BY PaddedHas
  <2>4. FileOk(step'[w], own'[w], phase'[w], got'[w], result'[w], answered'[w])
    BY <1>4, <2>1, <2>2, <2>3, NothingFits DEF FileOk
  <2> QED
    BY <1>4, <2>1, <2>2, <2>4, OneWorker
<1>7. CASE Embed!Ask(w, "misses", texts \ kept) /\ client /\ result' = result
  <2>1. /\ Only(w, step, step') /\ Only(w, phase, phase') /\ Only(w, got, got')
        /\ phase'[w] = "misses" /\ got'[w] = Embed!Nothing /\ step'[w] \in {"begin", "done"}
    BY <1>7, AskOnly
  <2>2. Only(w, result, result') /\ result'[w] = result[w]
    BY <1>7 DEF DimensionInv, OnWorkers, Only
  <2>4. FileOk(step'[w], own'[w], phase'[w], got'[w], result'[w], answered'[w])
    BY <1>3, <1>4, <2>1, <2>2, NothingFits DEF FileOk
  <2> QED
    BY <1>4, <2>1, <2>2, <2>4, OneWorker
<1>8. CASE Embed!Ask(w, "misses", texts \ kept) /\ ~client
           /\ result' = [result EXCEPT ![w] = Embed!Padded(texts, hit)]
  <2>1. /\ Only(w, step, step') /\ Only(w, phase, phase') /\ Only(w, got, got')
        /\ phase'[w] = "misses" /\ got'[w] = Embed!Nothing /\ step'[w] = "done"
    BY <1>8, AskOnly
  <2>2. Only(w, result, result') /\ result'[w] = Embed!Padded(texts, hit)
    BY <1>8 DEF DimensionInv, OnWorkers, Only
  <2>3. texts \subseteq DOMAIN Embed!Padded(texts, hit)
    BY PaddedHas
  <2>4. FileOk(step'[w], own'[w], phase'[w], got'[w], result'[w], answered'[w])
    BY <1>4, <2>1, <2>2, <2>3, NothingFits DEF FileOk
  <2> QED
    BY <1>4, <2>1, <2>2, <2>4, OneWorker
<1> QED
  BY <1>5, <1>6, <1>7, <1>8

(* A step of worker w towards the backend or back: the file, its phase and *)
(* what is placed stay.                                                    *)
LEMMA RequestKeeps ==
  ASSUME DimensionInv, NEW w \in Workers,
         step[w] \in {"begin", "try", "backoff"},
         UNCHANGED <<own, phase, result, answered>>,
         step' = [step EXCEPT ![w] = step'[w]],
         step'[w] \in {"begin", "try", "backoff", "put"},
         Only(w, got, got'), Fit(got'[w])
  PROVE  DimensionInv'
<1>1. FileOk(step[w], own[w], phase[w], got[w], result[w], answered[w])
  BY DEF DimensionInv
<1>2. /\ Only(w, step, step') /\ Only(w, own, own') /\ Only(w, phase, phase')
      /\ Only(w, result, result') /\ Only(w, answered, answered')
  BY DEF DimensionInv, OnWorkers, Only
<1>3. FileOk(step'[w], own'[w], phase'[w], got'[w], result'[w], answered'[w])
  BY <1>1 DEF FileOk
<1> QED
  BY <1>2, <1>3, OneWorker

LEMMA KeysKeep ==
  ASSUME DimensionInv, NEW w \in Workers,
         Embed!BeginRequest(w) \/ Embed!KeyRefuses(w) \/ Embed!Backoff(w)
  PROVE  DimensionInv'
<1>1. CASE step' = step
  <2>1. UNCHANGED <<step, own, phase, got, result, answered>>
    BY <1>1 DEF Embed!BeginRequest, Embed!KeyRefuses, Embed!Backoff
  <2> QED
    BY <2>1 DEF DimensionInv, OnWorkers
<1>2. CASE step' # step
  <2>1. /\ UNCHANGED <<own, phase, got, result, answered>>
        /\ step[w] \in {"begin", "try", "backoff"}
        /\ \E s \in {"try", "backoff"} : step' = [step EXCEPT ![w] = s]
    BY <1>2 DEF Embed!BeginRequest, Embed!KeyRefuses, Embed!Backoff
  <2>2. step'[w] \in {"try", "backoff"} /\ step' = [step EXCEPT ![w] = step'[w]]
    BY <2>1 DEF DimensionInv, OnWorkers
  <2>3. Only(w, got, got') /\ got'[w] = got[w]
    BY <2>1 DEF DimensionInv, OnWorkers, Only
  <2>4. Fit(got[w])
    BY DEF DimensionInv, FileOk
  <2> QED
    BY <2>1, <2>2, <2>3, <2>4, RequestKeeps
<1> QED
  BY <1>1, <1>2

LEMMA AnswerKeeps ==
  ASSUME DimensionInv, NEW w \in Workers, Embed!KeyAnswers(w)
  PROVE  DimensionInv'
<1>1. /\ step[w] = "try"
      /\ UNCHANGED <<own, phase, result, answered>>
      /\ \E s \in {"begin", "put"} : step' = [step EXCEPT ![w] = s]
  BY DEF Embed!KeyAnswers
<1>2. PICK some : got' = [got EXCEPT ![w] = Embed!Over([t \in some |-> ApiDim], got[w])]
  BY DEF Embed!KeyAnswers
<1>3. step'[w] \in {"begin", "put"} /\ step' = [step EXCEPT ![w] = step'[w]]
  BY <1>1 DEF DimensionInv, OnWorkers
<1> DEFINE fresh == [t \in some |-> ApiDim]
<1>4. Fit(got[w]) /\ Fit(fresh)
  BY DEF DimensionInv, FileOk, Fit
<1> HIDE DEF fresh
<1>5. Only(w, got, got') /\ got'[w] = Embed!Over(fresh, got[w])
  BY <1>2 DEF DimensionInv, OnWorkers, Only, fresh
<1>6. Fit(got'[w])
  BY <1>4, <1>5, OverFits
<1> QED
  BY <1>1, <1>3, <1>5, <1>6, RequestKeeps

LEMMA PanicKeeps ==
  ASSUME DimensionInv, NEW w \in Workers, Embed!LookupPanics(w)
  PROVE  DimensionInv'
<1>1. /\ step[w] = "lookup" /\ step' = [step EXCEPT ![w] = "done"]
      /\ UNCHANGED <<own, phase, got, result, answered>>
  BY DEF Embed!LookupPanics, Embed!request
<1>2. FileOk(step[w], own[w], phase[w], got[w], result[w], answered[w])
  BY DEF DimensionInv
<1>3. /\ Only(w, step, step') /\ Only(w, own, own') /\ Only(w, phase, phase')
      /\ Only(w, got, got') /\ Only(w, result, result') /\ Only(w, answered, answered')
      /\ step'[w] = "done"
  BY <1>1 DEF DimensionInv, OnWorkers, Only
<1>4. FileOk(step'[w], own'[w], phase'[w], got'[w], result'[w], answered'[w])
  BY <1>1, <1>2, <1>3 DEF FileOk
<1> QED
  BY <1>3, <1>4, OneWorker

(* The end of a phase after which nothing more is asked: a file not        *)
(* answered yet may have anything placed.                                  *)
LEMMA DoneKeeps ==
  ASSUME DimensionInv, NEW w \in Workers,
         step[w] \in {"try", "put"},
         Only(w, step, step'), step'[w] = "done", Only(w, result, result'),
         own' = own, phase' = phase, got' = got, answered' = answered,
         DOMAIN result[w] \subseteq DOMAIN result'[w],
         phase[w] # "misses" /\ Fit(result[w]) => Fit(result'[w])
  PROVE  DimensionInv'
<1>1. FileOk(step[w], own[w], phase[w], got[w], result[w], answered[w])
  BY DEF DimensionInv
<1>2. /\ Only(w, own, own') /\ Only(w, phase, phase')
      /\ Only(w, got, got') /\ Only(w, answered, answered')
  BY DEF DimensionInv, OnWorkers, Only
<1>3. FileOk(step'[w], own'[w], phase'[w], got'[w], result'[w], answered'[w])
  BY <1>1 DEF FileOk
<1> QED
  BY <1>2, <1>3, OneWorker

LEMMA FailKeeps ==
  ASSUME DimensionInv, NEW w \in Workers, Embed!KeyFails(w)
  PROVE  DimensionInv'
<1> DEFINE placed == IF phase[w] = "misses" THEN Embed!Over(cached[w], result[w])
                                           ELSE result[w]
<1>1. /\ step[w] = "try" /\ step' = [step EXCEPT ![w] = "done"]
      /\ result' = [result EXCEPT ![w] = placed]
      /\ own' = own /\ phase' = phase /\ got' = got /\ answered' = answered
  BY DEF Embed!KeyFails, Embed!request
<1>2. DOMAIN result[w] \subseteq DOMAIN placed
  BY OverFits
<1>3. phase[w] # "misses" => placed = result[w]
  OBVIOUS
<1> HIDE DEF placed
<1>4. /\ Only(w, step, step') /\ step'[w] = "done"
      /\ Only(w, result, result') /\ result'[w] = placed
  BY <1>1 DEF DimensionInv, OnWorkers, Only
<1> QED
  BY <1>1, <1>2, <1>3, <1>4, DoneKeeps

LEMMA PlaceKeeps ==
  ASSUME DimensionInv, NEW w \in Workers, Embed!PlaceAnswer(w)
  PROVE  DimensionInv'
<1> DEFINE embedded == Embed!Over(got[w], result[w])
           right == {t \in DOMAIN cached[w] : cached[w][t] = ApiDim}
           valid == [t \in right |-> ApiDim]
           all == IF phase[w] = "misses" THEN Embed!Over(cached[w], embedded) ELSE embedded
<1>1. step[w] = "put" /\ own' = own
  BY DEF Embed!PlaceAnswer
<1>2. FileOk(step[w], own[w], phase[w], got[w], result[w], answered[w])
  BY DEF DimensionInv
<1>3. /\ DOMAIN result[w] \subseteq DOMAIN embedded
      /\ Fit(result[w]) => Fit(embedded)
  <2>1. Fit(got[w])
    BY <1>2 DEF FileOk
  <2> QED
    BY <2>1, OverFits
<1>4. /\ DOMAIN result[w] \subseteq DOMAIN Embed!Over(valid, embedded)
      /\ Fit(result[w]) => Fit(Embed!Over(valid, embedded))
  <2>1. Fit(valid)
    BY DEF Fit
  <2> HIDE DEF valid, embedded
  <2> QED
    BY <1>3, <2>1, OverFits
<1>5. /\ DOMAIN result[w] \subseteq DOMAIN all
      /\ phase[w] # "misses" /\ Fit(result[w]) => Fit(all)
  <2> HIDE DEF embedded
  <2> QED
    BY <1>3, OverFits
<1>6. CASE phase[w] = "misses" /\ DOMAIN got[w] # {}
  <2>1. /\ result' = [result EXCEPT ![w] = Embed!Over(valid, embedded)]
        /\ answered' = [answered EXCEPT ![w] = TRUE]
        /\ Embed!Ask(w, "rehits", DOMAIN cached[w] \ right)
    BY <1>6 DEF Embed!PlaceAnswer
  <2> DEFINE placed == Embed!Over(valid, embedded)
  <2>2. placed = Embed!Over(valid, embedded)
    OBVIOUS
  <2> HIDE DEF placed, right
  <2>3. /\ Only(w, own, own') /\ own'[w] = own[w]
        /\ Only(w, result, result') /\ result'[w] = placed
        /\ Only(w, answered, answered') /\ answered'[w] = TRUE
    BY <1>1, <2>1, <2>2 DEF DimensionInv, OnWorkers, Only
  <2>4. /\ Only(w, step, step') /\ Only(w, phase, phase') /\ Only(w, got, got')
        /\ step'[w] \in {"begin", "done"} /\ phase'[w] = "rehits" /\ got'[w] = Embed!Nothing
    BY <2>1, AskOnly
  <2>5. FileOk(step'[w], own'[w], phase'[w], got'[w], result'[w], answered'[w])
    BY <1>1, <1>2, <1>4, <1>6, <2>2, <2>3, <2>4, NothingFits DEF FileOk
  <2> QED
    BY <2>3, <2>4, <2>5, OneWorker
<1>7. CASE ~(phase[w] = "misses" /\ DOMAIN got[w] # {})
  <2>1. /\ result' = [result EXCEPT ![w] = all]
        /\ step' = [step EXCEPT ![w] = "done"]
        /\ phase' = phase /\ got' = got /\ answered' = answered
    BY <1>7 DEF Embed!PlaceAnswer
  <2> HIDE DEF all
  <2>2. /\ Only(w, step, step') /\ step'[w] = "done"
        /\ Only(w, result, result') /\ result'[w] = all
    BY <2>1 DEF DimensionInv, OnWorkers, Only
  <2> QED
    BY <1>1, <1>5, <2>1, <2>2, DoneKeeps
<1> QED
  BY <1>6, <1>7

LEMMA EndKeeps ==
  ASSUME DimensionInv, NEW w \in Workers, Embed!EndFile(w)
  PROVE  DimensionInv'
<1>1. /\ Only(w, step, step') /\ Only(w, own, own') /\ Only(w, phase, phase')
      /\ Only(w, got, got') /\ Only(w, result, result') /\ Only(w, answered, answered')
      /\ step'[w] = "idle" /\ own'[w] = {} /\ phase'[w] = "none" /\ got'[w] = Embed!Nothing
      /\ result'[w] = Embed!Nothing /\ answered'[w] = FALSE
  BY DEF Embed!EndFile, DimensionInv, OnWorkers, Only
<1>2. FileOk(step'[w], own'[w], phase'[w], got'[w], result'[w], answered'[w])
  BY <1>1, NothingFits DEF FileOk
<1> QED
  BY <1>1, <1>2, OneWorker

LEMMA DimensionStep ==
  ASSUME DimensionInv, [Embed!Next]_(Embed!vars)
  PROVE  DimensionInv'
<1>1. CASE Embed!Purge \/ Embed!OtherInstance \/ UNCHANGED Embed!vars
  <2>1. UNCHANGED <<step, own, phase, got, result, answered>>
    BY <1>1 DEF Embed!Purge, Embed!OtherInstance, Embed!vars, Embed!request
  <2> QED
    BY <2>1 DEF DimensionInv, OnWorkers
<1>2. CASE Embed!Next /\ ~Embed!Purge /\ ~Embed!OtherInstance
  BY <1>2, StartKeeps, LookupKeeps, PanicKeeps, KeysKeep, AnswerKeeps, FailKeeps,
     PlaceKeeps, EndKeeps DEF Embed!Next
<1> QED
  BY <1>1, <1>2

LEMMA DimensionInvIsEnough == DimensionInv => Embed!ApiDecidesDimension
BY DEF DimensionInv, FileOk, Fit, Embed!ApiDecidesDimension

-----------------------------------------------------------------------------
(* A step of the composition is a step of the component at work, which     *)
(* stays the one at work.                                                  *)
LEMMA RetrievalWorks ==
  ASSUME component = "retrieval" \/ component' = "retrieval", [Next]_vars
  PROVE  /\ component = "retrieval"
         /\ [Query!Next]_(Query!vars)
<1>1. component' = component
  BY DEF Next, vars
<1>2. Query!Next \/ UNCHANGED query_vars
  BY <1>1 DEF Next, vars
<1> QED
  BY <1>1, <1>2
  DEF Query!vars, query_vars, Query!search, Query!limits, Query!loop

LEMMA EmbeddingWorks ==
  ASSUME component = "embedding" \/ component' = "embedding", [Next]_vars
  PROVE  /\ component = "embedding"
         /\ [Embed!Next]_(Embed!vars)
<1>1. component' = component
  BY DEF Next, vars
<1>2. Embed!Next \/ UNCHANGED embed_vars
  BY <1>1 DEF Next, vars
<1> QED
  BY <1>1, <1>2 DEF Embed!vars, embed_vars, Embed!shared, Embed!request

LEMMA ConversationWorks ==
  ASSUME component = "conversation" \/ component' = "conversation", [Next]_vars
  PROVE  /\ component = "conversation"
         /\ [Llm!Next]_(Llm!vars)
<1>1. component' = component
  BY DEF Next, vars
<1>2. Llm!Next \/ UNCHANGED llm_vars
  BY <1>1 DEF Next, vars
<1> QED
  BY <1>1, <1>2 DEF Llm!vars, llm_vars, Llm!request, Llm!conversation

LEMMA ExpansionWorks ==
  ASSUME component = "expansion" \/ component' = "expansion", [Next]_vars
  PROVE  /\ component = "expansion"
         /\ [Expand!Next]_(Expand!vars)
<1>1. component' = component
  BY DEF Next, vars
<1>2. Expand!Next \/ UNCHANGED expand_vars
  BY <1>1 DEF Next, vars
<1> QED
  BY <1>1, <1>2 DEF Expand!vars, expand_vars, Expand!input

(* run_agentic_loop: whatever the model calls in whatever order, only a    *)
(* model that fails or stops by itself leaves fetched chunks it was not    *)
(* asked to select from.                                                   *)
THEOREM RetrievalHarvest == Spec => []QueriesHarvested
<1> DEFINE I == component = "retrieval" => HarvestInv
<1>1. Init => I
  BY HarvestInit DEF Init
<1>2. I /\ [Next]_vars => I'
  BY HarvestStep, RetrievalWorks
<1>3. I => QueriesHarvested
  BY DEF HarvestInv, QueriesHarvested, Query!QueriesHarvested
<1> QED
  BY <1>1, <1>2, <1>3, PTL DEF Spec

(* run_agentic_loop: over all calls of all turns and the final one, at     *)
(* most one call goes beyond the character budget.                         *)
THEOREM RetrievalBudget == Spec => BudgetStops
<1> DEFINE I == component = "retrieval" => BudgetInv
           A == component = "retrieval" => Query!SelectsWithinBudget
<1> USE RetrievalOk
<1>1. Init => I
  BY BudgetInit DEF Init
<1>2. I /\ [Next]_vars => I'
  BY BudgetStep, RetrievalWorks
<1>3. I /\ [Next]_vars => [A]_vars
  <2> SUFFICES ASSUME I, Next, component = "retrieval", vars' # vars
               PROVE  Query!SelectsWithinBudget
    BY DEF vars
  <2>1. /\ Query!Next
        /\ UNCHANGED <<component, settings_vars, embed_vars, parse_vars, llm_vars,
                       bridged_vars, expand_vars, snip_vars>>
    BY DEF Next
  <2>2. Query!vars' # Query!vars
    BY <2>1
    DEF vars, Query!vars, query_vars, Query!search, Query!limits, Query!loop
  <2> QED
    BY <2>1, <2>2, BudgetStep
<1> QED
  BY <1>1, <1>2, <1>3, PTL DEF Spec, BudgetStops

(* decide_final_action and the engine behind it: a selection is answered   *)
(* in full however the loop ended, since no index in it ever leaves the    *)
(* pool; without one, the candidates or what the model judged.             *)
THEOREM RetrievalStands == Spec => []SelectionStands
<1> DEFINE I == component = "retrieval" => StandsInv
<1>1. Init => I
  BY StandsInit DEF Init
<1>2. I /\ [Next]_vars => I'
  BY StandsStep, RetrievalWorks
<1>3. I => SelectionStands
  BY DEF StandsInv, SelectionStands
<1> QED
  BY <1>1, <1>2, <1>3, PTL DEF Spec

(* LlmClient::complete_with_tools: whichever key a request begins with and *)
(* whichever keys fail, a key whose quota was found spent is not used      *)
(* again, and a request that fails has tried every other key twice.        *)
THEOREM LlmKeysRest == Spec => []LimitedKeysRest
<1> DEFINE I == component = "conversation" => KeyInv
<1> USE LlmOk
<1>1. Init => I
  BY KeyInit DEF Init
<1>2. I /\ [Next]_vars => I'
  BY KeyStep, ConversationWorks
<1>3. I => LimitedKeysRest
  BY KeyInvIsEnough DEF LimitedKeysRest
<1> QED
  BY <1>1, <1>2, <1>3, PTL DEF Spec

(* run_agentic_loop and the clients: whatever calls the model makes, in    *)
(* however many turns, and wherever a cap or a budget stops it, every      *)
(* request is a conversation its provider accepts.  OpenAI finds one       *)
(* result for each call, at once and in order; Gemini as many results as   *)
(* calls, and each of its turns with the signatures it came with.          *)
THEOREM LlmCallsAnswered == Spec => []CallsAnswered
<1> DEFINE I == component = "conversation" => TalkInv
<1>1. Init => I
  BY TalkInit DEF Init
<1>2. I /\ [Next]_vars => I'
  BY TalkStep, ConversationWorks
<1>3. I => CallsAnswered
  BY TalkIsAnswered DEF CallsAnswered
<1> QED
  BY <1>1, <1>2, <1>3, PTL DEF Spec

(* graph_expand: for every call graph, every order of rows, cut off or     *)
(* failed queries and any depth and cap, each bonus chunk is new and as    *)
(* many calls away as the depth it was met at, and there are not too many. *)
THEOREM ExpansionIsNear == Spec => []BonusIsNear
<1> DEFINE I == component = "expansion" => WalkInv
<1> USE ExpansionOk
<1>1. Init => I
  BY WalkInit DEF Init
<1>2. I /\ [Next]_vars => I'
  BY WalkStep, ExpansionWorks
<1>3. I => BonusIsNear
  BY WalkIsNear DEF BonusIsNear
<1> QED
  BY <1>1, <1>2, <1>3, PTL DEF Spec

(* embed_parsed_file, for any number of workers, keys and batches: no      *)
(* cached embedding of another dimension ends up next to fresh ones.       *)
THEOREM EmbeddingDimension == Spec => []ApiDecidesDimension
<1> DEFINE I == component = "embedding" => DimensionInv
<1>1. Init => I
  BY DimensionInit DEF Init
<1>2. I /\ [Next]_vars => I'
  BY DimensionStep, EmbeddingWorks
<1>3. I => ApiDecidesDimension
  BY DimensionInvIsEnough DEF ApiDecidesDimension
<1> QED
  BY <1>1, <1>2, <1>3, PTL DEF Spec
=============================================================================
