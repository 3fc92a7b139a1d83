------------------------------ MODULE Retrieval -----------------------------
(***************************************************************************)
(* One query: run_query_with_filters of src/query/engine.rs and the        *)
(* rerankers of src/query/reranker.rs, with the agentic loop in which a    *)
(* model selects chunks (add_chunks) and fetches more (query) until it is  *)
(* done or a budget is spent.                                              *)
(*                                                                         *)
(* Of a chunk only what the filters look at is told apart, and only until  *)
(* the merge; from then on chunks are the indices 1 .. pool (0-based in    *)
(* the code), of which 1 .. base are the candidates of the query itself.   *)
(* The model behind the LLM client is not trusted with anything: it may    *)
(* call any tool at any time, with any arguments.                          *)
(***************************************************************************)
EXTENDS Naturals, Sequences, SequencesExt, FiniteSetsExt

CONSTANTS
  TopK,           (* Candidates kept by the merge.                         *)
  MaxHits,        (* Bound on the hits of the search.                      *)
  MaxMore,        (* Bound on the chunks of the expansion or a sub-query.  *)
  MaxTurns,       (* Bound on the setting agentic_rag_max_turns.           *)
  CharBudgets,    (* Values of agentic_rag_max_chunk_chars; 0: no limit.   *)
  Sizes,          (* Characters a selected chunk may have.                 *)
  MinIterations   (* Turns the loop always allows (12 in the code).        *)

Chunks == [fits : BOOLEAN, name : {"none", "exact", "near", "far"}]
NoneFound == <<>>

RetrievalAssumption ==
  /\ CharBudgets \subseteq Nat /\ Sizes \subseteq Nat

VARIABLES
  stage,        (* Where the query is.                                     *)
  mode,         (* The reranker the settings select.                       *)
  filters,      (* Which filters the query has.                            *)
  found,        (* The chunks found so far, up to the merge.               *)
  base,         (* Number of candidates after the merge.                   *)
  answer,       (* The indices of the answer, in order.                    *)
  fallback,     (* fallback_used                                           *)
  budget,       (* query_budget of the loop.                               *)
  charBudget,   (* Its char_budget.                                        *)
  pool,         (* Length of the extended pool.                            *)
  iteration,    (* Turns so far.                                           *)
  calls,        (* query_calls                                             *)
  awaiting,     (* awaiting_query                                          *)
  unharvested,  (* unharvested_query                                       *)
  accumulated,  (* The selected indices.                                   *)
  chars,        (* accumulated_chars                                       *)
  exit,         (* Why the loop ended.                                     *)
  pending       (* History: a query fetched chunks, and neither            *)
                (* add_chunks nor the final turn came after it.            *)

search == <<mode, filters, found, base>>
limits == <<budget, charBudget>>
loop == <<pool, iteration, calls, awaiting, unharvested, accumulated, chars,
          exit, pending>>
vars == <<stage, search, answer, fallback, limits, loop>>

Exits == {"LlmError", "AgentDone", "QueryBudget", "ChunkCharBudget",
          "IterationCap", "ByteCap"}

TypeOK ==
  /\ stage \in {"embed", "search", "filter", "expand", "merge", "rerank", "turn",
                "calls", "finish", "harvest", "decide", "done", "failed"}
  /\ mode \in {"embedding", "agentic", "llm", "none"}
  /\ found \in SeqOf(Chunks, MaxHits + MaxMore)
  /\ base \in 0 .. TopK
  /\ Range(answer) \subseteq 1 .. pool
  /\ fallback \in BOOLEAN
  /\ calls \in 0 .. budget
  /\ pool \in base .. base + budget * MaxMore
  /\ Range(accumulated) \subseteq 1 .. pool
  /\ exit \in Exits

(* Which reranker runs: a dedicated one first, then the agentic one, which *)
(* needs a model and a repository, then the single question to the model.  *)
Reranker(dedicated, agentic, llm, repo) ==
  CASE dedicated -> "embedding"
    [] ~dedicated /\ agentic /\ llm /\ repo -> "agentic"
    [] ~dedicated /\ llm /\ ~(agentic /\ repo) -> "llm"
    [] OTHER -> "none"

Init ==
  /\ stage = "embed"
  /\ \E dedicated, agentic, llm, repo \in BOOLEAN :
       mode = Reranker(dedicated, agentic, llm, repo)
  /\ filters \in [fits : BOOLEAN, name : BOOLEAN]
  /\ found = NoneFound /\ base = 0
  /\ answer = <<>> /\ fallback = FALSE
  /\ \E max_turns \in 0 .. MaxTurns : budget = Max({max_turns, 1})
  /\ charBudget \in CharBudgets
  /\ pool = 0 /\ iteration = 0 /\ calls = 0
  /\ awaiting = FALSE /\ unharvested = FALSE
  /\ accumulated = <<>> /\ chars = 0
  /\ exit = "IterationCap" /\ pending = FALSE

-----------------------------------------------------------------------------
(* From the question to the candidates.                                    *)

(* An error of the embedding backend, or an empty vector, is an error of   *)
(* the query.                                                              *)
EmbedQuery ==
  /\ stage = "embed"
  /\ stage' \in {"search", "failed"}
  /\ UNCHANGED <<search, answer, fallback, limits, loop>>

(* Nothing found, a cold index among other reasons, is an empty answer.    *)
VectorSearch ==
  /\ stage = "search"
  /\ found' \in SeqOf(Chunks, MaxHits)
  /\ stage' = IF found' = NoneFound THEN "done" ELSE "filter"
  /\ UNCHANGED <<mode, filters, base, answer, fallback, limits, loop>>

(* apply_query_filters: path, language and kind first.  A chunk without a  *)
(* symbol passes the name filter; if none passes, near names do, and a     *)
(* chunk without a symbol no longer does.                                  *)
Kept(hits) ==
  LET fitting == SelectSeq(hits, LAMBDA c : filters.fits => c.fits)
      exact == SelectSeq(fitting, LAMBDA c : c.name \in {"none", "exact"})
  IN  IF ~filters.name THEN fitting
      ELSE IF exact # <<>> THEN exact
      ELSE SelectSeq(fitting, LAMBDA c : c.name = "near")

ApplyFilters ==
  /\ stage = "filter"
  /\ found' = Kept(found)
  /\ stage' = "expand"
  /\ UNCHANGED <<mode, filters, base, answer, fallback, limits, loop>>

(* graph_expand: neighbours in the call graph, which no filter sees.       *)
GraphExpand ==
  /\ stage = "expand"
  /\ \E neighbours \in IF found = NoneFound THEN {<<>>} ELSE SeqOf(Chunks, MaxMore) :
       found' = found \o neighbours
  /\ stage' = "merge"
  /\ UNCHANGED <<mode, filters, base, answer, fallback, limits, loop>>

(* merge_chunks: duplicates and adjacent ranges become one chunk, and the  *)
(* best TopK remain.                                                       *)
MergeChunks ==
  /\ stage = "merge"
  /\ base' \in IF found = NoneFound THEN {0} ELSE 1 .. Min({Len(found), TopK})
  /\ pool' = base'
  /\ found' = NoneFound
  /\ stage' = "rerank"
  /\ UNCHANGED <<mode, filters, answer, fallback, limits, iteration, calls, awaiting,
                 unharvested, accumulated, chars, exit, pending>>

-----------------------------------------------------------------------------
(* The rerankers that answer at once.                                      *)

Indices(n) == [i \in 1 .. n |-> i]

(* rerank_by_embedding: the candidates in another order; those for which   *)
(* the backend sent no vector are missing.                                 *)
Reordered(n) == {s \in SeqOf(1 .. n, n) : IsInjective(s) /\ Range(s) = 1 .. Len(s)}

(* The indices of the pool among those given (get(idx), else continue).    *)
InBounds(indices, n) ==
  IF Range(indices) \subseteq 1 .. n THEN indices
  ELSE SelectSeq(indices, LAMBDA i : i <= n)

(* parse_rerank_response: what the model names, without the indices that   *)
(* are none; an index may come twice.                                      *)
Ranked(n) == {InBounds(s, n) : s \in SeqOf(1 .. n + 1, 2)}

Answer(indices, fell_back) ==
  /\ answer' = indices /\ fallback' = fell_back
  /\ stage' = "done"

RerankAtOnce ==
  /\ stage = "rerank" /\ mode # "agentic"
  /\ \/ mode = "none" /\ Answer(Indices(base), FALSE)
     \/ mode # "none" /\ base = 0 /\ Answer(<<>>, FALSE)
     \/ mode # "none" /\ base > 0 /\ Answer(Indices(base), TRUE)
     \/ mode = "embedding" /\ base > 0
        /\ \E order \in Reordered(base) : Answer(order, FALSE)
     \/ mode = "llm" /\ base > 0
        /\ \E ranking \in Ranked(base) : Answer(ranking, FALSE)
  /\ UNCHANGED <<search, limits, loop>>

-----------------------------------------------------------------------------
(* run_agentic_loop                                                        *)

StartLoop ==
  /\ stage = "rerank" /\ mode = "agentic"
  /\ IF base = 0 THEN Answer(<<>>, FALSE) ELSE stage' = "turn" /\ UNCHANGED <<answer, fallback>>
  /\ UNCHANGED <<search, limits, loop>>

MaxIterations == Max({4 * budget, MinIterations})

(* The loop ends before a turn: out of iterations, out of room for the     *)
(* history (never before the first turn), the model unavailable, or done.  *)
EndLoop ==
  /\ stage = "turn"
  /\ \/ iteration = MaxIterations /\ UNCHANGED exit
     \/ iteration \in 1 .. MaxIterations - 1 /\ exit' = "ByteCap"
     \/ iteration < MaxIterations /\ exit' \in {"LlmError", "AgentDone"}
  /\ stage' = "finish"
  /\ UNCHANGED <<search, answer, fallback, limits, pool, iteration, calls, awaiting,
                 unharvested, accumulated, chars, pending>>

(* The model answers with tool calls, which are worked off in order.       *)
TakeTurn ==
  /\ stage = "turn" /\ iteration < MaxIterations
  /\ iteration' = iteration + 1
  /\ stage' = "calls"
  /\ UNCHANGED <<search, answer, fallback, limits, pool, calls, awaiting, unharvested,
                 accumulated, chars, exit, pending>>

(* handle_add_chunks: what is out of range or selected already is skipped, *)
(* and arguments that make no sense select nothing.                        *)
Select ==
  \E picked \in SeqOf((1 .. pool) \ Range(accumulated), 2) :
    /\ IsInjective(picked)
    /\ accumulated' = accumulated \o picked
    /\ IF picked = <<>> THEN chars' = chars
       ELSE \E size \in Sizes : chars' = chars + Len(picked) * size

Spent == charBudget > 0 /\ chars' >= charBudget

AddChunks_StopsAfterTurn ==
  /\ stage = "calls" /\ ~awaiting
  /\ Select
  /\ awaiting' = TRUE
  /\ unharvested' = FALSE /\ pending' = FALSE
  /\ IF calls >= budget THEN stage' = "finish" /\ exit' = "QueryBudget"
     ELSE UNCHANGED <<stage, exit>>
  /\ UNCHANGED <<search, answer, fallback, limits, pool, iteration, calls>>

(* A second add_chunks without a query in between is rejected (and changes *)
(* nothing).  A spent budget ends the loop, and the rest of the turn's     *)
(* calls with it.                                                          *)
AddChunks ==
  /\ stage = "calls" /\ ~awaiting
  /\ Select
  /\ awaiting' = TRUE
  /\ unharvested' = FALSE /\ pending' = FALSE
  /\ IF Spent THEN stage' = "finish" /\ exit' = "ChunkCharBudget"
     ELSE IF calls >= budget THEN stage' = "finish" /\ exit' = "QueryBudget"
     ELSE UNCHANGED <<stage, exit>>
  /\ UNCHANGED <<search, answer, fallback, limits, pool, iteration, calls>>

Query_FlagsHitsOnly ==
  /\ stage = "calls"
  /\ awaiting' = FALSE
  /\ \/ UNCHANGED <<calls, pool, unharvested, pending>>
     \/ /\ calls < budget /\ calls' = calls + 1
        /\ \E more \in 0 .. MaxMore :
             pool' = pool + more /\ unharvested' = (more > 0) /\ pending' = TRUE
  /\ UNCHANGED <<stage, search, answer, fallback, limits, iteration, accumulated, chars,
                 exit>>

(* A query without text, one that was asked before, one that fails and one *)
(* beyond the budget are errors: they only allow another add_chunks.  The  *)
(* others count, found or not.                                             *)
Query ==
  /\ stage = "calls"
  /\ awaiting' = FALSE
  /\ \/ UNCHANGED <<calls, pool, unharvested, pending>>
     \/ /\ calls < budget /\ calls' = calls + 1
        /\ \E more \in 0 .. MaxMore : pool' = pool + more
        /\ unharvested' = TRUE /\ pending' = TRUE
  /\ UNCHANGED <<stage, search, answer, fallback, limits, iteration, accumulated, chars,
                 exit>>

EndTurn ==
  /\ stage = "calls"
  /\ IF awaiting /\ calls >= budget
     THEN stage' = "finish" /\ exit' = "QueryBudget"
     ELSE stage' = "turn" /\ UNCHANGED exit
  /\ UNCHANGED <<search, answer, fallback, limits, pool, iteration, calls, awaiting,
                 unharvested, accumulated, chars, pending>>

(* One more turn if a resource cap cut the loop between a query and the    *)
(* selection from it.                                                      *)
Finish ==
  /\ stage = "finish"
  /\ stage' = IF unharvested /\ exit \in {"ByteCap", "IterationCap"}
              THEN "harvest" ELSE "decide"
  /\ UNCHANGED <<search, answer, fallback, limits, loop>>

(* Only the first add_chunks of the final turn counts; the model may also  *)
(* fail or answer with anything else.                                      *)
Harvest ==
  /\ stage = "harvest"
  /\ \/ UNCHANGED <<accumulated, chars, awaiting>>
     \/ ~awaiting /\ Select /\ awaiting' = TRUE
  /\ pending' = FALSE
  /\ stage' = "decide"
  /\ UNCHANGED <<search, answer, fallback, limits, pool, iteration, calls, unharvested,
                 exit>>

Decide_BoundsByBase ==
  /\ stage = "decide"
  /\ IF accumulated # <<>>
     THEN Answer(InBounds(accumulated, base), FALSE)
     ELSE IF exit = "AgentDone" THEN Answer(<<>>, FALSE)
     ELSE Answer(Indices(base), TRUE)
  /\ UNCHANGED <<search, limits, loop>>

(* decide_final_action: a selection stands however the loop ended.         *)
Decide ==
  /\ stage = "decide"
  /\ IF accumulated # <<>>
     THEN Answer(InBounds(accumulated, pool), FALSE)
     ELSE IF exit = "AgentDone" THEN Answer(<<>>, FALSE)
     ELSE Answer(Indices(base), TRUE)
  /\ UNCHANGED <<search, limits, loop>>

Next ==
  \/ EmbedQuery \/ VectorSearch \/ ApplyFilters \/ GraphExpand \/ MergeChunks
  \/ RerankAtOnce
  \/ StartLoop \/ EndLoop \/ TakeTurn \/ AddChunks \/ Query \/ EndTurn
  \/ Finish \/ Harvest \/ Decide

Spec == Init /\ [][Next]_vars

-----------------------------------------------------------------------------
(* What a query of the model fetched is not thrown away unread because a   *)
(* cap or a budget ended the loop: only a model that fails or stops by     *)
(* itself leaves chunks it was not asked to select from (reranker.rs: "we  *)
(* grant one final forced harvest turn").                                  *)
QueriesHarvested ==
  stage \in {"decide", "done"} /\ pending => exit \in {"LlmError", "AgentDone"}

(* Chunks are selected only while the character budget lasts, over all     *)
(* calls of all turns and the final one: whatever the order of the calls,  *)
(* at most one call goes beyond it.                                        *)
SelectsWithinBudget == chars' > chars => charBudget = 0 \/ chars < charBudget
BudgetStops == [][SelectsWithinBudget]_vars

(* A selection is answered in full and in order however the loop ended,    *)
(* chunks of sub-queries included; the fallback is the candidates of the   *)
(* query and nothing a sub-query added; and an agentic answer is empty     *)
(* only if there were no candidates or the model chose none.               *)
SelectionStands ==
  stage = "done" /\ mode = "agentic" =>
    /\ accumulated # <<>> => answer = accumulated /\ ~fallback
    /\ fallback => answer = Indices(base)
    /\ answer = <<>> => base = 0 \/ exit = "AgentDone"
=============================================================================
