----------------------------- MODULE MCComponents ----------------------------
(***************************************************************************)
(* The components that share no state with the engine or with each other   *)
(* while they work, checked in one run: the initial state chooses one, the *)
(* variables of the others are parked.                                     *)
(***************************************************************************)
EXTENDS TLC

CONSTANTS
  Spellings, Norm, Clients, CurrentVersion, MaxWrites,
  Texts, Workers, NKeys, BatchSize, Dims, ApiDim, NoEntry, Garbled, MaxRefusals,
  Names, Nameless, Anonymous, MaxNodes,
  TopK, MaxHits, MaxMore, MaxTurns, CharBudgets, Sizes, MinIterations,
  Symbols, BaseChunks, Scores, MaxDepth, MaxBonus, MaxCalls,
  MaxOverlaps,
  MaxLines, MaxRanges, MaxFound, Window, Stride, MergeCap, Pad, MaxBlocks, Budget,
  NoId, NoSign,
  Blobs, PathOf, Handlers, NoBlob, NoCheckpoint, MaxCheckpoints, MaxRequests

VARIABLES
  component,
  file, mem, up, pc, goal, doc, owed, age, saved, writes,
  cache, client, caching, cursor, refusals, step, own, cached, phase, want,
  got, start, offset, result, answered,
  language, open, symbols, edges, nodes,
  stage, mode, filters, found, base, answer, fallback, budget, charBudget,
  pool, iteration, calls, awaiting, unharvested, accumulated, chars, exit,
  pending,
  provider, place, turns, last, talk, todo, results, said, rotor, first,
  passed, limited, refused, uses,
  blobs, paths, checkpoints, registered, disk, lock, handler, dirty, worker,
  requests, untold, lost, orphans,
  graph, overlaps, covered, score, at, stack, seen, expanded,
  progress, lines, blank, spans, chunks, hits, merged, asked, blocks, shown

Settings == INSTANCE SettingsFile
Embed == INSTANCE Embedding
Parse == INSTANCE Parsing
Query == INSTANCE Retrieval
Llm == INSTANCE LlmClient
Bridged == INSTANCE Bridge
Expand == INSTANCE GraphExpansion
Snip == INSTANCE Snippets

settings_vars ==
  <<file, mem, up, pc, goal, doc, owed, age, saved, writes>>
embed_vars ==
  <<cache, client, caching, cursor, refusals, step, own, cached, phase, want,
    got, start, offset, result, answered>>
parse_vars ==
  <<language, open, symbols, edges, nodes>>
query_vars ==
  <<stage, mode, filters, found, base, answer, fallback, budget, charBudget,
    pool, iteration, calls, awaiting, unharvested, accumulated, chars, exit,
    pending>>
llm_vars ==
  <<provider, place, turns, last, talk, todo, results, said, rotor, first,
    passed, limited, refused, uses>>
bridged_vars ==
  <<blobs, paths, checkpoints, registered, disk, lock, handler, dirty, worker,
    requests, untold, lost, orphans>>
expand_vars ==
  <<graph, overlaps, covered, score, at, stack, seen, expanded>>
snip_vars ==
  <<progress, lines, blank, spans, chunks, hits, merged, asked, blocks, shown>>

(* Two ways to write the path of one repository.                           *)
MCNorm == [s \in Spellings |-> IF s = "a/" THEN "a" ELSE s]

(* The requests for the settings are interchangeable; so are the symbols   *)
(* of a call graph, of which two are enough to halve its states.           *)
TwoSymbols == CHOOSE S \in SUBSET Symbols : \E s, t \in S : s # t /\ S = {s, t}
MCSymmetry == Permutations(Clients) \cup Permutations(TwoSymbols)

(* Two versions of one file.                                               *)
MCPathOf == [b \in Blobs |-> "p"]

(* What the components assume of their constants.                         *)
ASSUME SettingsOk == Settings!SettingsAssumption
ASSUME EmbeddingOk == Embed!EmbeddingAssumption
ASSUME RetrievalOk == Query!RetrievalAssumption
ASSUME LlmOk == Llm!LlmAssumption
ASSUME BridgeOk == Bridged!BridgeAssumption
ASSUME ExpansionOk == Expand!ExpansionAssumption
ASSUME SnippetsOk == Snip!SnippetsAssumption

Parked == FALSE

SettingsParked ==
  /\ file = Parked /\ mem = Parked /\ up = Parked /\ pc = Parked
  /\ goal = Parked /\ doc = Parked /\ owed = Parked /\ age = Parked
  /\ saved = Parked /\ writes = Parked
EmbedParked ==
  /\ cache = Parked /\ client = Parked /\ caching = Parked /\ cursor = Parked
  /\ refusals = Parked /\ step = Parked /\ own = Parked /\ cached = Parked
  /\ phase = Parked /\ want = Parked /\ got = Parked /\ start = Parked
  /\ offset = Parked /\ result = Parked /\ answered = Parked
ParseParked ==
  /\ language = Parked /\ open = Parked /\ symbols = Parked /\ edges = Parked
  /\ nodes = Parked
QueryParked ==
  /\ stage = Parked /\ mode = Parked /\ filters = Parked /\ found = Parked
  /\ base = Parked /\ answer = Parked /\ fallback = Parked /\ budget = Parked
  /\ charBudget = Parked /\ pool = Parked /\ iteration = Parked
  /\ calls = Parked /\ awaiting = Parked /\ unharvested = Parked
  /\ accumulated = Parked /\ chars = Parked /\ exit = Parked
  /\ pending = Parked
LlmParked ==
  /\ provider = Parked /\ place = Parked /\ turns = Parked /\ last = Parked
  /\ talk = Parked /\ todo = Parked /\ results = Parked /\ said = Parked
  /\ rotor = Parked /\ first = Parked /\ passed = Parked /\ limited = Parked
  /\ refused = Parked /\ uses = Parked
BridgedParked ==
  /\ blobs = Parked /\ paths = Parked /\ checkpoints = Parked
  /\ registered = Parked /\ disk = Parked /\ lock = Parked /\ handler = Parked
  /\ dirty = Parked /\ worker = Parked /\ requests = Parked /\ untold = Parked
  /\ lost = Parked /\ orphans = Parked
ExpandParked ==
  /\ graph = Parked /\ overlaps = Parked /\ covered = Parked /\ score = Parked
  /\ at = Parked /\ stack = Parked /\ seen = Parked /\ expanded = Parked
SnipParked ==
  /\ progress = Parked /\ lines = Parked /\ blank = Parked /\ spans = Parked
  /\ chunks = Parked /\ hits = Parked /\ merged = Parked /\ asked = Parked
  /\ blocks = Parked /\ shown = Parked

Init ==
  \/ /\ component = "settings" /\ Settings!Init
     /\ EmbedParked /\ ParseParked /\ QueryParked /\ LlmParked
     /\ BridgedParked /\ ExpandParked /\ SnipParked
  \/ /\ component = "embedding" /\ Embed!Init
     /\ SettingsParked /\ ParseParked /\ QueryParked /\ LlmParked
     /\ BridgedParked /\ ExpandParked /\ SnipParked
  \/ /\ component = "parsing" /\ Parse!Init
     /\ SettingsParked /\ EmbedParked /\ QueryParked /\ LlmParked
     /\ BridgedParked /\ ExpandParked /\ SnipParked
  \/ /\ component = "retrieval" /\ Query!Init
     /\ SettingsParked /\ EmbedParked /\ ParseParked /\ LlmParked
     /\ BridgedParked /\ ExpandParked /\ SnipParked
  \/ /\ component = "conversation" /\ Llm!Init
     /\ SettingsParked /\ EmbedParked /\ ParseParked /\ QueryParked
     /\ BridgedParked /\ ExpandParked /\ SnipParked
  \/ /\ component = "bridge" /\ Bridged!Init
     /\ SettingsParked /\ EmbedParked /\ ParseParked /\ QueryParked
     /\ LlmParked /\ ExpandParked /\ SnipParked
  \/ /\ component = "expansion" /\ Expand!Init
     /\ SettingsParked /\ EmbedParked /\ ParseParked /\ QueryParked
     /\ LlmParked /\ BridgedParked /\ SnipParked
  \/ /\ component = "snippets" /\ Snip!Init
     /\ SettingsParked /\ EmbedParked /\ ParseParked /\ QueryParked
     /\ LlmParked /\ BridgedParked /\ ExpandParked

Next ==
  \/ /\ component = "settings" /\ Settings!Next
     /\ UNCHANGED <<component, embed_vars, parse_vars, query_vars, llm_vars, bridged_vars, expand_vars, snip_vars>>
  \/ /\ component = "embedding" /\ Embed!Next
     /\ UNCHANGED <<component, settings_vars, parse_vars, query_vars, llm_vars, bridged_vars, expand_vars, snip_vars>>
  \/ /\ component = "parsing" /\ Parse!Next
     /\ UNCHANGED <<component, settings_vars, embed_vars, query_vars, llm_vars, bridged_vars, expand_vars, snip_vars>>
  \/ /\ component = "retrieval" /\ Query!Next
     /\ UNCHANGED <<component, settings_vars, embed_vars, parse_vars, llm_vars, bridged_vars, expand_vars, snip_vars>>
  \/ /\ component = "conversation" /\ Llm!Next
     /\ UNCHANGED <<component, settings_vars, embed_vars, parse_vars, query_vars, bridged_vars, expand_vars, snip_vars>>
  \/ /\ component = "bridge" /\ Bridged!Next
     /\ UNCHANGED <<component, settings_vars, embed_vars, parse_vars, query_vars, llm_vars, expand_vars, snip_vars>>
  \/ /\ component = "expansion" /\ Expand!Next
     /\ UNCHANGED <<component, settings_vars, embed_vars, parse_vars, query_vars, llm_vars, bridged_vars, snip_vars>>
  \/ /\ component = "snippets" /\ Snip!Next
     /\ UNCHANGED <<component, settings_vars, embed_vars, parse_vars, query_vars, llm_vars, bridged_vars, expand_vars>>

vars == <<component, settings_vars, embed_vars, parse_vars, query_vars, llm_vars, bridged_vars, expand_vars, snip_vars>>

Spec == Init /\ [][Next]_vars

(* The state of the component at work has its type.                        *)
TypeOK ==
  /\ component = "settings" => Settings!TypeOK
  /\ component = "embedding" => Embed!TypeOK
  /\ component = "parsing" => Parse!TypeOK
  /\ component = "retrieval" => Query!TypeOK
  /\ component = "conversation" => Llm!TypeOK
  /\ component = "bridge" => Bridged!TypeOK
  /\ component = "expansion" => Expand!TypeOK
  /\ component = "snippets" => Snip!TypeOK

(* The live settings were saved before they went live (server.rs).         *)
MemoryWasSaved == component = "settings" => Settings!MemoryWasSaved

(* One of two concurrent PUTs triggers a repository both add (server.rs).  *)
AddedOnce == component = "settings" => Settings!AddedOnce

(* Fresh embeddings decide the dimension of a file's embeddings            *)
(* (embed_parsed_file in pipeline.rs).                                     *)
ApiDecidesDimension == component = "embedding" => Embed!ApiDecidesDimension

(* The names of edges and parents are names of symbols (parsing/mod.rs).   *)
NamesJoinUp == component = "parsing" => Parse!NamesJoinUp

(* No fetched chunk is thrown away unread because a budget or a cap ended  *)
(* the agentic loop (reranker.rs).                                         *)
QueriesHarvested == component = "retrieval" => Query!QueriesHarvested

(* Nothing is selected beyond the character budget (reranker.rs).          *)
BudgetStops == [][component = "retrieval" => Query!SelectsWithinBudget]_vars

(* A selection stands however the loop ended (reranker.rs).                *)
SelectionStands == component = "retrieval" => Query!SelectionStands

(* Every request to the model is a conversation its provider accepts       *)
(* (reranker.rs, llm/).                                                    *)
CallsAnswered == component = "conversation" => Llm!CallsAnswered

(* Keys that are rate-limited are left alone, the others are all tried     *)
(* twice (llm/mod.rs).                                                     *)
LimitedKeysRest == component = "conversation" => Llm!LimitedKeysRest

(* The bridge's state, its files and what the engine was told stay in step *)
(* (app.py, state.py).                                                     *)
EngineIsTold == component = "bridge" => Bridged!EngineIsTold

(* Bonus chunks are few, new and at most two calls away (graph_expand.rs). *)
BonusIsNear == component = "expansion" => Expand!BonusIsNear

(* No line is lost or shown twice (chunker.rs, merger.rs, mcp.rs).         *)
LinesKept == component = "snippets" => Snip!LinesKept
=============================================================================
