------------------------------ MODULE Embedding -----------------------------
(***************************************************************************)
(* Embedding the chunks of files: the client with its rotating keys        *)
(* (src/embedding/voyage.rs), the file cache shared by all workers and     *)
(* instances (src/embedding/cache.rs), and embed_parsed_file of            *)
(* src/indexing/pipeline.rs, which mixes cached and fresh embeddings.      *)
(*                                                                         *)
(* Of an embedding only its dimension is told apart: ApiDim is what the    *)
(* backend returns now, the cache may hold entries of another dimension    *)
(* (same model name, other server).  A chunk is its text; the chunks of a  *)
(* file are in the order of their numbers.                                 *)
(***************************************************************************)
EXTENDS Naturals, FiniteSets, FiniteSetsExt

CONSTANTS
  Texts,       (* Chunk texts, a set of numbers.                           *)
  Workers,     (* Files embedded at the same time.                         *)
  NKeys,       (* Number of API keys.                                      *)
  BatchSize,   (* Texts per request.                                       *)
  Dims,        (* Dimensions an embedding may have.                        *)
  ApiDim,      (* The dimension the backend returns.                       *)
  NoEntry,     (* No entry in the cache.                                   *)
  Garbled,     (* An entry that does not decode.                           *)
  MaxRefusals  (* Bound on the 429 answers of the backend.                 *)

(* What the checked instances assume of the constants.                     *)
EmbeddingAssumption ==
  /\ Texts \subseteq Nat /\ IsFiniteSet(Texts)
  /\ NKeys \in Nat \ {0}
  /\ BatchSize \in Nat \ {0}
  /\ ApiDim \in Dims /\ Dims \subseteq Nat \ {0}
  /\ NoEntry \notin Dims /\ Garbled \notin Dims /\ NoEntry # Garbled
  /\ MaxRefusals \in Nat

Empty == 0  (* The dimension of the empty vector that stands for a failure. *)
Keys == 0 .. NKeys - 1

VARIABLES
  cache,     (* cache[t]: dimension of the entry of t, if it has one.      *)
  client,    (* Is there an embedding client?                              *)
  caching,   (* Could the cache directory be created?                      *)
  cursor,    (* key_cursor modulo the number of keys.                      *)
  refusals,  (* 429 answers so far.                                        *)
  step,      (* step[w]: where worker w is.                                *)
  own,       (* own[w]: the chunks of its file.                            *)
  cached,    (* cached[w]: the cached embeddings it has not yet placed.    *)
  phase,     (* phase[w]: which chunks it asks the backend for, and why.   *)
  want,      (* want[w]: chunks of this phase still to be requested.       *)
  got,       (* got[w]: what the earlier batches of this phase returned.   *)
  start,     (* start[w]: key the current request began with.              *)
  offset,    (* offset[w]: keys tried in the current pass.                 *)
  result,    (* result[w]: the embeddings of the file.                     *)
  answered   (* History: did the backend embed the misses of this file?    *)

shared == <<cache, client, caching, cursor, refusals>>
request == <<want, got, start, offset>>
vars == <<shared, step, own, cached, phase, request, result, answered>>

Nothing == <<>>

TypeOK ==
  /\ cache \in [Texts -> Dims \cup {NoEntry, Garbled}]
  /\ client \in BOOLEAN /\ caching \in BOOLEAN
  /\ cursor \in Keys
  /\ refusals \in 0 .. MaxRefusals
  /\ step \in [Workers -> {"idle", "lookup", "begin", "try", "backoff", "put", "done"}]
  /\ own \in [Workers -> SUBSET Texts]
  /\ \A w \in Workers :
       /\ DOMAIN cached[w] \subseteq own[w] /\ \A t \in DOMAIN cached[w] : cached[w][t] \in Dims
       /\ DOMAIN got[w] \subseteq own[w] /\ want[w] \subseteq own[w]
       /\ DOMAIN result[w] = own[w]
       /\ \A t \in own[w] : result[w][t] \in Dims \cup {Empty}
  /\ phase \in [Workers -> {"none", "all", "mismatch", "misses", "rehits"}]
  /\ start \in [Workers -> Keys] /\ offset \in [Workers -> 0 .. NKeys - 1]
  /\ answered \in [Workers -> BOOLEAN]

Init ==
  /\ cache \in [Texts -> Dims \cup {NoEntry, Garbled}]
  /\ client \in BOOLEAN /\ caching \in BOOLEAN
  /\ cursor = 0 /\ refusals = 0
  /\ step = [w \in Workers |-> "idle"]
  /\ own = [w \in Workers |-> {}]
  /\ cached = [w \in Workers |-> Nothing]
  /\ phase = [w \in Workers |-> "none"]
  /\ want = [w \in Workers |-> {}]
  /\ got = [w \in Workers |-> Nothing]
  /\ start = [w \in Workers |-> 0]
  /\ offset = [w \in Workers |-> 0]
  /\ result = [w \in Workers |-> Nothing]
  /\ answered = [w \in Workers |-> FALSE]

(* Embeddings f placed over those of g.                                    *)
Over(f, g) ==
  [t \in DOMAIN f \cup DOMAIN g |-> IF t \in DOMAIN f THEN f[t] ELSE g[t]]

(* The embeddings f, and the empty vector for the rest of the chunks.      *)
Padded(chunks, f) == Over(f, [t \in chunks |-> Empty])

(* The backend is asked for ws next; with nothing to ask, w is done.       *)
Ask(w, why, ws) ==
  /\ phase' = [phase EXCEPT ![w] = why]
  /\ want' = [want EXCEPT ![w] = ws]
  /\ got' = [got EXCEPT ![w] = Nothing]
  /\ step' = [step EXCEPT ![w] = IF ws # {} /\ client THEN "begin" ELSE "done"]

-----------------------------------------------------------------------------
(* embed_parsed_file.                                                      *)

StartFile(w, chunks) ==
  /\ step[w] = "idle"
  /\ own' = [own EXCEPT ![w] = chunks]
  /\ result' = [result EXCEPT ![w] = Padded(chunks, Nothing)]
  /\ IF caching /\ chunks # {}
     THEN step' = [step EXCEPT ![w] = "lookup"] /\ UNCHANGED <<phase, want, got>>
     ELSE Ask(w, "all", chunks)
  /\ UNCHANGED <<shared, cached, start, offset, answered>>

(* get_many: garbled entries are deleted and count as misses.  With only   *)
(* hits, the first one tells which dimension the others must have.         *)
Lookup(w) ==
  /\ step[w] = "lookup"
  /\ LET chunks == own[w]
         found == {t \in chunks : cache[t] \in Dims}
         hit == [t \in found |-> cache[t]]
         wrong == {t \in chunks : cache[t] # cache[Min(chunks)]}
     IN  /\ cache' = [t \in Texts |->
               IF t \in chunks /\ cache[t] = Garbled THEN NoEntry ELSE cache[t]]
         /\ IF found = chunks
            THEN /\ Ask(w, "mismatch", wrong)
                 /\ result' = [result EXCEPT ![w] =
                       Padded(chunks, [t \in chunks \ wrong |-> cache[t]])]
                 /\ UNCHANGED cached
            ELSE /\ Ask(w, "misses", chunks \ found)
                 /\ IF client
                    THEN cached' = [cached EXCEPT ![w] = hit] /\ UNCHANGED result
                    ELSE result' = [result EXCEPT ![w] = Padded(chunks, hit)]
                         /\ UNCHANGED cached
  /\ UNCHANGED <<client, caching, cursor, refusals, own, start, offset,
                 answered>>

(* The blocking lookup panics: everything counts as a miss, nothing is     *)
(* embedded.                                                               *)
LookupPanics(w) ==
  /\ step[w] = "lookup"
  /\ step' = [step EXCEPT ![w] = "done"]
  /\ UNCHANGED <<shared, own, cached, phase, request, result, answered>>

-----------------------------------------------------------------------------
(* embed and embed_one_request: a batch begins with the next key.          *)

Batch(w) == {t \in want[w] : Cardinality({u \in want[w] : u < t}) < BatchSize}

BeginRequest(w) ==
  /\ step[w] = "begin"
  /\ start' = [start EXCEPT ![w] = cursor]
  /\ cursor' = (cursor + 1) % NKeys
  /\ offset' = [offset EXCEPT ![w] = 0]
  /\ step' = [step EXCEPT ![w] = "try"]
  /\ UNCHANGED <<cache, client, caching, refusals, own, cached, phase, want, got,
                 result, answered>>

KeyInUse(w) == (start[w] + offset[w]) % NKeys

(* A key answers with the embeddings, possibly fewer than asked for.       *)
KeyAnswers(w) ==
  /\ step[w] = "try"
  /\ \E n \in {0, Cardinality(Batch(w))} :
       LET first == {t \in Batch(w) : Cardinality({u \in Batch(w) : u < t}) < n}
       IN  got' = [got EXCEPT ![w] = Over([t \in first |-> ApiDim], @)]
  /\ want' = [want EXCEPT ![w] = @ \ Batch(w)]
  /\ step' = [step EXCEPT ![w] = IF want'[w] = {} THEN "put" ELSE "begin"]
  /\ UNCHANGED <<shared, own, cached, phase, start, offset, result, answered>>

(* 429: the next key, or, after the last one, sleep.                       *)
KeyRefuses(w) ==
  /\ step[w] = "try"
  /\ refusals < MaxRefusals /\ refusals' = refusals + 1
  /\ IF offset[w] + 1 < NKeys
     THEN offset' = [offset EXCEPT ![w] = @ + 1] /\ UNCHANGED step
     ELSE step' = [step EXCEPT ![w] = "backoff"] /\ UNCHANGED offset
  /\ UNCHANGED <<cache, client, caching, cursor, own, cached, phase, want, got,
                 start, result, answered>>

(* The sleep ends and all keys are tried again, from the same one; nothing *)
(* looks at the cancellation token.                                        *)
Backoff(w) ==
  /\ step[w] = "backoff"
  /\ offset' = [offset EXCEPT ![w] = 0]
  /\ step' = [step EXCEPT ![w] = "try"]
  /\ UNCHANGED <<shared, own, cached, phase, want, got, start, result, answered>>

(* Any other error ends the phase, and what its earlier batches returned   *)
(* is thrown away.  The chunks of the phase stay empty; after an error on  *)
(* the misses the hits are taken as they are.                              *)
KeyFails(w) ==
  /\ step[w] = "try"
  /\ result' = [result EXCEPT ![w] =
        IF phase[w] = "misses" THEN Over(cached[w], @) ELSE @]
  /\ step' = [step EXCEPT ![w] = "done"]
  /\ UNCHANGED <<shared, own, cached, phase, request, answered>>

(* The cache entries are written one by one; a write may fail.             *)
Written(w) == {c \in [Texts -> Dims \cup {NoEntry, Garbled}] :
                 \A t \in Texts :
                   c[t] \in {cache[t]} \cup (IF t \in DOMAIN got[w] THEN {ApiDim} ELSE {})}

PlaceAnswer_TrustsHits(w) ==
  /\ step[w] = "put"
  /\ cache' \in (IF caching THEN Written(w) ELSE {cache})
  /\ LET embedded == Over(got[w], result[w])
     IN  IF phase[w] = "misses"
         THEN /\ result' = [result EXCEPT ![w] = Over(cached[w], embedded)]
              /\ answered' = [answered EXCEPT ![w] = DOMAIN got[w] # {}]
              /\ Ask(w, "rehits", {})
         ELSE /\ result' = [result EXCEPT ![w] = embedded]
              /\ step' = [step EXCEPT ![w] = "done"]
              /\ UNCHANGED <<phase, want, got, answered>>
  /\ UNCHANGED <<client, caching, cursor, refusals, own, cached, start, offset>>

(* The fresh embeddings are cached and placed.  Those of the misses tell   *)
(* the dimension the hits must have: the others are asked for again.       *)
PlaceAnswer(w) ==
  /\ step[w] = "put"
  /\ cache' \in (IF caching THEN Written(w) ELSE {cache})
  /\ LET embedded == Over(got[w], result[w])
         right == {t \in DOMAIN cached[w] : cached[w][t] = ApiDim}
         valid == [t \in right |-> ApiDim]
     IN  IF phase[w] = "misses" /\ DOMAIN got[w] # {}
         THEN /\ result' = [result EXCEPT ![w] = Over(valid, embedded)]
              /\ answered' = [answered EXCEPT ![w] = TRUE]
              /\ Ask(w, "rehits", DOMAIN cached[w] \ right)
         ELSE /\ result' = [result EXCEPT ![w] =
                    IF phase[w] = "misses" THEN Over(cached[w], embedded) ELSE embedded]
              /\ step' = [step EXCEPT ![w] = "done"]
              /\ UNCHANGED <<phase, want, got, answered>>
  /\ UNCHANGED <<client, caching, cursor, refusals, own, cached, start, offset>>

(* The file goes on to the writer, and the worker takes the next one.      *)
EndFile(w) ==
  /\ step[w] = "done"
  /\ step' = [step EXCEPT ![w] = "idle"]
  /\ own' = [own EXCEPT ![w] = {}]
  /\ phase' = [phase EXCEPT ![w] = "none"]
  /\ cached' = [cached EXCEPT ![w] = Nothing] /\ result' = [result EXCEPT ![w] = Nothing]
  /\ want' = [want EXCEPT ![w] = {}] /\ got' = [got EXCEPT ![w] = Nothing]
  /\ start' = [start EXCEPT ![w] = 0] /\ offset' = [offset EXCEPT ![w] = 0]
  /\ answered' = [answered EXCEPT ![w] = FALSE]
  /\ UNCHANGED shared

-----------------------------------------------------------------------------
(* DELETE /api/embedding-cache: entries disappear one by one; with an age, *)
(* only those not read for that long.                                      *)
Purge ==
  /\ \E t \in Texts : cache[t] # NoEntry /\ cache' = [cache EXCEPT ![t] = NoEntry]
  /\ UNCHANGED <<client, caching, cursor, refusals, step, own, cached, phase,
                 request, result, answered>>

(* Another instance, perhaps with another server behind the same model     *)
(* name, writes to the directory both use.                                 *)
OtherInstance ==
  /\ \E t \in Texts, d \in Dims : cache' = [cache EXCEPT ![t] = d]
  /\ UNCHANGED <<client, caching, cursor, refusals, step, own, cached, phase,
                 request, result, answered>>

Next ==
  \/ \E w \in Workers :
       \/ \E chunks \in SUBSET Texts : StartFile(w, chunks)
       \/ Lookup(w) \/ LookupPanics(w)
       \/ BeginRequest(w) \/ KeyAnswers(w) \/ KeyRefuses(w) \/ KeyFails(w)
       \/ Backoff(w) \/ PlaceAnswer(w) \/ EndFile(w)
  \/ Purge \/ OtherInstance

Spec == Init /\ [][Next]_vars

-----------------------------------------------------------------------------
(* Once the backend has embedded the misses of a file, every embedding of  *)
(* that file has the backend's dimension or is empty: a stale hit of the   *)
(* cache never ends up next to fresh embeddings of another dimension,      *)
(* whatever other workers and a purge do to the cache meanwhile.           *)
ApiDecidesDimension ==
  \A w \in Workers :
    step[w] = "done" /\ answered[w]
      => \A t \in own[w] : result[w][t] \in {ApiDim, Empty}
=============================================================================
