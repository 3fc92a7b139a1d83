---------------------------- MODULE VectorShard ----------------------------
(***************************************************************************)
(* One repository's vectors in memory (src/vector/mod.rs): two parallel    *)
(* arrays, the chunk ids and the flat rows of their embeddings, of `dim`   *)
(* components each.  A component is a value: a vector is compared, copied  *)
(* and scored, never computed with, and its normalisation is left out.     *)
(***************************************************************************)
EXTENDS Integers, Sequences, FiniteSets, SequencesExt

CONSTANTS
  ChunkIds,   (* What identifies a chunk.                                  *)
  Vec(_),     (* The embedding stored with a chunk: empty if the request   *)
              (* for it failed.                                            *)
  Score(_)    (* The similarity of an embedding to the query, a number.    *)

EmptyShard == [ids |-> <<>>, emb |-> <<>>, dim |-> 0]

IsShard(s) ==
  /\ \A i \in DOMAIN s.ids : s.ids[i] \in ChunkIds
  /\ s.dim \in Nat
  /\ Len(s.emb) = s.dim * Len(s.ids)
  /\ (s.ids = <<>>) => (s.dim = 0)

(* The i-th row of the flat array.                                         *)
RowAt(s, i) == SubSeq(s.emb, (i - 1) * s.dim + 1, i * s.dim)

(* What the shard says: each id with the vector a search would score.      *)
Contents(s) == {<<s.ids[i], RowAt(s, i)>> : i \in DOMAIN s.ids}

ByteSize(s) == Len(s.emb)

(* The first vector fixes the dimension; an empty one and one of another   *)
(* dimension are skipped.                                                  *)
InsertOne(s, c) ==
  LET v == Vec(c) IN
  IF v = <<>> \/ (s.dim # 0 /\ Len(v) # s.dim) THEN s
  ELSE [ids |-> Append(s.ids, c), emb |-> s.emb \o v, dim |-> Len(v)]

Insert(s, chunks) ==
  LET after[n \in 0 .. Len(chunks)] ==
        IF n = 0 THEN s ELSE InsertOne(after[n - 1], chunks[n])
  IN  after[Len(chunks)]

(* Fault: the row of the last chunk is not moved into the gap.             *)
SwapRemove_IdOnly(s, i) ==
  LET last == Len(s.ids) IN
  [s EXCEPT !.ids = SubSeq([s.ids EXCEPT ![i] = s.ids[last]], 1, last - 1),
            !.emb = SubSeq(s.emb, 1, (last - 1) * s.dim)]

(* Fault: the flat array is not truncated.                                 *)
SwapRemove_NoTruncate(s, i) ==
  [s EXCEPT !.ids = SubSeq([s.ids EXCEPT ![i] = s.ids[Len(s.ids)]], 1,
                           Len(s.ids) - 1)]

(* The last id and the last row take the place of the removed ones.        *)
SwapRemove(s, i) ==
  LET last == Len(s.ids)
      row(k) == (k - 1) \div s.dim + 1
  IN  [s EXCEPT !.ids = SubSeq([s.ids EXCEPT ![i] = s.ids[last]], 1, last - 1),
                !.emb = [k \in 1 .. (last - 1) * s.dim |->
                           IF row(k) = i THEN s.emb[k + (last - i) * s.dim]
                                         ELSE s.emb[k]]]

(* One pass over the rows removes the ids in `gone`: what was swapped into *)
(* position i is looked at again.                                          *)
Look(at, gone) ==
  IF at.shard.ids[at.i] \in gone THEN [at EXCEPT !.shard = SwapRemove(at.shard, at.i)]
                                 ELSE [at EXCEPT !.i = at.i + 1]

RemoveMatching(s, gone) ==
  LET looked[n \in 0 .. Len(s.ids)] ==
        IF n = 0 THEN [shard |-> s, i |-> 1] ELSE Look(looked[n - 1], gone)
      left == looked[Len(s.ids)].shard
  IN  IF left.ids = <<>> THEN [left EXCEPT !.dim = 0] ELSE left

(* The n-th of a sequence of hits, best first; of equal scores (which the  *)
(* code leaves in any order) the first.                                    *)
Ahead(hits, j) ==
  {i \in DOMAIN hits : \/ hits[i].score > hits[j].score
                       \/ hits[i].score = hits[j].score /\ i < j}
Nth(hits, n) == CHOOSE j \in DOMAIN hits : Cardinality(Ahead(hits, j)) = n - 1

(* The k best of them.                                                     *)
Best(hits, k) ==
  [n \in 1 .. (IF k < Len(hits) THEN k ELSE Len(hits)) |-> hits[Nth(hits, n)]]

(* VectorIndex::search.                                                    *)
SearchShard(s, k) ==
  IF s.ids = <<>> \/ k = 0 THEN <<>>
  ELSE Best([i \in DOMAIN s.ids |->
               [id |-> s.ids[i], score |-> Score(RowAt(s, i))]], k)
=============================================================================
