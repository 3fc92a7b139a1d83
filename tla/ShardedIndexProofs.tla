------------------------- MODULE ShardedIndexProofs -------------------------
(***************************************************************************)
(* What the resident shards hold, for any repositories (one inside another *)
(* included), files, chunks, tasks, dimension and cap, and however runs,   *)
(* ignored files, deletions, warm-ups, timeouts and evictions interleave:  *)
(* a repository is warmed by one task at a time, a resident shard is the   *)
(* embedded part of its table outside the files that a run replaces,       *)
(* evictions meet the cap in the order of recency, and a search finds the  *)
(* best chunks of the tables.                                              *)
(*                                                                         *)
(* The loops of the model are recursive functions.  What they compute is   *)
(* proved by induction over their steps, with the least-number principle   *)
(* (WFMin over NatLessThanWellFounded): lemmas Least, UpTo and Loop.       *)
(***************************************************************************)
EXTENDS ShardedIndex, WellFoundedInduction, FiniteSetTheorems, SequenceTheorems,
        TLAPS

-----------------------------------------------------------------------------
(* Loops.                                                                  *)

(* A set of naturals that is not empty has a least element.                *)
LEMMA Least ==
  ASSUME NEW T, T \subseteq Nat, T # {}
  PROVE  \E n \in T : \A m \in T : ~(m < n)
<1> DEFINE R == {ss \in Nat \X Nat : ss[1] < ss[2]}
<1>1. IsWellFoundedOn(R, Nat)
  BY NatLessThanWellFounded DEF OpToRel
<1>2. \A m, n \in T : m < n => <<m, n>> \in R
  OBVIOUS
<1> HIDE DEF R
<1>3. PICK n \in T : \A m \in T : <<m, n>> \notin R
  BY <1>1, WFMin
<1> QED
  BY <1>2, <1>3

(* Induction up to N.                                                      *)
LEMMA UpTo ==
  ASSUME NEW N \in Nat, NEW S, 0 \in S,
         \A n \in 1 .. N : n - 1 \in S => n \in S
  PROVE  \A n \in 0 .. N : n \in S
<1> SUFFICES ASSUME NEW k \in 0 .. N, k \notin S PROVE FALSE
  OBVIOUS
<1> DEFINE T == {n \in 0 .. N : n \notin S}
<1>1. T \subseteq Nat /\ T # {}
  OBVIOUS
<1> HIDE DEF T
<1>2. PICK n \in T : \A m \in T : ~(m < n)
  BY <1>1, Least
<1>3. n \in 1 .. N /\ n - 1 \in 0 .. N
  BY <1>2 DEF T
<1>4. n - 1 \in S
  BY <1>2, <1>3 DEF T
<1> QED
  BY <1>2, <1>3, <1>4 DEF T

(* A loop: a step function on All, taken N times from d.                   *)
Runs(f, N, d, step) ==
  f[0] = d /\ \A n \in 1 .. N : f[n] = step[<<f[n - 1], n>>]

(* A loop has a run: the values that its steps give, one after the other.  *)
LEMMA Loop ==
  ASSUME NEW N \in Nat, NEW All, NEW d \in All, NEW step \in [All \X (1 .. N) -> All]
  PROVE  \E f \in [0 .. N -> All] : Runs(f, N, d, step)
<1> DEFINE S == {n \in 0 .. N : \E f \in [0 .. n -> All] : Runs(f, n, d, step)}
<1>1. 0 \in S
  <2> DEFINE f == [n \in 0 .. 0 |-> d]
  <2>1. f \in [0 .. 0 -> All] /\ Runs(f, 0, d, step)
    BY DEF Runs
  <2> QED
    BY <2>1
<1>2. ASSUME NEW n \in 1 .. N, n - 1 \in S PROVE n \in S
  <2>1. PICK f \in [0 .. n - 1 -> All] : Runs(f, n - 1, d, step)
    BY <1>2
  <2> DEFINE g == [i \in 0 .. n |-> IF i = n THEN step[<<f[n - 1], n>>] ELSE f[i]]
  <2>2. f[n - 1] \in All
    OBVIOUS
  <2>3. g \in [0 .. n -> All]
    BY <2>2
  <2>4. \A i \in 0 .. n - 1 : g[i] = f[i]
    OBVIOUS
  <2>5. g[n] = step[<<g[n - 1], n>>]
    <3>1. g[n] = step[<<f[n - 1], n>>]
      OBVIOUS
    <3>2. g[n - 1] = f[n - 1]
      BY <2>4
    <3> QED
      BY ONLY <3>1, <3>2
  <2> HIDE DEF g
  <2>6. ASSUME NEW i \in 1 .. n PROVE g[i] = step[<<g[i - 1], i>>]
    <3>1. CASE i = n
      BY <2>5, <3>1
    <3>2. CASE i # n
      <4>1. i \in 1 .. n - 1 /\ i - 1 \in 0 .. n - 1 /\ i \in 0 .. n - 1
        BY <3>2
      <4> QED
        BY <2>1, <2>4, <4>1 DEF Runs
    <3> QED
      BY <3>1, <3>2
  <2>7. g[0] = d
    BY <2>1, <2>4 DEF Runs
  <2> QED
    BY <2>3, <2>6, <2>7 DEF Runs
<1> HIDE DEF S
<1>3. N \in S
  BY <1>1, <1>2, UpTo
<1> QED
  BY <1>3 DEF S

-----------------------------------------------------------------------------
(* Rows: what a shard holds, and what an insertion adds.                   *)

(* Chunks with a vector.                                                   *)
EmbChunks == {c \in Chunks : <<c[1], c[2]>> \notin Unembedded}
Cells == Chunks \X (1 .. Dim)

(* The rows of emb are the vectors of ids.                                 *)
Rows(ids, emb) ==
  /\ Len(emb) = Dim * Len(ids)
  /\ \A i \in 1 .. Len(ids) : \A k \in 1 .. Dim :
       emb[(i - 1) * Dim + k] = <<ids[i], k>>

Loose ==
  {s \in [ids : Seq(EmbChunks), emb : Seq(Cells), dim : {0, Dim}] :
     (s.ids # <<>> => s.dim = Dim) /\ Rows(s.ids, s.emb)}

Tight == {s \in Loose : s.ids = <<>> => s.dim = 0}

(* Nothing occurs twice.                                                   *)
Distinct(s) == \A i, j \in 1 .. Len(s) : s[i] = s[j] => i = j

LEMMA DimIs == Dim \in Nat /\ Dim \in Nat \ {0}
BY ShardAssumption

(* A chunk is embedded when its vector is not empty.                       *)
LEMMA VecIs ==
  ASSUME NEW c \in Chunks
  PROVE  /\ VecOf(c) = <<>> <=> c \notin EmbChunks
         /\ c \in EmbChunks => VecOf(c) = [k \in 1 .. Dim |-> <<c, k>>] /\ Len(VecOf(c)) = Dim
<1>2. CASE c \in EmbChunks
  <2>1. VecOf(c) = [k \in 1 .. Dim |-> <<c, k>>]
    BY <1>2 DEF VecOf, EmbChunks
  <2>2. Len(VecOf(c)) = Dim
    BY DimIs, <2>1
  <2>3. VecOf(c) # <<>>
    <3>1. Len(VecOf(c)) # 0 /\ Len(<<>>) = 0
      BY DimIs, <2>2
    <3> QED
      BY ONLY <3>1
  <2> QED
    BY ONLY <1>2, <2>1, <2>2, <2>3
<1>3. CASE c \notin EmbChunks
  BY <1>3 DEF VecOf, EmbChunks
<1> QED
  BY ONLY <1>2, <1>3

(* The empty shard holds nothing.                                          *)
LEMMA EmptyTight == V!EmptyShard \in Tight
BY DimIs DEF V!EmptyShard, Tight, Loose, Rows

(* The place of the k-th component of row i among n rows of d components.  *)
LEMMA PlaceIn ==
  ASSUME NEW d \in Nat \ {0}, NEW n \in Nat, NEW i \in 1 .. n, NEW k \in 1 .. d
  PROVE  (i - 1) * d + k \in 1 .. d * n
OBVIOUS

LEMMA TimesSucc ==
  ASSUME NEW d \in Nat, NEW n \in Nat
  PROVE  d * n \in Nat /\ d * (n + 1) = d * n + d /\ (n + 1 - 1) * d = d * n
OBVIOUS

LEMMA CatAt ==
  ASSUME NEW B, NEW a \in Seq(B), NEW b \in Seq(B)
  PROVE  /\ a \o b \in Seq(B) /\ Len(a \o b) = Len(a) + Len(b)
         /\ \A i \in 1 .. Len(a) : (a \o b)[i] = a[i]
         /\ \A i \in 1 .. Len(b) : (a \o b)[Len(a) + i] = b[i]
OBVIOUS

LEMMA AppendAt ==
  ASSUME NEW B, NEW a \in Seq(B), NEW b \in B
  PROVE  /\ Append(a, b) \in Seq(B) /\ Len(Append(a, b)) = Len(a) + 1
         /\ \A i \in 1 .. Len(a) : Append(a, b)[i] = a[i]
         /\ Append(a, b)[Len(a) + 1] = b
         /\ Len(a) \in Nat /\ Append(a, b) # <<>>
OBVIOUS

(* A vector appended to the flat array is the row of the appended id.      *)
LEMMA RowsAppend ==
  ASSUME NEW A, NEW B, NEW ids \in Seq(A), NEW emb \in Seq(B), NEW c \in A,
         NEW v \in Seq(B), Len(v) = Dim, \A k \in 1 .. Dim : v[k] = <<c, k>>,
         Rows(ids, emb)
  PROVE  Rows(Append(ids, c), emb \o v)
<1> DEFINE n == Len(ids)
           m == Dim * n
<1>1. n \in Nat /\ Len(emb) = m /\ m \in Nat
  BY DimIs, TimesSucc DEF Rows
<1>2. Len(Append(ids, c)) = n + 1 /\ Len(emb \o v) = m + Dim
  <2>1. Len(emb \o v) = Len(emb) + Len(v)
    BY CatAt
  <2>2. Len(Append(ids, c)) = n + 1
    BY AppendAt
  <2> QED
    BY <1>1, <2>1, <2>2
<1>3. Dim * (n + 1) = m + Dim
  BY DimIs, <1>1, TimesSucc
<1>4. ASSUME NEW i \in 1 .. n + 1, NEW k \in 1 .. Dim
      PROVE  (emb \o v)[(i - 1) * Dim + k] = <<Append(ids, c)[i], k>>
  <2>1. CASE i = n + 1
    <3>1. (i - 1) * Dim + k = m + k
      BY <1>1, <2>1, DimIs, TimesSucc
    <3> HIDE DEF m
    <3>2. (emb \o v)[m + k] = v[k]
      BY <1>1, CatAt
    <3>3. Append(ids, c)[n + 1] = c
      BY <1>1
    <3> QED
      BY <2>1, <3>1, <3>2, <3>3
  <2>2. CASE i # n + 1
    <3>1. i \in 1 .. n
      <4>1. n \in Nat /\ i \in 1 .. n + 1 /\ i # n + 1
        BY <1>1, <2>2
      <4> HIDE DEF n
      <4> QED
        BY ONLY <4>1
    <3>2. (i - 1) * Dim + k \in 1 .. m
      BY <1>1, <3>1, DimIs, PlaceIn
    <3>3. Append(ids, c)[i] = ids[i]
      BY <1>1, <3>1
    <3>4. emb[(i - 1) * Dim + k] = <<ids[i], k>>
      BY <3>1 DEF Rows
    <3> HIDE DEF m
    <3>5. \A p \in 1 .. m : (emb \o v)[p] = emb[p]
      BY <1>1, DimIs
    <3> QED
      BY <3>2, <3>3, <3>4, <3>5
  <2> QED
    BY <2>1, <2>2
<1> QED
  BY <1>2, <1>3, <1>4 DEF Rows

LEMMA InToSet ==
  ASSUME NEW A, NEW s \in Seq(A)
  PROVE  \A x : x \in ToSet(s) <=> \E j \in 1 .. Len(s) : x = s[j]
<1>1. DOMAIN s = 1 .. Len(s)
  OBVIOUS
<1> QED
  BY <1>1 DEF ToSet

(* The elements of an appended sequence.                                   *)
LEMMA ToSetAppend ==
  ASSUME NEW A, NEW s \in Seq(A), NEW c
  PROVE  ToSet(Append(s, c)) = ToSet(s) \cup {c}
<1>1. \A x : x \in ToSet(s) <=> \E j \in 1 .. Len(s) : x = s[j]
  BY InToSet
<1> DEFINE B == A \cup {c}
<1>2. s \in Seq(B) /\ c \in B
  BY SeqMonotonic
<1> HIDE DEF B
<1>3. /\ Append(s, c) \in Seq(B) /\ Len(Append(s, c)) = Len(s) + 1 /\ Len(s) \in Nat
      /\ \A j \in 1 .. Len(s) : Append(s, c)[j] = s[j]
      /\ Append(s, c)[Len(s) + 1] = c
  BY <1>2, AppendAt
<1>4. PICK q : q = Append(s, c)
  OBVIOUS
<1>5. q \in Seq(B) /\ Len(q) = Len(s) + 1
  BY ONLY <1>3, <1>4
<1>6. \A x : x \in ToSet(q) <=> \E j \in 1 .. Len(q) : x = q[j]
  BY ONLY <1>5, InToSet
<1>7. \A j : j \in 1 .. Len(s) + 1 <=> j \in 1 .. Len(s) \/ j = Len(s) + 1
  BY <1>3
<1>8. ASSUME NEW x PROVE x \in ToSet(q) <=> x \in ToSet(s) \/ x = c
  BY ONLY <1>1, <1>3, <1>4, <1>5, <1>6, <1>7
<1> QED
  BY <1>4, <1>8

(* An insertion adds the chunk, unless it has no vector.                   *)
LEMMA InsertOneKeeps ==
  ASSUME NEW s \in Loose, NEW c \in Chunks
  PROVE  /\ V!InsertOne(s, c) \in Loose
         /\ s \in Tight => V!InsertOne(s, c) \in Tight
         /\ ToSet(V!InsertOne(s, c).ids) = ToSet(s.ids) \cup ({c} \cap EmbChunks)
<1>1. CASE c \notin EmbChunks
  BY <1>1, VecIs DEF V!InsertOne
<1>2. CASE c \in EmbChunks
  <2> DEFINE v == VecOf(c)
             t == [ids |-> Append(s.ids, c), emb |-> s.emb \o v, dim |-> Dim]
  <2>1. v # <<>> /\ Len(v) = Dim /\ v = [k \in 1 .. Dim |-> <<c, k>>]
    BY <1>2, VecIs
  <2>2. s.ids \in Seq(EmbChunks) /\ s.emb \in Seq(Cells) /\ Rows(s.ids, s.emb) /\ s.dim \in {0, Dim}
    BY DEF Loose
  <2>3. V!InsertOne(s, c) = t
    BY <2>1, <2>2 DEF V!InsertOne
  <2>4. v \in Seq(Cells) /\ \A k \in 1 .. Dim : v[k] = <<c, k>>
    BY <2>1, DimIs DEF Cells
  <2> HIDE DEF v
  <2>5. Rows(t.ids, t.emb)
    BY <1>2, <2>1, <2>2, <2>4, RowsAppend
  <2>6. t.ids \in Seq(EmbChunks) /\ t.emb \in Seq(Cells) /\ t.ids # <<>>
    <3>1. Append(s.ids, c) \in Seq(EmbChunks) /\ Append(s.ids, c) # <<>>
      BY <1>2, <2>2, AppendAt
    <3>2. s.emb \o v \in Seq(Cells)
      BY <2>2, <2>4, CatAt
    <3> QED
      BY <3>1, <3>2
  <2>7. ToSet(t.ids) = ToSet(s.ids) \cup {c}
    BY <2>2, ToSetAppend
  <2>8. t \in Loose /\ t \in Tight
    BY <2>5, <2>6, DimIs DEF Loose, Tight
  <2> QED
    BY <1>2, <2>3, <2>7, <2>8
<1> QED
  BY <1>1, <1>2

(* An insertion of another chunk repeats none.                             *)
LEMMA InsertOneDistinct ==
  ASSUME NEW s \in Loose, Distinct(s.ids), NEW c \in Chunks, c \notin ToSet(s.ids)
  PROVE  Distinct(V!InsertOne(s, c).ids)
<1>1. s.ids \in Seq(EmbChunks)
  BY DEF Loose
<1>2. V!InsertOne(s, c).ids \in {s.ids, Append(s.ids, c)}
  BY DEF V!InsertOne
<1> DEFINE B == EmbChunks \cup {c}
<1>3. s.ids \in Seq(B) /\ c \in B
  BY <1>1, SeqMonotonic
<1> HIDE DEF B
<1> PICK q : q = Append(s.ids, c)
  OBVIOUS
<1>4. /\ Len(q) = Len(s.ids) + 1 /\ Len(s.ids) \in Nat
      /\ \A j \in 1 .. Len(s.ids) : q[j] = s.ids[j]
      /\ q[Len(s.ids) + 1] = c
  BY <1>3, AppendAt
<1>5. \A j \in 1 .. Len(s.ids) : s.ids[j] # c
  BY <1>1, InToSet
<1>6. Distinct(q)
  <2> SUFFICES ASSUME NEW i \in 1 .. Len(q), NEW j \in 1 .. Len(q), q[i] = q[j] PROVE i = j
    BY DEF Distinct
  <2>1. /\ i \in 1 .. Len(s.ids) \/ i = Len(s.ids) + 1
        /\ j \in 1 .. Len(s.ids) \/ j = Len(s.ids) + 1
    BY <1>4
  <2> QED
    BY <1>4, <1>5, <2>1 DEF Distinct
<1> QED
  BY <1>2, <1>6

(* The values that the loop of an insertion goes through.                  *)
LEMMA InsertLoop ==
  ASSUME NEW s \in Loose, NEW chunks \in Seq(Chunks)
  PROVE  \E g : /\ V!Insert(s, chunks) = g[Len(chunks)]
                /\ g[0] = s
                /\ \A n \in 1 .. Len(chunks) : g[n] = V!InsertOne(g[n - 1], chunks[n])
<1> DEFINE N == Len(chunks)
           after[n \in 0 .. N] ==
             IF n = 0 THEN s ELSE V!InsertOne(after[n - 1], chunks[n])
           step == [p \in Loose \X (1 .. N) |-> V!InsertOne(p[1], chunks[p[2]])]
<1>1. V!Insert(s, chunks) = after[N]
  BY DEF V!Insert
<1>2. step \in [Loose \X (1 .. N) -> Loose]
  <2>1. ASSUME NEW x \in Loose, NEW n \in 1 .. N
        PROVE  V!InsertOne(x, chunks[n]) \in Loose
    <3>1. chunks[n] \in Chunks
      OBVIOUS
    <3> QED
      BY <3>1, InsertOneKeeps
  <2> QED
    BY <2>1
<1> HIDE DEF step
<1>3. PICK f \in [0 .. N -> Loose] : Runs(f, N, s, step)
  <2>1. N \in Nat
    OBVIOUS
  <2> HIDE DEF N
  <2> QED
    BY ONLY <1>2, <2>1, s \in Loose, Loop
<1>4. f = [n \in 0 .. N |-> IF n = 0 THEN s ELSE V!InsertOne(f[n - 1], chunks[n])]
  <2>1. f = [n \in 0 .. N |-> f[n]]
    OBVIOUS
  <2>2. ASSUME NEW n \in 1 .. N PROVE f[n] = V!InsertOne(f[n - 1], chunks[n])
    <3>1. f[n - 1] \in Loose /\ f[n] = step[<<f[n - 1], n>>]
      BY <1>3 DEF Runs
    <3> QED
      BY <3>1 DEF step
  <2>3. f[0] = s
    BY <1>3 DEF Runs
  <2>4. \A n \in 0 .. N : n # 0 => n \in 1 .. N
    OBVIOUS
  <2> QED
    BY <2>1, <2>2, <2>3, <2>4
<1>5. after = [n \in 0 .. N |-> IF n = 0 THEN s ELSE V!InsertOne(after[n - 1], chunks[n])]
  BY <1>4
<1> HIDE DEF after
<1>6. after[0] = s /\ \A n \in 1 .. N : after[n] = V!InsertOne(after[n - 1], chunks[n])
  BY <1>5
<1> QED
  BY <1>1, <1>6

(* An insertion adds the chunks that have a vector, each with its row.     *)
LEMMA InsertIs ==
  ASSUME NEW s \in Loose, NEW chunks \in Seq(Chunks)
  PROVE  /\ V!Insert(s, chunks) \in Loose
         /\ s \in Tight => V!Insert(s, chunks) \in Tight
         /\ ToSet(V!Insert(s, chunks).ids) =
              ToSet(s.ids) \cup (ToSet(chunks) \cap EmbChunks)
<1> DEFINE N == Len(chunks)
           seen(n) == {chunks[i] : i \in 1 .. n}
<1>1. PICK g : /\ V!Insert(s, chunks) = g[N]
               /\ g[0] = s
               /\ \A n \in 1 .. N : g[n] = V!InsertOne(g[n - 1], chunks[n])
  BY InsertLoop
<1> DEFINE Good(x, n) == /\ x \in Loose
                         /\ s \in Tight => x \in Tight
                         /\ ToSet(x.ids) = ToSet(s.ids) \cup (seen(n) \cap EmbChunks)
           S == {n \in 0 .. N : Good(g[n], n)}
<1>2. 0 \in S
  BY <1>1
<1>3. ASSUME NEW n \in 1 .. N, n - 1 \in S PROVE n \in S
  <2>1. chunks[n] \in Chunks /\ Good(g[n - 1], n - 1) /\ n \in 0 .. N
    BY <1>3
  <2>2. g[n] = V!InsertOne(g[n - 1], chunks[n])
    BY <1>1
  <2>3. seen(n) = seen(n - 1) \cup {chunks[n]}
    <3>1. 1 .. n = (1 .. n - 1) \cup {n}
      OBVIOUS
    <3> QED
      BY ONLY <3>1
  <2> HIDE DEF seen
  <2>4. ToSet(g[n].ids) = ToSet(g[n - 1].ids) \cup ({chunks[n]} \cap EmbChunks)
    BY <2>1, <2>2, InsertOneKeeps
  <2>5. g[n] \in Loose /\ (s \in Tight => g[n] \in Tight)
    BY <2>1, <2>2, InsertOneKeeps
  <2> QED
    BY <2>1, <2>3, <2>4, <2>5
<1>4. N \in S
  <2>1. N \in Nat
    OBVIOUS
  <2> HIDE DEF S, N
  <2>2. \A n \in 0 .. N : n \in S
    BY ONLY <1>2, <1>3, <2>1, UpTo
  <2> QED
    BY <2>1, <2>2
<1>5. seen(N) = ToSet(chunks)
  BY DEF ToSet
<1> QED
  BY <1>1, <1>4, <1>5

(* An insertion of other chunks, none of them twice, repeats none.         *)
LEMMA InsertDistinct ==
  ASSUME NEW s \in Loose, Distinct(s.ids), NEW chunks \in Seq(Chunks), Distinct(chunks),
         ToSet(s.ids) \cap ToSet(chunks) = {}
  PROVE  Distinct(V!Insert(s, chunks).ids)
<1> DEFINE N == Len(chunks)
           seen(n) == {chunks[i] : i \in 1 .. n}
<1>1. PICK g : /\ V!Insert(s, chunks) = g[N]
               /\ g[0] = s
               /\ \A n \in 1 .. N : g[n] = V!InsertOne(g[n - 1], chunks[n])
  BY InsertLoop
<1> DEFINE Good(x, n) == /\ x \in Loose /\ Distinct(x.ids)
                         /\ ToSet(x.ids) \subseteq ToSet(s.ids) \cup seen(n)
           S == {n \in 0 .. N : Good(g[n], n)}
<1>2. 0 \in S
  BY <1>1
<1>3. ASSUME NEW n \in 1 .. N, n - 1 \in S PROVE n \in S
  <2> DEFINE x == g[n - 1]
             c == chunks[n]
  <2>1. c \in Chunks /\ Good(x, n - 1) /\ n \in 0 .. N /\ n \in Nat
    BY <1>3
  <2>2. g[n] = V!InsertOne(x, c)
    BY <1>1
  <2>3. seen(n) = seen(n - 1) \cup {c} /\ c \notin seen(n - 1)
    <3>1. 1 .. n = (1 .. n - 1) \cup {n}
      OBVIOUS
    <3>2. seen(n) = seen(n - 1) \cup {c}
      BY ONLY <3>1
    <3>3. \A i \in 1 .. n - 1 : i \in 1 .. N /\ i # n
      OBVIOUS
    <3>4. \A i \in 1 .. n - 1 : chunks[i] # c
      BY <3>3 DEF Distinct
    <3> QED
      BY <3>2, <3>4
  <2>4. c \notin ToSet(s.ids)
    BY InToSet
  <2> HIDE DEF seen, x, c
  <2>5. c \notin ToSet(x.ids)
    BY <2>1, <2>3, <2>4
  <2>6. /\ g[n] \in Loose
        /\ ToSet(g[n].ids) \subseteq ToSet(s.ids) \cup seen(n)
    <3>1. /\ V!InsertOne(x, c) \in Loose
          /\ ToSet(V!InsertOne(x, c).ids) = ToSet(x.ids) \cup ({c} \cap EmbChunks)
      BY ONLY <2>1, InsertOneKeeps
    <3> QED
      BY ONLY <2>1, <2>2, <2>3, <3>1
  <2>7. Distinct(g[n].ids)
    BY <2>1, <2>2, <2>5, InsertOneDistinct
  <2> QED
    BY <2>1, <2>6, <2>7
<1>4. N \in S
  <2>1. N \in Nat
    OBVIOUS
  <2> HIDE DEF S, N
  <2>2. \A n \in 0 .. N : n \in S
    BY ONLY <1>2, <1>3, <2>1, UpTo
  <2> QED
    BY <2>1, <2>2
<1> QED
  BY <1>1, <1>4

-----------------------------------------------------------------------------
(* Removal: the last row takes the place of a removed one.                 *)

(* The row of a place, and the place of a row.                             *)
LEMMA RowOf ==
  ASSUME NEW d \in Nat \ {0}, NEW j \in Nat \ {0}, NEW k \in 1 .. d,
         NEW p, p = (j - 1) * d + k
  PROVE  (p - 1) \div d + 1 = j
<1>1. p - 1 = (j - 1) * d + (k - 1)
  OBVIOUS
<1>2. \A q \in Nat : \A r \in 0 .. d - 1 : (q * d + r) \div d = q
  OBVIOUS
<1>3. j - 1 \in Nat /\ k - 1 \in 0 .. d - 1
  OBVIOUS
<1>4. ((j - 1) * d + (k - 1)) \div d = j - 1
  BY ONLY <1>2, <1>3
<1> QED
  BY ONLY <1>1, <1>3, <1>4, j \in Nat

(* Every place is a component of a row.                                    *)
LEMMA Placed ==
  ASSUME NEW d \in Nat \ {0}, NEW n \in Nat, NEW p \in 1 .. n * d
  PROVE  \E j \in 1 .. n : \E k \in 1 .. d : p = (j - 1) * d + k
<1>1. (p - 1) \div d + 1 \in 1 .. n /\ p - ((p - 1) \div d) * d \in 1 .. d
  OBVIOUS
<1> DEFINE q == (p - 1) \div d
<1>2. q \in Nat /\ q + 1 \in 1 .. n
  BY <1>1
<1>3. p = ((q + 1) - 1) * d + (p - q * d)
  BY <1>2
<1>4. p - q * d \in 1 .. d
  BY <1>1
<1> HIDE DEF q
<1> QED
  BY ONLY <1>2, <1>3, <1>4

(* The last row, by the distance that its components move.                 *)
LEMMA Moved ==
  ASSUME NEW d \in Nat \ {0}, NEW n \in Nat, NEW i \in 1 .. n, NEW k \in 1 .. d
  PROVE  (i - 1) * d + k + (n - i) * d = (n - 1) * d + k
OBVIOUS

LEMMA TimesLess ==
  ASSUME NEW d \in Nat, NEW n \in Nat \ {0}
  PROVE  (n - 1) * d \in Nat /\ (n - 1) * d = d * (n - 1)
OBVIOUS

(* The two arrays after a swap_remove.                                     *)
IdsLess(ids, i) == SubSeq([ids EXCEPT ![i] = ids[Len(ids)]], 1, Len(ids) - 1)
EmbLess(n, emb, i) ==
  [p \in 1 .. (n - 1) * Dim |->
     IF (p - 1) \div Dim + 1 = i THEN emb[p + (n - i) * Dim] ELSE emb[p]]

(* The ids after a removal: the last one fills the gap.                    *)
LEMMA SwapIds ==
  ASSUME NEW A, NEW ids \in Seq(A), NEW i \in 1 .. Len(ids),
         NEW t, t = IdsLess(ids, i)
  PROVE  /\ t \in Seq(A) /\ Len(t) = Len(ids) - 1 /\ Len(ids) \in Nat \ {0}
         /\ \A j \in 1 .. Len(ids) - 1 : t[j] = IF j = i THEN ids[Len(ids)] ELSE ids[j]
<1> DEFINE n == Len(ids)
           x == [ids EXCEPT ![i] = ids[n]]
<1>1. n \in Nat \ {0} /\ n - 1 \in Nat /\ DOMAIN ids = 1 .. n
  OBVIOUS
<1>2. x \in Seq(A) /\ Len(x) = n
  OBVIOUS
<1>3. \A j \in 1 .. n : x[j] = IF j = i THEN ids[n] ELSE ids[j]
  BY <1>1
<1> HIDE DEF x, n
<1>4. t = SubSeq(x, 1, n - 1)
  BY DEF x, n, IdsLess
<1>5. \A j \in 1 .. n - 1 : t[j] = x[j] /\ j \in 1 .. n
  BY ONLY <1>1, <1>2, <1>4
<1>6. t \in Seq(A) /\ Len(t) = n - 1
  BY ONLY <1>1, <1>2, <1>4
<1> QED
  BY <1>1, <1>3, <1>5, <1>6 DEF n

(* The rows after a removal are those of the ids.                          *)
LEMMA SwapRows ==
  ASSUME NEW A, NEW ids \in Seq(A), NEW emb, NEW i \in 1 .. Len(ids), Rows(ids, emb),
         NEW t \in Seq(A), Len(t) = Len(ids) - 1,
         \A j \in 1 .. Len(ids) - 1 : t[j] = IF j = i THEN ids[Len(ids)] ELSE ids[j],
         NEW e, e = EmbLess(Len(ids), emb, i)
  PROVE  Rows(t, e) /\ e \in Seq(A \X (1 .. Dim))
<1> DEFINE n == Len(ids)
           m == (n - 1) * Dim
<1>1. n \in Nat \ {0} /\ n - 1 \in Nat /\ Len(t) = n - 1
  OBVIOUS
<1> HIDE DEF n
<1>2. m \in Nat /\ m = Dim * (n - 1)
  BY <1>1, DimIs, TimesLess
<1>3. ASSUME NEW j \in 1 .. n - 1, NEW k \in 1 .. Dim
      PROVE  e[(j - 1) * Dim + k] = <<t[j], k>>
  <2> DEFINE p == (j - 1) * Dim + k
  <2>1. p \in 1 .. m /\ (p - 1) \div Dim + 1 = j
    <3>1. p \in 1 .. Dim * (n - 1)
      BY <1>1, DimIs, PlaceIn
    <3>2. (p - 1) \div Dim + 1 = j
      <4>1. j \in Nat \ {0}
        BY <1>1
      <4>2. p = (j - 1) * Dim + k
        OBVIOUS
      <4> HIDE DEF p
      <4> QED
        BY ONLY <4>1, <4>2, DimIs, RowOf, k \in 1 .. Dim
    <3> QED
      BY <1>2, <3>1, <3>2
  <2>2. e[p] = IF j = i THEN emb[p + (n - i) * Dim] ELSE emb[p]
    <3> HIDE DEF p, m
    <3>1. e = [x \in 1 .. m |-> IF (x - 1) \div Dim + 1 = i THEN emb[x + (n - i) * Dim] ELSE emb[x]]
      BY DEF m, n, EmbLess
    <3> QED
      BY ONLY <2>1, <3>1
  <2>3. \A l \in 1 .. n : emb[(l - 1) * Dim + k] = <<ids[l], k>>
    BY DEF Rows, n
  <2>4. t[j] = IF j = i THEN ids[n] ELSE ids[j]
    BY DEF n
  <2>5. CASE j = i
    <3>1. p + (n - i) * Dim = (n - 1) * Dim + k
      <4>1. n \in Nat /\ i \in 1 .. n
        BY <1>1 DEF n
      <4> QED
        BY <2>5, <4>1, DimIs, Moved
    <3>2. n \in 1 .. n
      BY <1>1
    <3> QED
      BY ONLY <2>2, <2>3, <2>4, <2>5, <3>1, <3>2
  <2>6. CASE j # i
    <3>1. j \in 1 .. n
      BY <1>1
    <3> QED
      BY ONLY <2>2, <2>3, <2>4, <2>6, <3>1
  <2> QED
    BY <2>5, <2>6
<1>4. ASSUME NEW p \in 1 .. m PROVE e[p] \in A \X (1 .. Dim)
  <2>1. PICK j \in 1 .. n - 1, k \in 1 .. Dim : p = (j - 1) * Dim + k
    BY <1>1, DimIs, Placed
  <2>2. t[j] \in A
    BY <1>1
  <2> QED
    <3>1. e[(j - 1) * Dim + k] = <<t[j], k>>
      BY ONLY <1>3, j \in 1 .. n - 1, k \in 1 .. Dim
    <3> QED
      BY ONLY <2>1, <2>2, <3>1, k \in 1 .. Dim
<1>5. DOMAIN e = 1 .. m
  BY DEF m, n, EmbLess
<1>6. e \in [1 .. m -> A \X (1 .. Dim)]
  <2> HIDE DEF m
  <2>1. e = [x \in 1 .. m |-> e[x]]
    BY DEF m, n, EmbLess
  <2> QED
    BY ONLY <1>4, <2>1
<1>7. e \in Seq(A \X (1 .. Dim)) /\ Len(e) = m
  <2> HIDE DEF m
  <2> QED
    BY ONLY <1>2, <1>6
<1> QED
  BY <1>1, <1>2, <1>3, <1>7 DEF Rows

(* t is s without its i-th row.                                            *)
Swapped(t, s, i) ==
  /\ t \in Loose /\ Len(t.ids) = Len(s.ids) - 1
  /\ \A j \in 1 .. Len(s.ids) - 1 :
       t.ids[j] = IF j = i THEN s.ids[Len(s.ids)] ELSE s.ids[j]

(* The removal of a row keeps ids and rows together.                       *)
LEMMA SwapRemoveIs ==
  ASSUME NEW s \in Loose, NEW i \in 1 .. Len(s.ids)
  PROVE  Swapped(V!SwapRemove(s, i), s, i)
<1> PICK t : t = V!SwapRemove(s, i)
  OBVIOUS
<1> DEFINE ids == IdsLess(s.ids, i)
           emb == EmbLess(Len(s.ids), s.emb, i)
<1>1. /\ s.ids \in Seq(EmbChunks) /\ s.dim = Dim /\ Rows(s.ids, s.emb)
      /\ s = [ids |-> s.ids, emb |-> s.emb, dim |-> s.dim]
  BY DEF Loose
<1>2. t = [ids |-> ids, emb |-> emb, dim |-> Dim]
  BY ONLY <1>1, t = V!SwapRemove(s, i) DEF V!SwapRemove, IdsLess, EmbLess
<1>3. /\ ids \in Seq(EmbChunks) /\ Len(ids) = Len(s.ids) - 1 /\ Len(s.ids) \in Nat \ {0}
      /\ \A j \in 1 .. Len(s.ids) - 1 :
           ids[j] = IF j = i THEN s.ids[Len(s.ids)] ELSE s.ids[j]
  BY ONLY <1>1, SwapIds, i \in 1 .. Len(s.ids)
<1>4. Rows(ids, emb) /\ emb \in Seq(EmbChunks \X (1 .. Dim))
  BY ONLY <1>1, <1>3, SwapRows, i \in 1 .. Len(s.ids)
<1> HIDE DEF ids, emb
<1>5. EmbChunks \X (1 .. Dim) \subseteq Cells
  BY DEF EmbChunks, Cells
<1>6. emb \in Seq(Cells)
  BY ONLY <1>4, <1>5
<1> QED
  BY <1>2, <1>3, <1>4, <1>6, DimIs DEF Loose, Swapped

(* A loop that keeps to the pairs of a state and a count in R.             *)
LEMMA LoopIn ==
  ASSUME NEW N \in Nat, NEW All, NEW d \in All, NEW R, <<d, 0>> \in R, NEW step,
         \A n \in 1 .. N : \A x \in All :
           <<x, n - 1>> \in R => step[<<x, n>>] \in All /\ <<step[<<x, n>>], n>> \in R
  PROVE  \E f \in [0 .. N -> All] : Runs(f, N, d, step) /\ \A n \in 0 .. N : <<f[n], n>> \in R
<1> DEFINE safe == [p \in All \X (1 .. N) |->
                      IF <<p[1], p[2] - 1>> \in R THEN step[<<p[1], p[2]>>] ELSE p[1]]
<1>1. safe \in [All \X (1 .. N) -> All]
  OBVIOUS
<1>2. \A x \in All : \A n \in 1 .. N : <<x, n - 1>> \in R => safe[<<x, n>>] = step[<<x, n>>]
  OBVIOUS
<1> HIDE DEF safe
<1>3. PICK f \in [0 .. N -> All] : Runs(f, N, d, safe)
  BY ONLY <1>1, Loop, N \in Nat, d \in All
<1> DEFINE S == {n \in 0 .. N : <<f[n], n>> \in R}
<1>4. 0 \in S
  BY <1>3 DEF Runs
<1>5. ASSUME NEW n \in 1 .. N, n - 1 \in S
      PROVE  n \in S /\ f[n] = step[<<f[n - 1], n>>]
  <2>1. f[n - 1] \in All /\ <<f[n - 1], n - 1>> \in R
    BY <1>5
  <2>2. f[n] = step[<<f[n - 1], n>>]
    BY <1>2, <1>3, <2>1 DEF Runs
  <2>3. <<f[n], n>> \in R
    BY <2>1, <2>2
  <2> QED
    BY <2>2, <2>3
<1> HIDE DEF S
<1>6. \A n \in 0 .. N : n \in S
  BY <1>4, <1>5, UpTo
<1>7. \A n \in 1 .. N : f[n] = step[<<f[n - 1], n>>]
  <2> TAKE n \in 1 .. N
  <2>1. n - 1 \in S
    BY <1>6
  <2> QED
    BY <1>5, <2>1
<1> QED
  BY <1>3, <1>6, <1>7 DEF Runs, S

(* n rows have been looked at: those before position i stay.               *)
Looking == [shard : Loose, i : Nat]
Pass(s, gone, at, n) ==
  /\ at \in Looking
  /\ at.i \in 1 .. n + 1
  /\ Len(at.shard.ids) + n = Len(s.ids) + at.i - 1
  /\ \A j \in 1 .. at.i - 1 : at.shard.ids[j] \notin gone
  /\ ToSet(s.ids) \ gone \subseteq ToSet(at.shard.ids)
  /\ ToSet(at.shard.ids) \subseteq ToSet(s.ids)
  /\ Distinct(s.ids) => Distinct(at.shard.ids)

(* A look keeps what a pass has established.                               *)
LEMMA PassStep ==
  ASSUME NEW s \in Loose, NEW gone, NEW at, NEW n \in 1 .. Len(s.ids),
         Pass(s, gone, at, n - 1)
  PROVE  Pass(s, gone, V!Look(at, gone), n)
<1> DEFINE N == Len(s.ids)
           x == at.shard
           m == Len(x.ids)
           i == at.i
<1>1. /\ x \in Loose /\ x.ids \in Seq(EmbChunks) /\ m \in Nat /\ i \in Nat \ {0} /\ N \in Nat
      /\ i <= n /\ m + n = N + i
      /\ at = [shard |-> x, i |-> i]
  <2>1. N \in Nat
    BY DEF Loose
  <2>2. x \in Loose /\ x.ids \in Seq(EmbChunks) /\ i \in 1 .. n - 1 + 1 /\ at = [shard |-> x, i |-> i]
    BY DEF Pass, Looking, Loose
  <2>3. m \in Nat
    BY <2>2
  <2>4. m + (n - 1) = N + i - 1
    BY DEF Pass
  <2> HIDE DEF m, i, N, x
  <2> QED
    BY <2>1, <2>2, <2>3, <2>4
<1>2. i \in 1 .. m
  <2> HIDE DEF m, i, N, x
  <2>1. n \in 1 .. N
    BY DEF N
  <2> QED
    BY <1>1, <2>1
<1>3. /\ \A j \in 1 .. i - 1 : x.ids[j] \notin gone
      /\ ToSet(s.ids) \ gone \subseteq ToSet(x.ids)
      /\ ToSet(x.ids) \subseteq ToSet(s.ids)
      /\ Distinct(s.ids) => Distinct(x.ids)
  BY DEF Pass
<1>4. CASE x.ids[i] \in gone
  <2> PICK t : t = V!SwapRemove(x, i)
    OBVIOUS
  <2>1. /\ t \in Loose /\ Len(t.ids) = m - 1
        /\ \A j \in 1 .. m - 1 : t.ids[j] = IF j = i THEN x.ids[m] ELSE x.ids[j]
    <3>1. m = Len(x.ids) /\ t = V!SwapRemove(x, i)
      OBVIOUS
    <3> HIDE DEF x, i, m
    <3>2. x \in Loose /\ i \in 1 .. Len(x.ids)
      BY ONLY <1>1, <1>2, <3>1
    <3>3. Swapped(t, x, i)
      BY ONLY <3>1, <3>2, SwapRemoveIs
    <3> QED
      BY ONLY <3>1, <3>3 DEF Swapped
  <2>2. V!Look(at, gone) = [shard |-> t, i |-> i]
    BY <1>1, <1>4 DEF V!Look
  <2>3. t.ids \in Seq(EmbChunks)
    BY <2>1 DEF Loose
  <2> HIDE DEF m, i, x
  <2>4. ToSet(t.ids) \subseteq ToSet(x.ids)
    <3>1. \A j \in 1 .. m - 1 : \E l \in 1 .. m : t.ids[j] = x.ids[l]
      <4> TAKE j \in 1 .. m - 1
      <4>1. j \in 1 .. m /\ m \in 1 .. m
        BY <1>1
      <4> QED
        BY <2>1, <4>1
    <3>2. \A c : c \in ToSet(t.ids) <=> \E j \in 1 .. m - 1 : c = t.ids[j]
      BY <2>1, <2>3, InToSet
    <3>3. \A c : c \in ToSet(x.ids) <=> \E j \in 1 .. m : c = x.ids[j]
      BY <1>1, InToSet DEF m
    <3> QED
      BY ONLY <3>1, <3>2, <3>3
  <2>5. ToSet(x.ids) \ gone \subseteq ToSet(t.ids)
    <3> SUFFICES ASSUME NEW c \in ToSet(x.ids), c \notin gone
                 PROVE  \E j \in 1 .. m - 1 : c = t.ids[j]
      BY <2>1, <2>3, InToSet
    <3>1. PICK l \in 1 .. m : c = x.ids[l]
      BY <1>1, InToSet DEF m
    <3>2. l # i
      BY <1>4, <3>1
    <3>3. CASE l = m
      <4>1. i \in 1 .. m - 1
        BY <1>1, <1>2, <3>2, <3>3
      <4> QED
        BY <2>1, <3>1, <3>3, <4>1
    <3>4. CASE l # m
      <4>1. l \in 1 .. m - 1
        BY <1>1, <3>4
      <4> QED
        BY <2>1, <3>1, <3>2, <4>1
    <3> QED
      BY <3>3, <3>4
  <2>6. \A j \in 1 .. i - 1 : t.ids[j] \notin gone
    <3> TAKE j \in 1 .. i - 1
    <3>1. j \in 1 .. m - 1 /\ j # i
      BY <1>1, <1>2
    <3> QED
      BY <1>3, <2>1, <3>1
  <2>7. Distinct(x.ids) => Distinct(t.ids)
    <3> SUFFICES ASSUME \A k, l \in 1 .. m : x.ids[k] = x.ids[l] => k = l,
                        NEW k \in 1 .. m - 1, NEW l \in 1 .. m - 1, t.ids[k] = t.ids[l]
                 PROVE  k = l
      BY <2>1 DEF Distinct, m
    <3> DEFINE from(j) == IF j = i THEN m ELSE j
    <3>1. from(k) \in 1 .. m /\ from(l) \in 1 .. m /\ (from(k) = from(l) => k = l)
      BY <1>1
    <3>2. t.ids[k] = x.ids[from(k)] /\ t.ids[l] = x.ids[from(l)]
      BY <2>1
    <3> HIDE DEF from
    <3> QED
      BY <3>1, <3>2
  <2>8. i \in 1 .. n + 1 /\ (m - 1) + n = N + i - 1
    <3> HIDE DEF N
    <3> QED
      BY <1>1
  <2>9. [shard |-> t, i |-> i] \in Looking
    BY <1>1, <2>1 DEF Looking
  <2> DEFINE y == [shard |-> t, i |-> i]
  <2>10. y.shard = t /\ y.i = i /\ y = V!Look(at, gone) /\ y \in Looking
    BY <2>2, <2>9
  <2> HIDE DEF y
  <2> QED
    BY <1>3, <2>1, <2>4, <2>5, <2>6, <2>7, <2>8, <2>10 DEF Pass
<1>5. CASE x.ids[i] \notin gone
  <2>1. V!Look(at, gone) = [shard |-> x, i |-> i + 1]
    BY <1>1, <1>5 DEF V!Look
  <2> HIDE DEF m, i, x
  <2>2. \A j \in 1 .. (i + 1) - 1 : x.ids[j] \notin gone
    <3> TAKE j \in 1 .. (i + 1) - 1
    <3>1. j = i \/ j \in 1 .. i - 1
      BY <1>1
    <3> QED
      BY <1>3, <1>5, <3>1
  <2>3. i + 1 \in 1 .. n + 1 /\ m + n = N + (i + 1) - 1
    <3> HIDE DEF N
    <3> QED
      BY <1>1
  <2>4. [shard |-> x, i |-> i + 1] \in Looking
    BY <1>1 DEF Looking
  <2>5. m = Len(x.ids)
    BY DEF m
  <2> DEFINE y == [shard |-> x, i |-> i + 1]
  <2>6. y.shard = x /\ y.i = i + 1 /\ y = V!Look(at, gone) /\ y \in Looking
    BY <2>1, <2>4
  <2> HIDE DEF y
  <2> QED
    BY <1>3, <2>2, <2>3, <2>5, <2>6 DEF Pass
<1> QED
  BY <1>4, <1>5

(* Nothing has been looked at.                                             *)
LEMMA PassFirst ==
  ASSUME NEW s \in Loose, NEW gone
  PROVE  Pass(s, gone, [shard |-> s, i |-> 1], 0)
<1>1. Len(s.ids) \in Nat
  BY DEF Loose
<1> DEFINE y == [shard |-> s, i |-> 1]
<1>2. y.shard = s /\ y.i = 1 /\ y \in Looking
  BY DEF Looking
<1> HIDE DEF y
<1>3. Pass(s, gone, y, 0)
  BY <1>1, <1>2 DEF Pass
<1> QED
  BY <1>3 DEF y

(* The values that the loop of a removal goes through.                     *)
LEMMA RemoveLoop ==
  ASSUME NEW s \in Loose, NEW gone
  PROVE  \E at : /\ V!RemoveMatching(s, gone) =
                      IF at.shard.ids = <<>> THEN [at.shard EXCEPT !.dim = 0] ELSE at.shard
                 /\ Pass(s, gone, at, Len(s.ids))
<1> DEFINE N == Len(s.ids)
           first == [shard |-> s, i |-> 1]
           looked[n \in 0 .. N] ==
             IF n = 0 THEN [shard |-> s, i |-> 1] ELSE V!Look(looked[n - 1], gone)
           step == [p \in Looking \X (1 .. N) |-> V!Look(p[1], gone)]
           R == {p \in Looking \X (0 .. N) : Pass(s, gone, p[1], p[2])}
<1>1. V!RemoveMatching(s, gone) =
        IF looked[N].shard.ids = <<>> THEN [looked[N].shard EXCEPT !.dim = 0]
                                      ELSE looked[N].shard
  BY DEF V!RemoveMatching
<1>2. N \in Nat /\ first \in Looking
  BY DEF Loose, Looking
<1>3. <<first, 0>> \in R
  BY <1>2, PassFirst
<1>4. ASSUME NEW n \in 1 .. N, NEW x \in Looking, <<x, n - 1>> \in R
      PROVE  /\ step[<<x, n>>] = V!Look(x, gone)
             /\ V!Look(x, gone) \in Looking /\ <<V!Look(x, gone), n>> \in R
  <2>1. Pass(s, gone, x, n - 1)
    BY <1>4
  <2>2. Pass(s, gone, V!Look(x, gone), n)
    BY ONLY <2>1, PassStep, s \in Loose, n \in 1 .. N
  <2>3. V!Look(x, gone) \in Looking
    BY <2>2 DEF Pass
  <2>4. n \in 0 .. N
    OBVIOUS
  <2> QED
    BY <2>2, <2>3, <2>4
<1> HIDE DEF step, R, N, first
<1>5. PICK f \in [0 .. N -> Looking] :
             Runs(f, N, first, step) /\ \A n \in 0 .. N : <<f[n], n>> \in R
  <2>1. \A n \in 1 .. N : \A x \in Looking :
          <<x, n - 1>> \in R => step[<<x, n>>] \in Looking /\ <<step[<<x, n>>], n>> \in R
    BY <1>4
  <2> QED
    BY ONLY <1>2, <1>3, <2>1, LoopIn
<1>6. f = [n \in 0 .. N |-> IF n = 0 THEN first ELSE V!Look(f[n - 1], gone)]
  <2>1. f = [n \in 0 .. N |-> f[n]]
    OBVIOUS
  <2>2. ASSUME NEW n \in 1 .. N PROVE f[n] = V!Look(f[n - 1], gone)
    <3>1. n - 1 \in 0 .. N
      BY <1>2
    <3>2. f[n - 1] \in Looking /\ f[n] = step[<<f[n - 1], n>>] /\ <<f[n - 1], n - 1>> \in R
      BY <1>5, <3>1 DEF Runs
    <3> QED
      BY <1>4, <3>2
  <2>3. f[0] = first
    BY <1>5 DEF Runs
  <2>4. \A n \in 0 .. N : n # 0 => n \in 1 .. N
    BY <1>2
  <2> QED
    BY <2>1, <2>2, <2>3, <2>4
<1>7. looked = [n \in 0 .. N |-> IF n = 0 THEN first ELSE V!Look(looked[n - 1], gone)]
  BY <1>6 DEF first, N
<1> HIDE DEF looked
<1>8. looked[0] = first /\ \A n \in 1 .. N : looked[n] = V!Look(looked[n - 1], gone)
  BY <1>2, <1>7
<1> DEFINE S == {n \in 0 .. N : looked[n] \in Looking /\ <<looked[n], n>> \in R}
<1>9. 0 \in S
  BY <1>2, <1>3, <1>8
<1>10. ASSUME NEW n \in 1 .. N, n - 1 \in S PROVE n \in S
  <2>1. looked[n - 1] \in Looking /\ <<looked[n - 1], n - 1>> \in R
    BY <1>10
  <2>2. looked[n] = V!Look(looked[n - 1], gone)
    BY <1>8
  <2>3. n \in 0 .. N
    BY <1>2
  <2> QED
    BY <1>4, <2>1, <2>2, <2>3
<1>11. N \in S
  <2> HIDE DEF S
  <2>1. \A n \in 0 .. N : n \in S
    BY ONLY <1>2, <1>9, <1>10, UpTo
  <2> QED
    BY <1>2, <2>1
<1>12. Pass(s, gone, looked[N], N)
  BY <1>11 DEF R
<1> QED
  BY <1>1, <1>12 DEF N

(* A pass removes the ids in gone and no other, and their rows with them.  *)
LEMMA RemoveMatchingIs ==
  ASSUME NEW s \in Loose, NEW gone
  PROVE  /\ V!RemoveMatching(s, gone) \in Tight
         /\ ToSet(V!RemoveMatching(s, gone).ids) = ToSet(s.ids) \ gone
         /\ Distinct(s.ids) => Distinct(V!RemoveMatching(s, gone).ids)
<1>1. PICK at : /\ V!RemoveMatching(s, gone) =
                      IF at.shard.ids = <<>> THEN [at.shard EXCEPT !.dim = 0] ELSE at.shard
                /\ Pass(s, gone, at, Len(s.ids))
  BY RemoveLoop
<1> DEFINE x == at.shard
           t == V!RemoveMatching(s, gone)
<1>2. x \in Loose /\ x.ids \in Seq(EmbChunks) /\ Len(s.ids) \in Nat
  BY <1>1 DEF Pass, Looking, Loose
<1>3. /\ Len(x.ids) = at.i - 1
      /\ \A j \in 1 .. at.i - 1 : x.ids[j] \notin gone
      /\ ToSet(s.ids) \ gone \subseteq ToSet(x.ids)
      /\ ToSet(x.ids) \subseteq ToSet(s.ids)
  <2>1. Len(x.ids) \in Nat
    BY <1>2
  <2>2. Len(x.ids) = at.i - 1
    <3> DEFINE i == at.i
               m == Len(x.ids)
               n == Len(s.ids)
    <3>1. i \in Nat
      BY <1>1 DEF Pass, Looking
    <3>2. m + n = n + i - 1
      BY <1>1 DEF Pass
    <3>3. m \in Nat /\ n \in Nat
      BY <1>2, <2>1
    <3> HIDE DEF i, m, n
    <3>4. m = i - 1
      BY ONLY <3>1, <3>2, <3>3
    <3> QED
      BY <3>4 DEF i, m
  <2> QED
    BY <1>1, <2>2 DEF Pass
<1>4. ToSet(x.ids) = ToSet(s.ids) \ gone
  <2>1. \A c : c \in ToSet(x.ids) => \E j \in 1 .. Len(x.ids) : c = x.ids[j]
    BY <1>2, InToSet
  <2> QED
    BY ONLY <1>3, <2>1
<1>5. t \in Tight /\ t.ids = x.ids
  <2>1. CASE x.ids = <<>>
    <3>1. t = [ids |-> x.ids, emb |-> x.emb, dim |-> 0]
      BY <1>1, <1>2, <2>1 DEF Loose
    <3> QED
      BY <1>2, <2>1, <3>1 DEF Loose, Tight
  <2>2. CASE x.ids # <<>>
    BY <1>1, <1>2, <2>2 DEF Tight
  <2> QED
    BY <2>1, <2>2
<1>6. Distinct(s.ids) => Distinct(x.ids)
  BY <1>1 DEF Pass
<1> QED
  BY <1>4, <1>5, <1>6

-----------------------------------------------------------------------------
(* Orders: sets as sequences, and what is kept of a sequence.              *)

(* The size of an interval.                                                *)
LEMMA IntervalCount ==
  ASSUME NEW n \in Nat
  PROVE  IsFiniteSet(1 .. n) /\ Cardinality(1 .. n) = n
<1>1. 1 \in Int /\ n \in Int
  OBVIOUS
<1>2. /\ IsFiniteSet(1 .. n)
      /\ Cardinality(1 .. n) = IF 1 > n THEN 0 ELSE n - 1 + 1
  BY <1>1, FS_Interval
<1> QED
  BY <1>2

(* There are finitely many chunks.                                         *)
LEMMA ChunksFinite == IsFiniteSet(Chunks)
<1>1. IsFiniteSet(AllFiles)
  <2> DEFINE T == {FilesOf[r] : r \in Repos}
             f == [r \in Repos |-> FilesOf[r]]
  <2>1. f \in Surjection(Repos, T)
    BY DEF Surjection
  <2>2. IsFiniteSet(T)
    BY <2>1, FS_Surjection, ShardAssumption
  <2>3. \A S \in T : IsFiniteSet(S)
    BY ShardAssumption
  <2> HIDE DEF T
  <2>4. IsFiniteSet(UNION T)
    BY <2>2, <2>3, FS_UNION
  <2> QED
    BY <2>4 DEF T, AllFiles
<1>2. IsFiniteSet(1 .. 9) /\ IsFiniteSet(1 .. MaxRuns)
  BY IntervalCount, ShardAssumption
<1>3. IsFiniteSet(AllFiles \X (1 .. 9))
  BY <1>1, <1>2, FS_Product
<1>4. IsFiniteSet((AllFiles \X (1 .. 9)) \X (1 .. MaxRuns))
  BY <1>2, <1>3, FS_Product
<1> DEFINE S == (AllFiles \X (1 .. 9)) \X (1 .. MaxRuns)
           T == AllFiles \X (1 .. 9) \X (1 .. MaxRuns)
           f == [p \in S |-> <<p[1][1], p[1][2], p[2]>>]
<1>5. f \in Surjection(S, T)
  <2>1. f \in [S -> T]
    OBVIOUS
  <2>2. ASSUME NEW t \in T PROVE \E s \in S : f[s] = t
    <3>1. <<<<t[1], t[2]>>, t[3]>> \in S
      OBVIOUS
    <3>2. f[<<<<t[1], t[2]>>, t[3]>>] = t
      BY <3>1
    <3> QED
      BY <3>1, <3>2
  <2> QED
    BY <2>1, <2>2 DEF Surjection
<1> HIDE DEF S, T, f
<1>6. IsFiniteSet(T)
  BY <1>4, <1>5, FS_Surjection DEF S
<1> QED
  BY <1>6, FS_Subset DEF Chunks, T

(* A finite set as a sequence without repetition.                          *)
LEMMA SetToSeqIs ==
  ASSUME NEW S, IsFiniteSet(S)
  PROVE  /\ SetToSeq(S) \in Seq(S)
         /\ ToSet(SetToSeq(S)) = S
         /\ Distinct(SetToSeq(S))
<1> DEFINE n == Cardinality(S)
           f == SetToSeq(S)
<1>1. n \in Nat /\ ExistsBijection(1 .. n, S)
  BY FS_CardinalityType
<1>2. \E g \in [1 .. n -> S] : IsInjective(g)
  BY <1>1 DEF ExistsBijection, Bijection, Injection
<1>3. f \in [1 .. n -> S] /\ IsInjective(f)
  BY <1>2 DEF SetToSeq
<1>4. IsFiniteSet(1 .. n) /\ Cardinality(1 .. n) = n
  BY <1>1, IntervalCount
<1> HIDE DEF f
<1>5. f \in Injection(1 .. n, S)
  BY <1>3 DEF Injection
<1>6. f \in Surjection(1 .. n, S)
  BY <1>4, <1>5, FS_Injection
<1>7. f \in Seq(S) /\ Len(f) = n /\ DOMAIN f = 1 .. n
  BY <1>1, <1>3
<1>8. ToSet(f) = S
  BY <1>6, <1>7 DEF ToSet, Surjection
<1>9. Distinct(f)
  BY <1>3, <1>7 DEF Distinct, IsInjective
<1> QED
  BY <1>7, <1>8, <1>9 DEF f

(* A sequence without repetition is as long as it has elements.            *)
LEMMA DistinctCount ==
  ASSUME NEW A, NEW s \in Seq(A), Distinct(s)
  PROVE  IsFiniteSet(ToSet(s)) /\ Cardinality(ToSet(s)) = Len(s)
<1> DEFINE n == Len(s)
<1>1. n \in Nat /\ DOMAIN s = 1 .. n /\ s = [i \in 1 .. n |-> s[i]]
  OBVIOUS
<1>2. IsFiniteSet(1 .. n) /\ Cardinality(1 .. n) = n
  BY <1>1, IntervalCount
<1>3. s \in [1 .. n -> ToSet(s)]
  BY <1>1 DEF ToSet
<1>4. s \in Injection(1 .. n, ToSet(s))
  BY <1>1, <1>3 DEF Injection, IsInjective, Distinct
<1>5. s \in Surjection(1 .. n, ToSet(s))
  BY <1>1, <1>3 DEF Surjection, ToSet
<1>6. ExistsBijection(1 .. n, ToSet(s))
  BY <1>4, <1>5 DEF ExistsBijection, Bijection
<1> QED
  BY <1>2, <1>6, FS_Bijection

(* The first n of an order have been looked at, and those in S kept.       *)
KeptIs(k, order, S, A, n) ==
  /\ k \in Seq(A)
  /\ \A i \in 1 .. n : order[i] \in S => \E b \in 1 .. Len(k) : k[b] = order[i]
  /\ \A b \in 1 .. Len(k) :
       \E j \in 1 .. n : /\ k[b] = order[j] /\ order[j] \in S
                         /\ \A a \in 1 .. b - 1 : \E i \in 1 .. j - 1 : k[a] = order[i]

KeptOne(k, x, S) == IF x \in S THEN Append(k, x) ELSE k

(* An element is kept or left out.                                         *)
LEMMA KeptStep ==
  ASSUME NEW A, NEW order \in Seq(A), NEW S, NEW n \in 1 .. Len(order), NEW k,
         KeptIs(k, order, S, A, n - 1)
  PROVE  KeptIs(KeptOne(k, order[n], S), order, S, A, n)
<1>1. k \in Seq(A) /\ order[n] \in A /\ n \in Nat /\ Len(k) \in Nat
  BY DEF KeptIs
<1>2. CASE order[n] \notin S
  <2>1. \A i \in 1 .. n : i \in 1 .. n - 1 \/ i = n
    OBVIOUS
  <2>2. \A i \in 1 .. n - 1 : i \in 1 .. n
    OBVIOUS
  <2> QED
    BY ONLY <1>2, <2>1, <2>2, KeptIs(k, order, S, A, n - 1) DEF KeptIs, KeptOne
<1>3. CASE order[n] \in S
  <2> DEFINE t == Append(k, order[n])
             m == Len(k)
  <2>1. /\ t \in Seq(A) /\ Len(t) = m + 1 /\ t[m + 1] = order[n]
        /\ \A b \in 1 .. m : t[b] = k[b]
    BY <1>1, AppendAt
  <2> HIDE DEF t
  <2>2. \A i \in 1 .. n : order[i] \in S => \E b \in 1 .. m + 1 : t[b] = order[i]
    <3> TAKE i \in 1 .. n
    <3> HAVE order[i] \in S
    <3>1. CASE i = n
      BY <1>1, <2>1, <3>1
    <3>2. CASE i # n
      <4>1. i \in 1 .. n - 1
        BY <3>2
      <4>2. PICK b \in 1 .. m : k[b] = order[i]
        BY <4>1 DEF KeptIs
      <4>3. b \in 1 .. m + 1
        BY <1>1
      <4> QED
        BY <2>1, <4>2, <4>3
    <3> QED
      BY <3>1, <3>2
  <2>3. ASSUME NEW b \in 1 .. m + 1
        PROVE  \E j \in 1 .. n : /\ t[b] = order[j] /\ order[j] \in S
                                 /\ \A a \in 1 .. b - 1 : \E i \in 1 .. j - 1 : t[a] = order[i]
    <3>1. CASE b = m + 1
      <4>1. \A a \in 1 .. m : \E i \in 1 .. n - 1 : t[a] = order[i]
        <5> TAKE a \in 1 .. m
        <5>1. PICK i \in 1 .. n - 1 : k[a] = order[i]
          BY DEF KeptIs
        <5> QED
          BY <2>1, <5>1
      <4>2. n \in 1 .. n /\ b - 1 = m
        BY <1>1, <3>1
      <4> QED
        BY ONLY <1>3, <2>1, <3>1, <4>1, <4>2
    <3>2. CASE b # m + 1
      <4>1. b \in 1 .. m
        BY <1>1, <3>2
      <4>2. PICK j \in 1 .. n - 1 :
              /\ k[b] = order[j] /\ order[j] \in S
              /\ \A a \in 1 .. b - 1 : \E i \in 1 .. j - 1 : k[a] = order[i]
        BY <4>1 DEF KeptIs
      <4>3. j \in 1 .. n /\ \A a \in 1 .. b - 1 : a \in 1 .. m
        BY <1>1, <4>1
      <4> QED
        BY ONLY <2>1, <4>1, <4>2, <4>3
    <3> QED
      BY <3>1, <3>2
  <2>4. KeptOne(k, order[n], S) = t
    BY <1>3 DEF KeptOne, t
  <2>5. Len(t) = m + 1
    BY <2>1
  <2> HIDE DEF m
  <2>6. KeptIs(t, order, S, A, n)
    BY ONLY <2>1, <2>2, <2>3, <2>5 DEF KeptIs
  <2> QED
    BY ONLY <2>4, <2>6
<1> QED
  BY <1>2, <1>3

(* What is kept in the end.                                                *)
LEMMA KeptLoop ==
  ASSUME NEW A, NEW order \in Seq(A), NEW S
  PROVE  KeptIs(Kept(order, S), order, S, A, Len(order))
<1> DEFINE N == Len(order)
           kept[n \in 0 .. N] ==
             IF n = 0 THEN <<>>
             ELSE IF order[n] \in S THEN Append(kept[n - 1], order[n]) ELSE kept[n - 1]
           step == [p \in Seq(A) \X (1 .. N) |-> KeptOne(p[1], order[p[2]], S)]
<1>1. Kept(order, S) = kept[N]
  BY DEF Kept
<1>2. N \in Nat /\ <<>> \in Seq(A)
  OBVIOUS
<1>3. step \in [Seq(A) \X (1 .. N) -> Seq(A)]
  <2>1. ASSUME NEW x \in Seq(A), NEW n \in 1 .. N
        PROVE  KeptOne(x, order[n], S) \in Seq(A)
    BY DEF KeptOne
  <2> QED
    BY <2>1
<1> HIDE DEF step
<1>4. PICK f \in [0 .. N -> Seq(A)] : Runs(f, N, <<>>, step)
  <2> HIDE DEF N
  <2> QED
    BY ONLY <1>2, <1>3, Loop
<1>5. f = [n \in 0 .. N |-> IF n = 0 THEN <<>>
                           ELSE IF order[n] \in S THEN Append(f[n - 1], order[n])
                                                  ELSE f[n - 1]]
  <2>1. f = [n \in 0 .. N |-> f[n]]
    OBVIOUS
  <2>2. ASSUME NEW n \in 1 .. N PROVE f[n] = KeptOne(f[n - 1], order[n], S)
    <3>1. f[n - 1] \in Seq(A) /\ f[n] = step[<<f[n - 1], n>>]
      BY <1>4 DEF Runs
    <3> QED
      BY <3>1 DEF step
  <2>3. f[0] = <<>>
    BY <1>4 DEF Runs
  <2>4. \A n \in 0 .. N : n # 0 => n \in 1 .. N
    OBVIOUS
  <2> QED
    BY <2>1, <2>2, <2>3, <2>4 DEF KeptOne
<1>6. kept = [n \in 0 .. N |-> IF n = 0 THEN <<>>
                              ELSE IF order[n] \in S THEN Append(kept[n - 1], order[n])
                                                     ELSE kept[n - 1]]
  <2> HIDE DEF N
  <2> QED
    BY ONLY <1>5, Zenon
<1> HIDE DEF kept
<1>7. kept[0] = <<>> /\ \A n \in 1 .. N : kept[n] = KeptOne(kept[n - 1], order[n], S)
  <2>1. 0 \in 0 .. N /\ \A n \in 1 .. N : n \in 0 .. N /\ n # 0
    BY <1>2
  <2> HIDE DEF N
  <2> QED
    BY ONLY <1>6, <2>1 DEF KeptOne
<1> DEFINE T == {n \in 0 .. N : KeptIs(kept[n], order, S, A, n)}
<1>8. 0 \in T
  <2>1. KeptIs(<<>>, order, S, A, 0)
    BY <1>2 DEF KeptIs
  <2>2. 0 \in 0 .. N
    BY <1>2
  <2> QED
    BY <1>7, <2>1, <2>2
<1>9. ASSUME NEW n \in 1 .. N, n - 1 \in T PROVE n \in T
  <2>1. KeptIs(kept[n - 1], order, S, A, n - 1) /\ n \in 0 .. N
    BY <1>9
  <2>2. KeptIs(KeptOne(kept[n - 1], order[n], S), order, S, A, n)
    BY <2>1, KeptStep
  <2> QED
    BY <1>7, <2>1, <2>2
<1>10. N \in T
  <2> HIDE DEF T, N
  <2>1. \A n \in 0 .. N : n \in T
    BY ONLY <1>2, <1>8, <1>9, UpTo
  <2> QED
    BY <1>2, <2>1
<1> QED
  BY <1>1, <1>10

(* What is kept, each once, in the order it had.                           *)
LEMMA KeptOrder ==
  ASSUME NEW A, NEW order \in Seq(A), Distinct(order), NEW S
  PROVE  /\ Kept(order, S) \in Seq(A)
         /\ Distinct(Kept(order, S))
         /\ ToSet(Kept(order, S)) = ToSet(order) \cap S
         /\ \A a, b \in 1 .. Len(Kept(order, S)) : \A i, j \in 1 .. Len(order) :
              (Kept(order, S)[a] = order[i] /\ Kept(order, S)[b] = order[j] /\ i < j) => a < b
<1> DEFINE N == Len(order)
<1> PICK k : k = Kept(order, S)
  OBVIOUS
<1>1. /\ k \in Seq(A) /\ Len(k) \in Nat /\ N \in Nat
      /\ \A i \in 1 .. N : order[i] \in S => \E b \in 1 .. Len(k) : k[b] = order[i]
      /\ \A b \in 1 .. Len(k) :
           \E j \in 1 .. N : /\ k[b] = order[j] /\ order[j] \in S
                             /\ \A a \in 1 .. b - 1 : \E i \in 1 .. j - 1 : k[a] = order[i]
  <2>1. KeptIs(k, order, S, A, N)
    BY KeptLoop
  <2>2. k \in Seq(A)
    BY <2>1 DEF KeptIs
  <2>3. N \in Nat /\ Len(k) \in Nat
    BY <2>2
  <2> HIDE DEF N
  <2> QED
    BY ONLY <2>1, <2>3 DEF KeptIs
<1>2. ASSUME NEW a \in 1 .. Len(k), NEW b \in 1 .. Len(k), b < a,
             NEW i \in 1 .. N, NEW j \in 1 .. N, k[a] = order[i], k[b] = order[j]
      PROVE  j < i
  <2>1. PICK l \in 1 .. N : /\ k[a] = order[l]
                            /\ \A c \in 1 .. a - 1 : \E x \in 1 .. l - 1 : k[c] = order[x]
    BY <1>1
  <2>2. b \in 1 .. a - 1
    BY <1>2
  <2>3. PICK x \in 1 .. l - 1 : k[b] = order[x]
    BY <2>1, <2>2
  <2>4. x \in 1 .. N
    OBVIOUS
  <2>5. x = j /\ l = i
    BY <1>2, <2>1, <2>3, <2>4 DEF Distinct
  <2> QED
    BY <2>5
<1>3. Distinct(k)
  <2> SUFFICES ASSUME NEW a \in 1 .. Len(k), NEW b \in 1 .. Len(k), k[a] = k[b], b < a
               PROVE  FALSE
    BY <1>1 DEF Distinct
  <2>1. PICK i \in 1 .. N : k[a] = order[i]
    BY <1>1
  <2>2. i < i
    BY <1>2, <2>1
  <2> QED
    BY <2>2
<1>4. ToSet(k) = ToSet(order) \cap S
  <2>1. \A x : x \in ToSet(k) <=> \E b \in 1 .. Len(k) : x = k[b]
    <3>1. k \in Seq(A)
      BY <1>1
    <3> QED
      BY ONLY <3>1, InToSet
  <2>2. \A x : x \in ToSet(order) <=> \E i \in 1 .. N : x = order[i]
    BY InToSet
  <2> HIDE DEF N
  <2>3. ASSUME NEW x, x \in ToSet(k) PROVE x \in ToSet(order) \cap S
    <3>1. PICK b \in 1 .. Len(k) : x = k[b]
      BY ONLY <2>1, <2>3
    <3>2. PICK j \in 1 .. N : k[b] = order[j] /\ order[j] \in S
      BY ONLY <1>1, b \in 1 .. Len(k)
    <3> QED
      BY ONLY <2>2, <3>1, <3>2, j \in 1 .. N
  <2>4. ASSUME NEW x, x \in ToSet(order) \cap S PROVE x \in ToSet(k)
    <3>1. PICK j \in 1 .. N : x = order[j]
      BY ONLY <2>2, <2>4
    <3>2. PICK b \in 1 .. Len(k) : k[b] = order[j]
      BY ONLY <1>1, <2>4, <3>1, j \in 1 .. N
    <3> QED
      BY ONLY <2>1, <3>1, <3>2, b \in 1 .. Len(k)
  <2> QED
    BY ONLY <2>3, <2>4
<1>5. ASSUME NEW a \in 1 .. Len(k), NEW b \in 1 .. Len(k), NEW i \in 1 .. N, NEW j \in 1 .. N,
             k[a] = order[i], k[b] = order[j], i < j
      PROVE  a < b
  <2>1. CASE b < a
    BY <1>2, <1>5, <2>1
  <2>2. CASE a = b
    BY <1>5, <2>2 DEF Distinct
  <2> QED
    BY <1>1, <2>1, <2>2
<1> QED
  BY <1>1, <1>3, <1>4, <1>5

-----------------------------------------------------------------------------
(* Eviction.                                                               *)

(* An order without its first d.                                           *)
Drop(order, d) == SubSeq(order, d + 1, Len(order))

(* A sequence without its first d elements.                                *)
LEMMA DropIs ==
  ASSUME NEW A, NEW s \in Seq(A), NEW d \in 0 .. Len(s)
  PROVE  /\ Drop(s, d) \in Seq(A) /\ Len(Drop(s, d)) = Len(s) - d
         /\ \A i \in 1 .. Len(s) - d : Drop(s, d)[i] = s[d + i]
<1> DEFINE n == Len(s)
<1>1. n \in Nat /\ d \in 0 .. n /\ s \in Seq(A)
  OBVIOUS
<1> HIDE DEF n
<1>2. Drop(s, d) = SubSeq(s, d + 1, n)
  BY DEF Drop, n
<1>3. n = Len(s)
  BY DEF n
<1> QED
  BY ONLY <1>1, <1>2, <1>3

LEMMA DropAll ==
  ASSUME NEW A, NEW s \in Seq(A)
  PROVE  Drop(s, 0) = s
BY DEF Drop

(* Without the first of them.                                              *)
LEMMA FirstGoes ==
  ASSUME NEW A, NEW s \in Seq(A), NEW d \in 0 .. Len(s) - 1
  PROVE  RemoveAt(Drop(s, d), 1) = Drop(s, d + 1)
<1> DEFINE n == Len(s)
           x == Drop(s, d)
           y == Drop(s, d + 1)
           z == RemoveAt(x, 1)
<1>1. n \in Nat /\ d \in 0 .. n /\ d + 1 \in 0 .. n
  OBVIOUS
<1>2. /\ x \in Seq(A) /\ Len(x) = n - d
      /\ \A i \in 1 .. n - d : x[i] = s[d + i]
  BY <1>1, DropIs
<1>3. /\ y \in Seq(A) /\ Len(y) = n - (d + 1)
      /\ \A i \in 1 .. n - (d + 1) : y[i] = s[(d + 1) + i]
  BY <1>1, DropIs
<1> HIDE DEF x, y, n
<1>4. z = SubSeq(x, 1, 0) \o SubSeq(x, 2, n - d)
  BY <1>2 DEF RemoveAt
<1>5. SubSeq(x, 1, 0) = <<>>
  BY <1>2
<1>6. /\ SubSeq(x, 2, n - d) \in Seq(A) /\ Len(SubSeq(x, 2, n - d)) = n - d - 1
      /\ \A i \in 1 .. n - d - 1 : SubSeq(x, 2, n - d)[i] = x[i + 1]
  BY <1>1, <1>2
<1>7. z = SubSeq(x, 2, n - d)
  BY <1>4, <1>5, <1>6, ConcatEmptySeq
<1> HIDE DEF z
<1>8. /\ z \in Seq(A) /\ Len(z) = n - d - 1
      /\ \A i \in 1 .. n - d - 1 : z[i] = x[i + 1]
  BY ONLY <1>6, <1>7
<1>9. \A i \in 1 .. n - d - 1 : z[i] = y[i]
  <2> TAKE i \in 1 .. n - d - 1
  <2>1. i + 1 \in 1 .. n - d /\ i \in 1 .. n - (d + 1) /\ d + (i + 1) = (d + 1) + i
    BY <1>1
  <2> QED
    BY ONLY <1>2, <1>3, <1>8, <2>1, i \in 1 .. n - d - 1
<1>10. Len(z) = Len(y)
  BY <1>1, <1>3, <1>8
<1>11. z = y
  BY ONLY <1>3, <1>8, <1>9, <1>10, SeqEqual
<1> QED
  BY <1>11 DEF x, y, z

(* With the most recent repository protected, the least recent one goes.   *)
LEMMA EvictOneIs ==
  ASSUME NEW A, NEW order \in Seq(A), Distinct(order), NEW size,
         NEW d \in 0 .. Len(order) - 1
  PROVE  LET x == Drop(order, d) IN
         EvictOne(x, size, order[Len(order)]) =
           IF Bytes(x, size) <= Cap \/ d = Len(order) - 1 THEN x ELSE Drop(order, d + 1)
<1> DEFINE n == Len(order)
           p == order[n]
           x == Drop(order, d)
           victims == {i \in DOMAIN x : x[i] # p}
<1>1. n \in Nat /\ n - d \in Nat /\ d \in 0 .. n /\ d \in 0 .. n - 1
  OBVIOUS
<1>2. /\ x \in Seq(A) /\ Len(x) = n - d
      /\ \A i \in 1 .. n - d : x[i] = order[d + i]
  BY <1>1, DropIs
<1>3. RemoveAt(x, 1) = Drop(order, d + 1)
  BY FirstGoes
<1>4. victims = {i \in 1 .. n - d : x[i] # p}
  BY <1>2
<1>5. \A i \in 1 .. n : order[i] = p <=> i = n
  <2>1. \A i \in 1 .. n : order[i] = order[n] => i = n
    <3>1. \A i \in 1 .. n : n \in 1 .. n
      BY <1>1
    <3> QED
      BY <3>1 DEF Distinct
  <2> QED
    BY <2>1
<1> HIDE DEF n, p, x
<1>6. victims = 1 .. n - d - 1
  <2>1. ASSUME NEW i \in 1 .. n - d PROVE x[i] = p <=> i = n - d
    <3>1. d + i \in 1 .. n /\ (d + i = n <=> i = n - d)
      BY <1>1
    <3> QED
      BY ONLY <1>2, <1>5, <3>1, i \in 1 .. n - d
  <2>2. \A i : i \in 1 .. n - d - 1 <=> i \in 1 .. n - d /\ i # n - d
    BY <1>1
  <2> HIDE DEF victims
  <2> QED
    BY ONLY <1>4, <2>1, <2>2
<1>7. EvictOne(x, size, p) = IF Bytes(x, size) <= Cap \/ victims = {} THEN x
                             ELSE RemoveAt(x, Min(victims))
  BY DEF EvictOne
<1> HIDE DEF victims
<1>8. CASE d = n - 1
  <2>1. victims = {}
    BY <1>1, <1>6, <1>8
  <2> QED
    BY <1>7, <1>8, <2>1 DEF n, p, x
<1>9. CASE d # n - 1
  <2>1. 1 \in victims /\ \A i \in victims : 1 <= i /\ i \in Nat
    BY <1>1, <1>6, <1>9
  <2>2. Min(victims) = 1
    <3>1. \E i \in victims : \A j \in victims : i <= j
      BY <2>1
    <3>2. Min(victims) \in victims /\ \A j \in victims : Min(victims) <= j
      BY <3>1 DEF Min
    <3>3. Min(victims) \in Nat /\ 1 <= Min(victims) /\ Min(victims) <= 1
      BY <2>1, <3>2
    <3> QED
      BY <3>3
  <2> QED
    BY <1>3, <1>7, <1>9, <2>1, <2>2 DEF n, p, x
<1> QED
  BY <1>8, <1>9

(* n evictions have been tried; x is what is left.                         *)
Evicting(x, order, size, n) ==
  \E d \in 0 .. Len(order) - 1 :
    /\ x = Drop(order, d)
    /\ Bytes(x, size) <= Cap \/ d = Len(order) - 1 \/ d >= n

(* An eviction, if one is due, drops one more.                             *)
LEMMA EvictStep ==
  ASSUME NEW A, NEW order \in Seq(A), Distinct(order), NEW size,
         NEW n \in 1 .. Len(order), NEW x, Evicting(x, order, size, n - 1)
  PROVE  Evicting(EvictOne(x, size, order[Len(order)]), order, size, n)
<1> DEFINE N == Len(order)
           y == EvictOne(x, size, order[Len(order)])
<1>1. PICK d \in 0 .. N - 1 :
        /\ x = Drop(order, d)
        /\ Bytes(x, size) <= Cap \/ d = N - 1 \/ d >= n - 1
  BY DEF Evicting
<1>2. y = IF Bytes(x, size) <= Cap \/ d = N - 1 THEN x ELSE Drop(order, d + 1)
  BY <1>1, EvictOneIs
<1>3. N \in Nat
  OBVIOUS
<1>4. CASE Bytes(x, size) <= Cap \/ d = N - 1
  BY ONLY <1>1, <1>2, <1>4, d \in 0 .. N - 1 DEF Evicting
<1>5. CASE ~(Bytes(x, size) <= Cap \/ d = N - 1)
  <2>1. y = Drop(order, d + 1) /\ d >= n - 1
    BY <1>1, <1>2, <1>5
  <2> HIDE DEF y
  <2>2. d + 1 \in 0 .. N - 1 /\ d + 1 >= n
    <3>1. n \in Nat
      OBVIOUS
    <3>2. d \in 0 .. N - 1 /\ d # N - 1
      BY <1>5
    <3> HIDE DEF N
    <3> QED
      BY ONLY <1>3, <2>1, <3>1, <3>2
  <2> QED
    BY ONLY <2>1, <2>2 DEF Evicting, y
<1> QED
  BY <1>4, <1>5

(* Evictions drop the least recent ones until the rest is within the cap,  *)
(* or one is left.                                                         *)
LEMMA EvictLoop ==
  ASSUME NEW A, NEW order \in Seq(A), Distinct(order), order # <<>>, NEW size
  PROVE  \E d \in 0 .. Len(order) - 1 :
           /\ EvictToCap(order, size, order[Len(order)]) = Drop(order, d)
           /\ \/ Cap = 0 \/ Bytes(Drop(order, d), size) <= Cap
              \/ d = Len(order) - 1
<1> DEFINE N == Len(order)
           p == order[N]
           left[n \in 0 .. N] ==
             IF n = 0 THEN order ELSE EvictOne(left[n - 1], size, p)
           All == {Drop(order, d) : d \in 0 .. N - 1}
           step == [x \in All \X (1 .. N) |-> EvictOne(x[1], size, p)]
           R == {x \in All \X (0 .. N) : Evicting(x[1], order, size, x[2])}
<1>1. EvictToCap(order, size, p) = IF Cap = 0 THEN order ELSE left[N]
  BY DEF EvictToCap
<1>2. N \in Nat /\ N # 0 /\ 0 \in 0 .. N - 1
  OBVIOUS
<1>3. order \in All /\ order = Drop(order, 0)
  BY <1>2, DropAll
<1>4. <<order, 0>> \in R
  <2>1. Evicting(order, order, size, 0)
    BY <1>2, <1>3 DEF Evicting
  <2> QED
    BY <1>2, <1>3, <2>1
<1>5. ASSUME NEW n \in 1 .. N, NEW x \in All, <<x, n - 1>> \in R
      PROVE  /\ step[<<x, n>>] = EvictOne(x, size, p)
             /\ EvictOne(x, size, p) \in All /\ <<EvictOne(x, size, p), n>> \in R
  <2>1. Evicting(x, order, size, n - 1)
    BY <1>5
  <2>2. Evicting(EvictOne(x, size, p), order, size, n)
    BY <2>1, EvictStep
  <2>3. EvictOne(x, size, p) \in All
    BY <2>2 DEF Evicting
  <2>4. n \in 0 .. N
    BY <1>2
  <2> QED
    BY <2>2, <2>3, <2>4
<1> HIDE DEF step, R, All, N, p
<1>6. PICK f \in [0 .. N -> All] :
             Runs(f, N, order, step) /\ \A n \in 0 .. N : <<f[n], n>> \in R
  <2>1. \A n \in 1 .. N : \A x \in All :
          <<x, n - 1>> \in R => step[<<x, n>>] \in All /\ <<step[<<x, n>>], n>> \in R
    BY <1>5
  <2> QED
    BY ONLY <1>2, <1>3, <1>4, <2>1, LoopIn
<1>7. f = [n \in 0 .. N |-> IF n = 0 THEN order ELSE EvictOne(f[n - 1], size, p)]
  <2>1. f = [n \in 0 .. N |-> f[n]]
    OBVIOUS
  <2>2. ASSUME NEW n \in 1 .. N PROVE f[n] = EvictOne(f[n - 1], size, p)
    <3>1. n - 1 \in 0 .. N
      BY <1>2
    <3>2. f[n - 1] \in All /\ f[n] = step[<<f[n - 1], n>>] /\ <<f[n - 1], n - 1>> \in R
      BY <1>6, <3>1 DEF Runs
    <3> QED
      BY <1>5, <3>2
  <2>3. f[0] = order
    BY <1>6 DEF Runs
  <2>4. \A n \in 0 .. N : n # 0 => n \in 1 .. N
    BY <1>2
  <2> QED
    BY <2>1, <2>2, <2>3, <2>4
<1>8. left = [n \in 0 .. N |-> IF n = 0 THEN order ELSE EvictOne(left[n - 1], size, p)]
  BY ONLY <1>7, Zenon
<1> HIDE DEF left
<1>9. left[0] = order /\ \A n \in 1 .. N : left[n] = EvictOne(left[n - 1], size, p)
  <2>1. 0 \in 0 .. N /\ \A n \in 1 .. N : n \in 0 .. N /\ n # 0
    BY <1>2
  <2> QED
    BY ONLY <1>8, <2>1
<1> DEFINE S == {n \in 0 .. N : left[n] \in All /\ <<left[n], n>> \in R}
<1>10. 0 \in S
  BY <1>2, <1>3, <1>4, <1>9
<1>11. ASSUME NEW n \in 1 .. N, n - 1 \in S PROVE n \in S
  <2>1. left[n - 1] \in All /\ <<left[n - 1], n - 1>> \in R
    BY <1>11
  <2>2. left[n] = EvictOne(left[n - 1], size, p)
    BY <1>9
  <2>3. n \in 0 .. N
    BY <1>2
  <2> QED
    BY <1>5, <2>1, <2>2, <2>3
<1>12. N \in S
  <2> HIDE DEF S
  <2>1. \A n \in 0 .. N : n \in S
    BY ONLY <1>2, <1>10, <1>11, UpTo
  <2> QED
    BY <1>2, <2>1
<1>13. Evicting(left[N], order, size, N)
  BY <1>12 DEF R
<1>14. CASE Cap = 0
  BY <1>1, <1>2, <1>3, <1>14 DEF N, p
<1>15. CASE Cap # 0
  <2>1. PICK d \in 0 .. N - 1 :
          /\ left[N] = Drop(order, d)
          /\ Bytes(left[N], size) <= Cap \/ d = N - 1 \/ d >= N
    BY <1>13 DEF Evicting, N
  <2>2. ~(d >= N)
    BY <1>2
  <2> QED
    BY <1>1, <1>15, <2>1, <2>2 DEF N, p
<1> QED
  BY <1>14, <1>15

-----------------------------------------------------------------------------
(* The contents of a shard.                                                *)

(* A row is the vector of its chunk.                                       *)
LEMMA RowIs ==
  ASSUME NEW s \in Loose, NEW i \in 1 .. Len(s.ids)
  PROVE  V!RowAt(s, i) = VecOf(s.ids[i])
<1> DEFINE c == s.ids[i]
           m == (i - 1) * Dim
           e == s.emb
           row == SubSeq(e, m + 1, i * Dim)
<1>1. /\ s.dim = Dim /\ Rows(s.ids, e) /\ e \in Seq(Cells)
      /\ s.ids \in Seq(EmbChunks) /\ Len(s.ids) \in Nat
  BY DEF Loose
<1>2. V!RowAt(s, i) = row
  BY <1>1 DEF V!RowAt
<1>3. c \in EmbChunks /\ c \in Chunks
  BY <1>1 DEF EmbChunks
<1>4. VecOf(c) = [k \in 1 .. Dim |-> <<c, k>>]
  BY <1>3, VecIs
<1>5. /\ i * Dim = m + Dim /\ m \in Nat
      /\ \A k \in 1 .. Dim : m + k \in 1 .. Dim * Len(s.ids)
  <2>1. i \in Nat \ {0} /\ i \in 1 .. Len(s.ids)
    BY <1>1
  <2>2. i * Dim = m + Dim /\ m \in Nat
    BY <2>1, DimIs
  <2>3. \A k \in 1 .. Dim : m + k \in 1 .. Dim * Len(s.ids)
    BY <1>1, <2>1, DimIs, PlaceIn
  <2> QED
    BY <2>2, <2>3
<1>6. /\ Len(e) = Dim * Len(s.ids)
      /\ \A k \in 1 .. Dim : e[m + k] = <<c, k>>
  BY <1>1 DEF Rows
<1>7. \A k \in 1 .. Dim : m + k \in 1 .. Len(e)
  BY <1>5, <1>6
<1> HIDE DEF m, c, e
<1>8. row = SubSeq(e, m + 1, m + Dim) /\ m + Dim <= Len(e)
  BY <1>5, <1>7, DimIs
<1> HIDE DEF row
<1>9. row \in Seq(Cells) /\ Len(row) = Dim /\ \A k \in 1 .. Dim : row[k] = e[m + k]
  <2>1. Dim \in Nat /\ m \in Nat /\ e \in Seq(Cells)
    BY <1>1, <1>5, DimIs
  <2>2. Len(e) \in Nat
    BY <2>1
  <2> DEFINE n == m + Dim
             a == m + 1
  <2>3. a \in 1 .. Len(e) + 1 /\ n \in a - 1 .. Len(e) /\ n - a + 1 = Dim
    BY <1>8, <2>1, <2>2
  <2>4. \A k \in 1 .. Dim : a + k - 1 = m + k
    BY <2>1
  <2> HIDE DEF n, a
  <2>5. row = SubSeq(e, a, n)
    BY <1>8 DEF a, n
  <2>6. /\ row \in Seq(Cells) /\ Len(row) = n - a + 1
        /\ \A k \in 1 .. n - a + 1 : row[k] = e[a + k - 1]
    BY <2>1, <2>3, <2>5, SubSeqProperties
  <2> QED
    BY ONLY <2>3, <2>4, <2>6
<1> DEFINE v == [k \in 1 .. Dim |-> <<c, k>>]
<1>10. v \in Seq(Cells) /\ Len(v) = Dim /\ \A k \in 1 .. Dim : v[k] = <<c, k>>
  BY <1>3, DimIs DEF Cells
<1> HIDE DEF v
<1>11. row = v
  <2>1. \A k \in 1 .. Len(row) : row[k] = v[k]
    BY <1>6, <1>9, <1>10
  <2> QED
    BY <1>9, <1>10, <2>1, SeqEqual
<1> QED
  BY <1>2, <1>4, <1>11 DEF v, c

(* What a shard says of its chunks.                                        *)
LEMMA ContentsIs ==
  ASSUME NEW s \in Loose
  PROVE  V!Contents(s) = {<<c, VecOf(c)>> : c \in ToSet(s.ids)}
<1>1. DOMAIN s.ids = 1 .. Len(s.ids)
  BY DEF Loose
<1>2. V!Contents(s) = {<<s.ids[i], V!RowAt(s, i)>> : i \in 1 .. Len(s.ids)}
  BY <1>1 DEF V!Contents
<1>3. ToSet(s.ids) = {s.ids[i] : i \in 1 .. Len(s.ids)}
  BY <1>1 DEF ToSet
<1>4. \A i \in 1 .. Len(s.ids) : V!RowAt(s, i) = VecOf(s.ids[i])
  BY RowIs
<1> QED
  BY ONLY <1>2, <1>3, <1>4

(* Such a shard is well formed.                                            *)
LEMMA TightIsShard ==
  ASSUME NEW s \in Tight
  PROVE  V!IsShard(s)
<1>1. s.ids \in Seq(EmbChunks) /\ Rows(s.ids, s.emb) /\ s.dim \in {0, Dim}
  BY DEF Tight, Loose
<1>2. s.dim \in Nat
  BY <1>1, DimIs
<1>3. \A i \in DOMAIN s.ids : s.ids[i] \in Chunks
  <2>1. \A i \in DOMAIN s.ids : s.ids[i] \in EmbChunks
    BY <1>1
  <2> QED
    BY <2>1 DEF EmbChunks
<1>4. Len(s.emb) = s.dim * Len(s.ids)
  <2>1. CASE s.ids = <<>>
    <3>1. Len(s.ids) = 0 /\ Len(s.emb) = Dim * 0
      BY <1>1, <2>1 DEF Rows
    <3>2. Dim * 0 = 0 /\ s.dim * 0 = 0
      BY <1>2, DimIs
    <3> QED
      BY <3>1, <3>2
  <2>2. CASE s.ids # <<>>
    <3>1. s.dim = Dim
      BY <2>2 DEF Tight, Loose
    <3> QED
      BY <1>1, <3>1 DEF Rows
  <2> QED
    BY <2>1, <2>2
<1>5. s.ids = <<>> => s.dim = 0
  BY DEF Tight
<1> QED
  BY <1>2, <1>3, <1>4, <1>5 DEF V!IsShard

(* An empty shard is the empty shard.                                      *)
LEMMA TightEmpty ==
  ASSUME NEW s \in Tight
  PROVE  /\ s = V!EmptyShard <=> s.ids = <<>>
         /\ s.ids = <<>> <=> ToSet(s.ids) = {}
<1>1. /\ s.ids \in Seq(EmbChunks) /\ Rows(s.ids, s.emb) /\ s.emb \in Seq(Cells)
      /\ s = [ids |-> s.ids, emb |-> s.emb, dim |-> s.dim]
      /\ s.ids = <<>> => s.dim = 0
  BY DEF Tight, Loose
<1>2. ASSUME s.ids = <<>> PROVE s = V!EmptyShard
  <2>1. Len(s.emb) = 0
    <3>1. Len(s.ids) = 0 /\ Len(s.emb) = Dim * 0
      BY <1>1, <1>2 DEF Rows
    <3>2. Dim * 0 = 0
      BY DimIs
    <3> QED
      BY <3>1, <3>2
  <2>2. s.emb = <<>>
    BY <1>1, <2>1
  <2> QED
    BY <1>1, <1>2, <2>2 DEF V!EmptyShard
<1>3. s = V!EmptyShard => s.ids = <<>>
  BY DEF V!EmptyShard
<1>4. s.ids = <<>> <=> ToSet(s.ids) = {}
  <2>1. \A x : x \in ToSet(s.ids) <=> \E j \in 1 .. Len(s.ids) : x = s.ids[j]
    BY <1>1, InToSet
  <2>2. CASE s.ids = <<>>
    BY <2>1, <2>2
  <2>3. CASE s.ids # <<>>
    <3>1. 1 \in 1 .. Len(s.ids)
      BY <1>1, <2>3
    <3> QED
      BY <2>1, <2>3, <3>1
  <2> QED
    BY <2>2, <2>3
<1> QED
  BY <1>2, <1>3, <1>4

-----------------------------------------------------------------------------
(* Changes of a shard.                                                     *)

OfFiles(S) == {c \in Chunks : c[1] \in S}
OfFile(f) == {c \in Chunks : c[1] = f}

(* g removes the first N of the files from s, one after the other.         *)
Removal(g, s, files, N) ==
  g = [n \in 0 .. N |->
         IF n = 0 THEN s
         ELSE V!RemoveMatching(g[n - 1], {c \in Chunks : c[1] = files[n]})]

(* The files of a patch are removed one after the other.                   *)
LEMMA RemoveFiles ==
  ASSUME NEW s \in Tight, NEW removed, IsFiniteSet(removed)
  PROVE  \E g : /\ g[Len(SetToSeq(removed))] \in Tight
                /\ ToSet(g[Len(SetToSeq(removed))].ids) = ToSet(s.ids) \ OfFiles(removed)
                /\ Distinct(s.ids) => Distinct(g[Len(SetToSeq(removed))].ids)
                /\ Removal(g, s, SetToSeq(removed), Len(SetToSeq(removed)))
<1> DEFINE files == SetToSeq(removed)
           N == Len(files)
           step == [p \in Tight \X (1 .. N) |-> V!RemoveMatching(p[1], OfFile(files[p[2]]))]
           seen(n) == {files[i] : i \in 1 .. n}
<1>1. files \in Seq(removed) /\ ToSet(files) = removed
  BY SetToSeqIs
<1>2. N \in Nat /\ ToSet(files) = seen(N)
  <2>1. N \in Nat /\ DOMAIN files = 1 .. N
    BY <1>1
  <2> QED
    BY <2>1 DEF ToSet
<1> HIDE DEF files, N
<1>3. step \in [Tight \X (1 .. N) -> Tight]
  <2>1. \A x \in Tight : \A n \in 1 .. N : V!RemoveMatching(x, OfFile(files[n])) \in Tight
    BY RemoveMatchingIs DEF Tight
  <2> QED
    BY <2>1
<1> HIDE DEF step
<1>4. PICK f \in [0 .. N -> Tight] : Runs(f, N, s, step)
  BY ONLY <1>2, <1>3, s \in Tight, Loop
<1>5. f[0] = s /\ \A n \in 1 .. N : f[n] = V!RemoveMatching(f[n - 1], OfFile(files[n]))
  <2>1. ASSUME NEW n \in 1 .. N PROVE f[n] = V!RemoveMatching(f[n - 1], OfFile(files[n]))
    <3>1. n - 1 \in 0 .. N
      BY <1>2
    <3>2. f[n - 1] \in Tight /\ f[n] = step[<<f[n - 1], n>>]
      BY <1>4, <3>1 DEF Runs
    <3> QED
      BY <3>2 DEF step
  <2> QED
    BY <1>4, <2>1 DEF Runs
<1>6. f = [n \in 0 .. N |-> IF n = 0 THEN s
                          ELSE V!RemoveMatching(f[n - 1], {c \in Chunks : c[1] = files[n]})]
  <2>1. f = [n \in 0 .. N |-> f[n]]
    OBVIOUS
  <2>2. \A n \in 0 .. N : n # 0 => n \in 1 .. N
    BY <1>2
  <2> QED
    BY <1>5, <2>1, <2>2 DEF OfFile
<1> DEFINE S == {n \in 0 .. N : /\ ToSet(f[n].ids) = ToSet(s.ids) \ OfFiles(seen(n))
                                /\ Distinct(s.ids) => Distinct(f[n].ids)}
<1>7. 0 \in S
  <2>1. seen(0) = {} /\ 0 \in 0 .. N
    BY <1>2
  <2> QED
    BY <1>5, <2>1 DEF OfFiles
<1>8. ASSUME NEW n \in 1 .. N, n - 1 \in S PROVE n \in S
  <2>1. n - 1 \in 0 .. N /\ n \in 0 .. N
    BY <1>2
  <2>2. /\ ToSet(f[n].ids) = ToSet(f[n - 1].ids) \ OfFile(files[n])
        /\ Distinct(f[n - 1].ids) => Distinct(f[n].ids)
    <3>1. f[n - 1] \in Loose
      BY <2>1 DEF Tight
    <3> QED
      BY <1>5, <3>1, RemoveMatchingIs
  <2>3. /\ ToSet(f[n - 1].ids) = ToSet(s.ids) \ OfFiles(seen(n - 1))
        /\ Distinct(s.ids) => Distinct(f[n - 1].ids)
    BY <1>8
  <2>4. OfFiles(seen(n)) = OfFiles(seen(n - 1)) \cup OfFile(files[n])
    <3>1. 1 .. n = (1 .. n - 1) \cup {n}
      BY <1>2
    <3>2. seen(n) = seen(n - 1) \cup {files[n]}
      BY ONLY <3>1
    <3> HIDE DEF seen
    <3> QED
      BY ONLY <3>2 DEF OfFiles, OfFile
  <2> HIDE DEF seen
  <2> QED
    BY <2>1, <2>2, <2>3, <2>4
<1>9. N \in S
  <2> HIDE DEF S
  <2>1. \A n \in 0 .. N : n \in S
    BY ONLY <1>2, <1>7, <1>8, UpTo
  <2> QED
    BY <1>2, <2>1
<1>10. /\ ToSet(f[N].ids) = ToSet(s.ids) \ OfFiles(removed)
       /\ Distinct(s.ids) => Distinct(f[N].ids)
  BY <1>1, <1>2, <1>9
<1>11. f[N] \in Tight
  BY <1>2
<1> QED
  BY ONLY <1>6, <1>10, <1>11 DEF N, files, Removal

(* The loop of a patch has one run.                                        *)
LEMMA RemoveFilesUnique ==
  ASSUME NEW N \in Nat, NEW s, NEW files, NEW f, NEW g,
         Removal(f, s, files, N), Removal(g, s, files, N)
  PROVE  f[N] = g[N]
<1> DEFINE S == {n \in 0 .. N : f[n] = g[n]}
<1>1. 0 \in S
  BY DEF Removal
<1>2. ASSUME NEW n \in 1 .. N, n - 1 \in S PROVE n \in S
  <2>1. f[n - 1] = g[n - 1] /\ n \in 0 .. N /\ n # 0
    BY <1>2
  <2>2. f[n] = V!RemoveMatching(f[n - 1], {c \in Chunks : c[1] = files[n]})
    BY ONLY <2>1, Removal(f, s, files, N) DEF Removal
  <2>3. g[n] = V!RemoveMatching(g[n - 1], {c \in Chunks : c[1] = files[n]})
    BY ONLY <2>1, Removal(g, s, files, N) DEF Removal
  <2> QED
    BY <2>1, <2>2, <2>3
<1> HIDE DEF S
<1>3. \A n \in 0 .. N : n \in S
  BY ONLY <1>1, <1>2, N \in Nat, UpTo
<1> QED
  BY <1>3 DEF S

(* A patched shard: without the replaced files, with the new chunks.       *)
LEMMA ApplyIncrementalIs ==
  ASSUME NEW r \in Repos, shard[r] \in Tight, NEW removed, IsFiniteSet(removed),
         NEW new \in Seq(Chunks), ApplyIncremental(r, removed, new)
  PROVE  \E s \in Tight :
           /\ Settle(r, s)
           /\ ToSet(s.ids) = (ToSet(shard[r].ids) \ OfFiles(removed))
                               \cup (ToSet(new) \cap EmbChunks)
           /\ (/\ Distinct(shard[r].ids) /\ Distinct(new)
               /\ \A c \in ToSet(new) : c[1] \in removed) => Distinct(s.ids)
<1> DEFINE files == SetToSeq(removed)
           N == Len(files)
           without[n \in 0 .. N] ==
             IF n = 0 THEN shard[r]
             ELSE V!RemoveMatching(without[n - 1], {c \in Chunks : c[1] = files[n]})
           s == V!Insert(without[N], new)
<1>1. Settle(r, s)
  BY DEF ApplyIncremental
<1>2. PICK g : /\ g[N] \in Tight
               /\ ToSet(g[N].ids) = ToSet(shard[r].ids) \ OfFiles(removed)
               /\ Distinct(shard[r].ids) => Distinct(g[N].ids)
               /\ Removal(g, shard[r], files, N)
  BY RemoveFiles
<1>3. N \in Nat
  BY SetToSeqIs
<1> HIDE DEF files, N
<1>4. without = [n \in 0 .. N |->
                  IF n = 0 THEN shard[r]
                  ELSE V!RemoveMatching(without[n - 1], {c \in Chunks : c[1] = files[n]})]
  <2>1. g = [n \in 0 .. N |->
               IF n = 0 THEN shard[r]
               ELSE V!RemoveMatching(g[n - 1], {c \in Chunks : c[1] = files[n]})]
    BY ONLY <1>2 DEF Removal
  <2> QED
    BY ONLY <2>1, Zenon
<1> HIDE DEF without
<1>5. without[N] = g[N]
  <2>1. Removal(without, shard[r], files, N)
    BY ONLY <1>4 DEF Removal
  <2> QED
    BY ONLY <1>2, <1>3, <2>1, RemoveFilesUnique
<1>6. /\ s \in Tight
      /\ ToSet(s.ids) = ToSet(g[N].ids) \cup (ToSet(new) \cap EmbChunks)
  <2>1. g[N] \in Loose
    BY <1>2 DEF Tight
  <2> QED
    BY <1>2, <1>5, <2>1, InsertIs
<1>7. ASSUME Distinct(shard[r].ids), Distinct(new), \A c \in ToSet(new) : c[1] \in removed
      PROVE  Distinct(s.ids)
  <2>1. g[N] \in Loose /\ Distinct(g[N].ids) /\ Distinct(new)
    BY <1>2, <1>7 DEF Tight
  <2>2. ToSet(g[N].ids) \cap ToSet(new) = {}
    <3>1. \A c \in ToSet(new) : c \in Chunks
      BY InToSet
    <3>2. \A c \in ToSet(new) : c \in OfFiles(removed)
      BY <1>7, <3>1 DEF OfFiles
    <3> QED
      BY ONLY <1>2, <3>2
  <2>3. Distinct(V!Insert(g[N], new).ids)
    BY ONLY <2>1, <2>2, InsertDistinct, new \in Seq(Chunks)
  <2> QED
    BY <1>5, <2>3
<1> QED
  BY <1>1, <1>2, <1>6, <1>7

(* What evictions leave of an order.                                       *)
LEMMA DropOrder ==
  ASSUME NEW A, NEW order \in Seq(A), Distinct(order), NEW d \in 0 .. Len(order) - 1
  PROVE  /\ Drop(order, d) \in Seq(A) /\ Distinct(Drop(order, d))
         /\ ToSet(Drop(order, d)) \subseteq ToSet(order)
         /\ order[Len(order)] \in ToSet(Drop(order, d))
<1> DEFINE n == Len(order)
<1> PICK x : x = Drop(order, d)
  OBVIOUS
<1>1. n \in Nat /\ d \in 0 .. n /\ n - d \in 1 .. n
  OBVIOUS
<1>2. x \in Seq(A) /\ Len(x) = n - d /\ \A i \in 1 .. n - d : x[i] = order[d + i]
  BY <1>1, DropIs
<1>3. \A y : y \in ToSet(x) <=> \E i \in 1 .. n - d : y = x[i]
  BY <1>2, InToSet
<1>4. \A y : y \in ToSet(order) <=> \E i \in 1 .. n : y = order[i]
  BY InToSet
<1>5. \A i \in 1 .. n - d : d + i \in 1 .. n
  BY <1>1
<1>6. Distinct(x)
  <2> SUFFICES ASSUME NEW i \in 1 .. n - d, NEW j \in 1 .. n - d, x[i] = x[j]
               PROVE  i = j
    BY <1>2 DEF Distinct
  <2>1. d + i = d + j
    BY <1>2, <1>5 DEF Distinct
  <2> QED
    BY <1>1, <2>1
<1>7. order[n] = x[n - d] /\ n - d \in 1 .. n - d
  <2>1. d + (n - d) = n /\ n - d \in 1 .. n - d
    BY <1>1
  <2> HIDE DEF n
  <2> QED
    BY <1>2, <2>1
<1> HIDE DEF n
<1>8. ToSet(x) \subseteq ToSet(order)
  BY ONLY <1>2, <1>3, <1>4, <1>5
<1>9. order[n] \in ToSet(x)
  BY ONLY <1>3, <1>7
<1> QED
  BY <1>2, <1>6, <1>8, <1>9 DEF n

(* The most recent repository comes last.                                  *)
LEMMA AppendOrder ==
  ASSUME NEW A, NEW k \in Seq(A), Distinct(k), NEW r \in A, r \notin ToSet(k)
  PROVE  /\ Append(k, r) \in Seq(A) /\ Distinct(Append(k, r)) /\ Append(k, r) # <<>>
         /\ ToSet(Append(k, r)) = ToSet(k) \cup {r}
         /\ Append(k, r)[Len(Append(k, r))] = r
<1> DEFINE n == Len(k)
<1> PICK x : x = Append(k, r)
  OBVIOUS
<1>1. /\ n \in Nat /\ x \in Seq(A) /\ Len(x) = n + 1 /\ x[n + 1] = r
      /\ \A i \in 1 .. n : x[i] = k[i]
      /\ x # <<>>
  BY AppendAt
<1>2. \A i \in 1 .. n : k[i] # r
  BY InToSet
<1>3. \A i, j \in 1 .. n : k[i] = k[j] => i = j
  BY DEF Distinct
<1>4. Distinct(x)
  <2>1. \A i \in 1 .. n + 1 : i \in 1 .. n \/ i = n + 1
    BY <1>1
  <2> HIDE DEF n
  <2> QED
    BY ONLY <1>1, <1>2, <1>3, <2>1 DEF Distinct
<1>5. ToSet(x) = ToSet(k) \cup {r}
  BY ToSetAppend
<1> QED
  BY <1>1, <1>4, <1>5

(* The types of the resident shards and of their order.                    *)
ShardsOk ==
  /\ lru \in Seq(Repos) /\ Distinct(lru)
  /\ shard \in [Repos -> Tight]
  /\ \A x \in Repos \ Resident : shard[x] = V!EmptyShard

(* The order without one repository.                                       *)
LEMMA WithoutIs ==
  ASSUME ShardsOk, NEW r
  PROVE  /\ Without(r) \in Seq(Repos) /\ Distinct(Without(r))
         /\ ToSet(Without(r)) = Resident \ {r}
<1>1. lru \in Seq(Repos) /\ Distinct(lru)
  BY DEF ShardsOk
<1>2. /\ Without(r) \in Seq(Repos) /\ Distinct(Without(r))
      /\ ToSet(Without(r)) = ToSet(lru) \cap (Repos \ {r})
  BY <1>1, KeptOrder DEF Without
<1>3. ToSet(lru) \subseteq Repos
  <2>1. \A x : x \in ToSet(lru) <=> \E i \in 1 .. Len(lru) : x = lru[i]
    BY <1>1, InToSet
  <2> QED
    BY <1>1, <2>1
<1> QED
  BY <1>2, <1>3 DEF Resident

(* An evicted repository holds nothing.                                    *)
LEMMA EvictRepoIs ==
  ASSUME ShardsOk, NEW r \in Repos, EvictRepo(r)
  PROVE  /\ ShardsOk' /\ Resident' = Resident \ {r}
         /\ \A x \in Resident' : shard'[x] = shard[x]
<1>1. shard \in [Repos -> Tight] /\ \A x \in Repos \ Resident : shard[x] = V!EmptyShard
  BY DEF ShardsOk
<1>2. lru' \in Seq(Repos) /\ Distinct(lru') /\ Resident' = Resident \ {r}
  BY WithoutIs DEF EvictRepo, Resident
<1>3. shard' = [shard EXCEPT ![r] = V!EmptyShard]
  BY DEF EvictRepo
<1>4. shard' \in [Repos -> Tight]
  BY <1>1, <1>3, EmptyTight
<1>5. \A x \in Repos \ Resident' : shard'[x] = V!EmptyShard
  BY <1>1, <1>2, <1>3
<1>6. \A x \in Resident' : shard'[x] = shard[x]
  BY <1>1, <1>2, <1>3
<1>7. ShardsOk'
  BY ONLY <1>2, <1>4, <1>5 DEF ShardsOk
<1> QED
  BY <1>2, <1>6, <1>7

SizesWith(r, s) == [x \in Repos |-> V!ByteSize(IF x = r THEN s ELSE shard[x])]

(* A shard that is not empty becomes the last of the order, and the first  *)
(* d of the others go.                                                     *)
LEMMA SettleEvicts ==
  ASSUME ShardsOk, NEW r \in Repos, NEW s \in Tight, s.ids # <<>>, Settle(r, s)
  PROVE  LET order == Append(Without(r), r) IN
         \E d \in 0 .. Len(order) - 1 :
           /\ lru' = Drop(order, d)
           /\ Cap = 0 \/ Bytes(lru', SizesWith(r, s)) <= Cap \/ d = Len(order) - 1
           /\ shard' = [x \in Repos |-> IF x = r THEN s
                                        ELSE IF x \in ToSet(lru') THEN shard[x]
                                        ELSE V!EmptyShard]
<1> DEFINE order == Append(Without(r), r)
           size == SizesWith(r, s)
<1>1. /\ order \in Seq(Repos) /\ Distinct(order) /\ order # <<>>
      /\ order[Len(order)] = r
  BY WithoutIs, AppendOrder
<1>2. /\ lru' = EvictToCap(order, size, r)
      /\ shard' = [x \in Repos |-> IF x = r THEN s
                                   ELSE IF x \in ToSet(lru') THEN shard[x]
                                   ELSE V!EmptyShard]
  BY DEF Settle, SizesWith
<1> HIDE DEF order, size
<1>3. \E d \in 0 .. Len(order) - 1 :
        /\ EvictToCap(order, size, r) = Drop(order, d)
        /\ Cap = 0 \/ Bytes(Drop(order, d), size) <= Cap \/ d = Len(order) - 1
  BY <1>1, EvictLoop
<1> QED
  BY <1>2, <1>3 DEF order, size

(* A settled shard is resident, unless it is empty; others stay as they    *)
(* were or go.                                                             *)
LEMMA SettleIs ==
  ASSUME ShardsOk, NEW r \in Repos, NEW s \in Tight, Settle(r, s)
  PROVE  /\ ShardsOk' /\ Resident' \subseteq Resident \cup {r}
         /\ \A x \in Resident' : shard'[x] = IF x = r THEN s ELSE shard[x]
<1>1. CASE s.ids = <<>>
  BY <1>1, EvictRepoIs DEF Settle
<1>2. CASE s.ids # <<>>
  <2> DEFINE order == Append(Without(r), r)
  <2>1. /\ order \in Seq(Repos) /\ Distinct(order)
        /\ ToSet(order) = (Resident \ {r}) \cup {r} /\ order[Len(order)] = r
    BY WithoutIs, AppendOrder
  <2>2. PICK d \in 0 .. Len(order) - 1 :
          /\ lru' = Drop(order, d)
          /\ shard' = [x \in Repos |-> IF x = r THEN s
                                       ELSE IF x \in ToSet(lru') THEN shard[x]
                                       ELSE V!EmptyShard]
    BY <1>2, SettleEvicts
  <2> HIDE DEF order
  <2>3. /\ lru' \in Seq(Repos) /\ Distinct(lru') /\ Resident' \subseteq Resident \cup {r}
        /\ r \in Resident'
    BY <2>1, <2>2, DropOrder DEF Resident
  <2>4. shard \in [Repos -> Tight]
    BY DEF ShardsOk
  <2>5. shard' \in [Repos -> Tight]
    BY <2>2, <2>4, EmptyTight
  <2>6. /\ \A x \in Repos \ Resident' : shard'[x] = V!EmptyShard
        /\ \A x \in Repos \cap Resident' : shard'[x] = IF x = r THEN s ELSE shard[x]
    BY <2>2, <2>3 DEF Resident
  <2>7. Resident' \subseteq Repos
    BY <2>3 DEF ShardsOk, Resident, ToSet
  <2>8. ShardsOk'
    BY ONLY <2>3, <2>5, <2>6 DEF ShardsOk
  <2> QED
    BY <2>3, <2>6, <2>7, <2>8
<1> QED
  BY <1>1, <1>2

-----------------------------------------------------------------------------
(* Warm-ups are single-flight.                                             *)

Places == {"idle", "lock", "check", "scan", "install", "search"}

(* Single flight, and what it rests on: a task that is not idle knows its  *)
(* repository, so that it can give the lock of that repository back.       *)
FlightInv ==
  /\ pc \in [Tasks -> Places]
  /\ repo \in [Tasks -> Repos \cup {NoRepo}]
  /\ awaited \in [Tasks -> BOOLEAN]
  /\ warmLock \in [Repos -> Tasks \cup {Nobody}]
  /\ \A t \in Tasks : pc[t] # "idle" => repo[t] \in Repos
  /\ SingleFlight

(* Initially no warm-up is under way.                                      *)
LEMMA FlightInit == Init => FlightInv
BY ShardAssumption DEF Init, FlightInv, Places, SingleFlight, Locking

(* A task moves between places at which it holds no lock, or between those *)
(* at which it does.                                                       *)
LEMMA MoveKeeps ==
  ASSUME FlightInv, NEW t \in Tasks, NEW l \in Places,
         l = "idle" \/ repo'[t] \in Repos, Goto(t, l),
         pc[t] \in Locking <=> l \in Locking,
         pc[t] \in Locking => repo'[t] = repo[t],
         \A u \in Tasks \ {t} : repo'[u] = repo[u],
         repo' \in [Tasks -> Repos \cup {NoRepo}],
         awaited' \in [Tasks -> BOOLEAN], UNCHANGED warmLock
  PROVE  FlightInv'
<1>1. /\ pc' \in [Tasks -> Places]
      /\ \A u \in Tasks : pc'[u] = IF u = t THEN l ELSE pc[u]
  BY DEF FlightInv, Goto
<1>2. SingleFlight'
  <2> SUFFICES ASSUME NEW u \in Tasks, NEW r \in Repos
               PROVE  (pc'[u] \in Locking /\ repo'[u] = r) <=> (warmLock[r] = u)
    BY DEF SingleFlight, Locking
  <2>1. (pc[u] \in Locking /\ repo[u] = r) <=> (warmLock[r] = u)
    BY DEF FlightInv, SingleFlight
  <2>2. CASE u = t
    BY <1>1, <2>1, <2>2
  <2>3. CASE u # t
    BY <1>1, <2>1, <2>3
  <2> QED
    BY <2>2, <2>3
<1>3. \A u \in Tasks : pc'[u] # "idle" => repo'[u] \in Repos
  BY <1>1 DEF FlightInv
<1> QED
  BY <1>1, <1>2, <1>3 DEF FlightInv

(* A task that leaves its warm-up, wherever it was, holds no lock.         *)
LEMMA AfterWarmKeeps ==
  ASSUME FlightInv, NEW t \in Tasks, pc[t] \in {"lock"} \cup Locking,
         AfterWarm(t), UNCHANGED awaited
  PROVE  FlightInv'
<1> DEFINE l == IF awaited[t] THEN "search" ELSE "idle"
<1>1. /\ pc' \in [Tasks -> Places]
      /\ \A u \in Tasks : pc'[u] = IF u = t THEN l ELSE pc[u]
      /\ l \in {"search", "idle"}
  BY DEF FlightInv, AfterWarm, Goto, Places
<1>2. /\ repo' \in [Tasks -> Repos \cup {NoRepo}]
      /\ \A u \in Tasks : repo'[u] = IF u = t /\ ~awaited[t] THEN NoRepo ELSE repo[u]
  BY DEF FlightInv, AfterWarm
<1>3. repo[t] \in Repos
  BY DEF FlightInv, Locking
<1>4. /\ warmLock' \in [Repos -> Tasks \cup {Nobody}]
      /\ \A r \in Repos : warmLock'[r] =
           IF r = repo[t] /\ warmLock[r] = t THEN Nobody ELSE warmLock[r]
  BY <1>3 DEF FlightInv, AfterWarm, Release
<1>5. SingleFlight'
  <2> SUFFICES ASSUME NEW u \in Tasks, NEW r \in Repos
               PROVE  (pc'[u] \in Locking /\ repo'[u] = r) <=> (warmLock'[r] = u)
    BY DEF SingleFlight, Locking
  <2>1. (pc[u] \in Locking /\ repo[u] = r) <=> (warmLock[r] = u)
    BY DEF FlightInv, SingleFlight
  <2>2. (pc[t] \in Locking /\ repo[t] = r) <=> (warmLock[r] = t)
    BY DEF FlightInv, SingleFlight
  <2>3. u # Nobody /\ t # Nobody
    BY ShardAssumption
  <2>4. CASE u = t
    BY <1>1, <1>4, <2>2, <2>3, <2>4 DEF Locking
  <2>5. CASE u # t
    BY <1>1, <1>2, <1>4, <2>1, <2>3, <2>5
  <2> QED
    BY <2>4, <2>5
<1>6. \A u \in Tasks : pc'[u] # "idle" => repo'[u] \in Repos
  BY <1>1, <1>2, <1>3 DEF FlightInv
<1>7. awaited' \in [Tasks -> BOOLEAN]
  BY DEF FlightInv
<1> QED
  BY <1>1, <1>2, <1>4, <1>5, <1>6, <1>7 DEF FlightInv

(* A task that takes the free lock is its one holder.                      *)
LEMMA TakeKeeps ==
  ASSUME FlightInv, NEW t \in Tasks, TakeWarmLock(t)
  PROVE  FlightInv'
<1>1. /\ pc[t] = "lock" /\ warmLock[repo[t]] = Nobody /\ repo[t] \in Repos
      /\ repo' = repo /\ awaited' = awaited
  BY DEF TakeWarmLock, FlightInv
<1>2. /\ pc' \in [Tasks -> Places]
      /\ \A u \in Tasks : pc'[u] = IF u = t THEN "check" ELSE pc[u]
  BY DEF FlightInv, TakeWarmLock, Goto, Places
<1>3. /\ warmLock' \in [Repos -> Tasks \cup {Nobody}]
      /\ \A r \in Repos : warmLock'[r] = IF r = repo[t] THEN t ELSE warmLock[r]
  BY DEF FlightInv, TakeWarmLock
<1>4. SingleFlight'
  <2> SUFFICES ASSUME NEW u \in Tasks, NEW r \in Repos
               PROVE  (pc'[u] \in Locking /\ repo'[u] = r) <=> (warmLock'[r] = u)
    BY DEF SingleFlight, Locking
  <2>1. (pc[u] \in Locking /\ repo[u] = r) <=> (warmLock[r] = u)
    BY DEF FlightInv, SingleFlight
  <2>2. u # Nobody
    BY ShardAssumption
  <2>3. CASE u = t
    BY <1>1, <1>2, <1>3, <2>1, <2>3 DEF Locking
  <2>4. CASE u # t
    BY <1>1, <1>2, <1>3, <2>1, <2>2, <2>4
  <2> QED
    BY <2>3, <2>4
<1> QED
  BY <1>1, <1>2, <1>3, <1>4 DEF FlightInv

(* Single flight is kept by every step.                                    *)
LEMMA FlightStep == FlightInv /\ [Next]_vars => FlightInv'
<1> SUFFICES ASSUME FlightInv, [Next]_vars PROVE FlightInv'
  OBVIOUS
<1>1. CASE UNCHANGED <<pc, repo, awaited, warmLock>>
  BY <1>1 DEF FlightInv, SingleFlight, Locking
<1>2. ASSUME NEW r \in Repos, NEW f \in FilesOf[r],
             StartIncremental(r, f) \/ StartIgnore(r, f) \/ WriteRows(r, f)
      PROVE  FlightInv'
  BY <1>1, <1>2 DEF StartIncremental, StartIgnore, WriteRows, BeginRun, warm
<1>3. ASSUME NEW r \in Repos,
             \/ StartRebuild(r) \/ DeleteRows(r) \/ EndStream(r) \/ PatchShard(r)
             \/ AbortRun(r) \/ ClearRepoIndex(r) \/ RemoveIndexDir(r)
      PROVE  FlightInv'
  BY <1>1, <1>3 DEF StartRebuild, BeginRun, DeleteRows, EndStream, PatchShard,
     AbortRun, ClearRepoIndex, RemoveIndexDir, warm
<1>4. ASSUME NEW t \in Tasks, NEW r \in Repos, Query(t, r)
      PROVE  FlightInv'
  <2> DEFINE l == IF r \in Resident THEN "search" ELSE "lock"
  <2>1. l \in Places /\ l \notin Locking /\ pc[t] \notin Locking
    BY <1>4 DEF Query, Places, Locking
  <2>2. repo' \in [Tasks -> Repos \cup {NoRepo}] /\ awaited' \in [Tasks -> BOOLEAN]
    BY <1>4 DEF Query, FlightInv
  <2>3. repo'[t] = r /\ \A u \in Tasks \ {t} : repo'[u] = repo[u]
    BY <1>4 DEF Query, FlightInv
  <2>4. Goto(t, l) /\ UNCHANGED warmLock
    BY <1>4 DEF Query, warm
  <2> HIDE DEF l
  <2> QED
    BY <2>1, <2>2, <2>3, <2>4, MoveKeeps
<1>5. ASSUME NEW t \in Tasks, NEW r \in Repos, WarmInBackground(t, r)
      PROVE  FlightInv'
  <2>1. "lock" \in Places /\ "lock" \notin Locking /\ pc[t] \notin Locking
    BY <1>5 DEF WarmInBackground, Places, Locking
  <2>2. repo' \in [Tasks -> Repos \cup {NoRepo}] /\ awaited' \in [Tasks -> BOOLEAN]
    BY <1>5 DEF WarmInBackground, FlightInv
  <2>3. repo'[t] = r /\ \A u \in Tasks \ {t} : repo'[u] = repo[u]
    BY <1>5 DEF WarmInBackground, FlightInv
  <2>4. Goto(t, "lock") /\ UNCHANGED warmLock
    BY <1>5 DEF WarmInBackground
  <2> QED
    BY <2>1, <2>2, <2>3, <2>4, MoveKeeps
<1>6. ASSUME NEW t \in Tasks, TakeWarmLock(t) PROVE FlightInv'
  BY <1>6, TakeKeeps
<1>7. ASSUME NEW t \in Tasks, CheckResident(t) PROVE FlightInv'
  <2>1. CASE repo[t] \in Resident
    BY <1>7, <2>1, AfterWarmKeeps DEF CheckResident, Locking
  <2>2. CASE repo[t] \notin Resident
    <3>1. /\ "scan" \in Places /\ "scan" \in Locking /\ pc[t] \in Locking
          /\ pc[t] # "idle"
      BY <1>7 DEF CheckResident, Places, Locking
    <3>2. Goto(t, "scan") /\ UNCHANGED <<repo, warmLock, awaited>>
      BY <1>7, <2>2 DEF CheckResident
    <3>3. repo'[t] \in Repos /\ repo' \in [Tasks -> Repos \cup {NoRepo}]
          /\ awaited' \in [Tasks -> BOOLEAN]
      BY <3>1, <3>2 DEF FlightInv
    <3> QED
      BY <3>1, <3>2, <3>3, MoveKeeps
  <2> QED
    BY <2>1, <2>2
<1>8. ASSUME NEW t \in Tasks, ScanTable(t) PROVE FlightInv'
  <2>1. /\ "install" \in Places /\ "install" \in Locking /\ pc[t] \in Locking
        /\ pc[t] # "idle"
    BY <1>8 DEF ScanTable, Places, Locking
  <2>2. Goto(t, "install") /\ UNCHANGED <<repo, warmLock, awaited>>
    BY <1>8 DEF ScanTable
  <2>3. repo'[t] \in Repos /\ repo' \in [Tasks -> Repos \cup {NoRepo}]
        /\ awaited' \in [Tasks -> BOOLEAN]
    BY <2>1, <2>2 DEF FlightInv
  <2> QED
    BY <2>1, <2>2, <2>3, MoveKeeps
<1>9. ASSUME NEW t \in Tasks, ScanFails(t) \/ Install(t) \/ Timeout(t)
      PROVE  FlightInv'
  BY <1>9, AfterWarmKeeps DEF ScanFails, Install, Timeout, Locking
<1>10. ASSUME NEW t \in Tasks, Answer(t) PROVE FlightInv'
  <2>1. "idle" \in Places /\ "idle" \notin Locking /\ pc[t] \notin Locking
    BY <1>10 DEF Answer, Places, Locking
  <2>2. repo' \in [Tasks -> Repos \cup {NoRepo}] /\ awaited' \in [Tasks -> BOOLEAN]
    BY <1>10 DEF Answer, FlightInv
  <2>3. \A u \in Tasks \ {t} : repo'[u] = repo[u]
    BY <1>10 DEF Answer, FlightInv
  <2>4. Goto(t, "idle") /\ UNCHANGED warmLock
    BY <1>10 DEF Answer
  <2> QED
    BY <2>1, <2>2, <2>3, <2>4, MoveKeeps
<1>11. CASE UNCHANGED vars
  BY <1>1, <1>11 DEF vars, warm
<1> QED
  BY <1>2, <1>3, <1>4, <1>5, <1>6, <1>7, <1>8, <1>9, <1>10, <1>11 DEF Next, Warm

(* warm_repo_blocking: however warm-ups time out, fail or find the shard   *)
(* already there, a repository is scanned and installed by one task at a   *)
(* time, the one that holds its warm lock, and nobody else holds it.       *)
THEOREM WarmUpsAreSingleFlight == Spec => []SingleFlight
<1>1. FlightInv => SingleFlight
  BY DEF FlightInv
<1> QED
  BY <1>1, FlightInit, FlightStep, PTL DEF Spec

-----------------------------------------------------------------------------
(* Runs and their tables.                                                  *)

RunRecord == [phase : {"idle", "delete", "write", "patch"},
              kind : {"none", "rebuild", "incremental", "ignore", "deletion"},
              files : SUBSET AllFiles, new : Seq(Chunks)]

(* A run, its table, and what of the table it has replaced.                *)
RunOk(x, table, files) ==
  /\ x \in RunRecord /\ x.files \subseteq files
  /\ x.phase = "idle" => x = NoRun
  /\ x.kind = "rebuild" => x.files = files
  /\ x.kind = "deletion" => x.phase = "delete"
  /\ x.phase = "delete" => x.new = <<>>
  /\ x.phase \in {"write", "patch"} => {c \in table : c[1] \in x.files} = ToSet(x.new)
  /\ table \subseteq OfFiles(files)

TablesOk ==
  /\ chunk \in [Repos -> SUBSET Chunks] /\ run \in [Repos -> RunRecord]
  /\ \A r \in Repos : RunOk(run[r], chunk[r], FilesOf[r])
  /\ runs \in 1 .. MaxRuns

(* A repository without a run.                                             *)
LEMMA NoRunOk ==
  ASSUME NEW table, NEW r \in Repos, table \subseteq OfFiles(FilesOf[r])
  PROVE  RunOk(NoRun, table, FilesOf[r])
BY DEF RunOk, NoRun, RunRecord

(* A step of the run of r.                                                 *)
LEMMA TablesStepOf ==
  ASSUME TablesOk, NEW r \in Repos, NEW x, NEW table,
         run' = [run EXCEPT ![r] = x], chunk' = [chunk EXCEPT ![r] = table],
         RunOk(x, table, FilesOf[r]), runs' \in 1 .. MaxRuns
  PROVE  TablesOk'
<1>1. x \in RunRecord /\ table \in SUBSET Chunks
  BY DEF RunOk, OfFiles
<1> QED
  BY <1>1 DEF TablesOk

(* A step that leaves the tables alone.                                    *)
LEMMA SameTable ==
  ASSUME TablesOk, NEW r \in Repos, UNCHANGED chunk
  PROVE  chunk' = [chunk EXCEPT ![r] = chunk[r]]
BY DEF TablesOk

(* The files of a repository are files.                                    *)
LEMMA FileOfRepo ==
  ASSUME NEW r \in Repos
  PROVE  FilesOf[r] \subseteq AllFiles
BY DEF AllFiles

(* A run begins.                                                           *)
LEMMA BeginTables ==
  ASSUME TablesOk, NEW r \in Repos, NEW kind \in {"rebuild", "incremental", "ignore"},
         NEW files \in SUBSET FilesOf[r], kind = "rebuild" => files = FilesOf[r],
         BeginRun(r, kind, files)
  PROVE  TablesOk'
<1> DEFINE x == [phase |-> "delete", kind |-> kind, files |-> files, new |-> <<>>]
<1>1. run' = [run EXCEPT ![r] = x] /\ chunk' = [chunk EXCEPT ![r] = chunk[r]]
  BY SameTable DEF BeginRun
<1>2. chunk[r] \subseteq OfFiles(FilesOf[r])
  BY DEF TablesOk, RunOk
<1>3. RunOk(x, chunk[r], FilesOf[r])
  BY <1>2, FileOfRepo DEF RunOk, RunRecord
<1>4. runs' \in 1 .. MaxRuns
  BY ShardAssumption DEF BeginRun, TablesOk
<1> HIDE DEF x
<1> QED
  BY <1>1, <1>3, <1>4, TablesStepOf

(* A run deletes the rows of the files that it replaces.                   *)
LEMMA DeleteTables ==
  ASSUME TablesOk, NEW r \in Repos, DeleteRows(r)
  PROVE  TablesOk'
<1> DEFINE p == IF run[r].kind = "ignore" THEN "patch" ELSE "write"
           x == [run[r] EXCEPT !.phase = p]
           table == {c \in chunk[r] : c[1] \notin run[r].files}
<1>1. run' = [run EXCEPT ![r] = x] /\ chunk' = [chunk EXCEPT ![r] = table]
  BY DEF DeleteRows
<1>2. /\ RunOk(run[r], chunk[r], FilesOf[r]) /\ run[r] \in RunRecord
      /\ run[r].phase = "delete" /\ run[r].kind # "deletion"
  BY DEF DeleteRows, TablesOk
<1>3. /\ x \in RunRecord /\ x.phase \in {"write", "patch"} /\ x.kind = run[r].kind
      /\ x.files = run[r].files /\ x.new = <<>>
  BY <1>2 DEF RunRecord, RunOk
<1>4. {c \in table : c[1] \in x.files} = ToSet(x.new)
  <2>1. ToSet(<<>>) = {}
    BY DEF ToSet
  <2> QED
    BY <1>3, <2>1
<1>5. table \subseteq OfFiles(FilesOf[r])
  BY <1>2 DEF RunOk
<1> HIDE DEF x, table
<1>6. RunOk(x, table, FilesOf[r])
  BY <1>2, <1>3, <1>4, <1>5 DEF RunOk
<1>7. runs' \in 1 .. MaxRuns
  BY DEF DeleteRows, TablesOk
<1> QED
  BY <1>1, <1>6, <1>7, TablesStepOf

(* The elements of a concatenation.                                        *)
LEMMA ToSetCat ==
  ASSUME NEW A, NEW s \in Seq(A), NEW t \in Seq(A)
  PROVE  ToSet(s \o t) = ToSet(s) \cup ToSet(t)
<1>1. \A x : x \in ToSet(s) <=> \E j \in 1 .. Len(s) : x = s[j]
  BY InToSet
<1>2. \A x : x \in ToSet(t) <=> \E j \in 1 .. Len(t) : x = t[j]
  BY InToSet
<1>3. /\ s \o t \in Seq(A) /\ Len(s \o t) = Len(s) + Len(t)
      /\ \A i \in 1 .. Len(s) : (s \o t)[i] = s[i]
      /\ \A i \in 1 .. Len(t) : (s \o t)[Len(s) + i] = t[i]
  BY CatAt
<1>4. \A x : x \in ToSet(s \o t) <=> \E j \in 1 .. Len(s \o t) : x = (s \o t)[j]
  BY <1>3, InToSet
<1> DEFINE m == Len(s)
           n == Len(t)
           u == s \o t
<1>5. m \in Nat /\ n \in Nat
  OBVIOUS
<1> HIDE DEF m, n, u
<1>6. \A i \in 1 .. m + n : i \in 1 .. m \/ \E k \in 1 .. n : i = m + k
  <2> TAKE i \in 1 .. m + n
  <2>1. i \in 1 .. m \/ (i - m \in 1 .. n /\ i = m + (i - m))
    BY <1>5
  <2> QED
    BY <2>1
<1>7. (\A i \in 1 .. m : i \in 1 .. m + n) /\ (\A k \in 1 .. n : m + k \in 1 .. m + n)
  BY <1>5
<1>8. /\ Len(u) = m + n
      /\ \A i \in 1 .. m : u[i] = s[i]
      /\ \A i \in 1 .. n : u[m + i] = t[i]
      /\ \A x : x \in ToSet(u) <=> \E j \in 1 .. Len(u) : x = u[j]
  BY <1>3, <1>4 DEF u, m, n
<1>9. ASSUME NEW x, x \in ToSet(u) PROVE x \in ToSet(s) \/ x \in ToSet(t)
  <2>1. PICK j \in 1 .. m + n : x = u[j]
    BY <1>8, <1>9
  <2>2. CASE j \in 1 .. m
    BY <1>1, <1>8, <2>1, <2>2 DEF m
  <2>3. CASE \E k \in 1 .. n : j = m + k
    <3>1. PICK k \in 1 .. n : j = m + k
      BY <2>3
    <3>2. x = t[k]
      BY ONLY <1>8, <2>1, <3>1, k \in 1 .. n
    <3> QED
      BY <1>2, <3>2 DEF n
  <2> QED
    BY ONLY <1>6, <2>2, <2>3, j \in 1 .. m + n
<1>10. ASSUME NEW x, x \in ToSet(s) PROVE x \in ToSet(u)
  <2>1. PICK j \in 1 .. m : x = s[j]
    BY <1>1, <1>10 DEF m
  <2> QED
    BY ONLY <1>7, <1>8, <2>1
<1>11. ASSUME NEW x, x \in ToSet(t) PROVE x \in ToSet(u)
  <2>1. PICK j \in 1 .. n : x = t[j]
    BY <1>2, <1>11 DEF n
  <2> QED
    BY ONLY <1>7, <1>8, <2>1
<1> QED
  BY <1>9, <1>10, <1>11 DEF u

(* A run stores the rows of a file, and keeps them for the shard.          *)
LEMMA WriteTables ==
  ASSUME TablesOk, NEW r \in Repos, NEW f \in FilesOf[r], WriteRows(r, f)
  PROVE  TablesOk'
<1> DEFINE new == [n \in 1 .. ChunksOf[f] |-> <<f, n, runs>>]
           x == [run[r] EXCEPT !.new = @ \o new]
           table == chunk[r] \cup ToSet(new)
<1>1. run' = [run EXCEPT ![r] = x] /\ chunk' = [chunk EXCEPT ![r] = table]
  BY DEF WriteRows
<1>2. /\ RunOk(run[r], chunk[r], FilesOf[r]) /\ run[r] \in RunRecord
      /\ run[r].phase = "write" /\ f \in run[r].files
  BY DEF WriteRows, TablesOk
<1>3. f \in AllFiles /\ ChunksOf[f] \in 1 .. 9 /\ runs \in 1 .. MaxRuns
  BY FileOfRepo, ShardAssumption DEF TablesOk
<1>4. \A n \in 1 .. ChunksOf[f] : <<f, n, runs>> \in Chunks
  <2> TAKE n \in 1 .. ChunksOf[f]
  <2>1. n \in 1 .. 9 /\ n <= ChunksOf[f]
    BY <1>3
  <2> QED
    BY <1>3, <2>1 DEF Chunks
<1>5. new \in Seq(Chunks) /\ \A c \in ToSet(new) : c \in Chunks /\ c[1] = f
  <2>1. ChunksOf[f] \in Nat
    BY <1>3
  <2> QED
    BY <1>4, <2>1 DEF ToSet
<1> HIDE DEF new
<1>6. /\ x \in RunRecord /\ x.phase = "write" /\ x.kind = run[r].kind
      /\ x.files = run[r].files /\ x.new = run[r].new \o new
  <2>1. run[r].new \in Seq(Chunks)
    BY <1>2 DEF RunRecord
  <2> DEFINE more == run[r].new \o new
  <2>2. more \in Seq(Chunks)
    BY <1>5, <2>1, CatAt
  <2>3. x = [run[r] EXCEPT !.new = more]
    OBVIOUS
  <2> HIDE DEF more, x
  <2>4. /\ x \in RunRecord /\ x.phase = "write" /\ x.kind = run[r].kind
        /\ x.files = run[r].files /\ x.new = more
    BY <1>2, <2>2, <2>3 DEF RunRecord
  <2> QED
    BY <2>4 DEF more
<1>7. ToSet(x.new) = ToSet(run[r].new) \cup ToSet(new)
  BY <1>2, <1>5, <1>6, ToSetCat DEF RunRecord
<1>8. {c \in table : c[1] \in x.files} = ToSet(x.new)
  BY <1>2, <1>5, <1>6, <1>7 DEF RunOk
<1>9. table \subseteq OfFiles(FilesOf[r])
  BY <1>2, <1>5 DEF RunOk, OfFiles
<1> HIDE DEF x, table
<1>10. RunOk(x, table, FilesOf[r])
  BY <1>2, <1>6, <1>8, <1>9 DEF RunOk
<1>11. runs' \in 1 .. MaxRuns
  BY DEF WriteRows, TablesOk
<1> QED
  BY <1>1, <1>10, <1>11, TablesStepOf

(* Every step keeps the runs and their tables.                             *)
LEMMA TablesStep == TablesOk /\ [Next]_vars => TablesOk'
<1> SUFFICES ASSUME TablesOk, [Next]_vars PROVE TablesOk'
  OBVIOUS
<1>1. CASE UNCHANGED <<run, chunk, runs>>
  BY <1>1 DEF TablesOk
<1>2. ASSUME NEW r \in Repos, StartRebuild(r) PROVE TablesOk'
  BY <1>2, BeginTables DEF StartRebuild
<1>3. ASSUME NEW r \in Repos, NEW f \in FilesOf[r], StartIncremental(r, f) \/ StartIgnore(r, f)
      PROVE  TablesOk'
  <2>1. {f} \in SUBSET FilesOf[r]
    OBVIOUS
  <2> QED
    BY <1>3, <2>1, BeginTables DEF StartIncremental, StartIgnore
<1>4. ASSUME NEW r \in Repos, NEW f \in FilesOf[r], WriteRows(r, f) PROVE TablesOk'
  BY <1>4, WriteTables
<1>5. ASSUME NEW r \in Repos, DeleteRows(r) PROVE TablesOk'
  BY <1>5, DeleteTables
<1>6. ASSUME NEW r \in Repos, EndStream(r) PROVE TablesOk'
  <2> DEFINE x == [run[r] EXCEPT !.phase = "patch"]
  <2>1. run' = [run EXCEPT ![r] = x] /\ chunk' = [chunk EXCEPT ![r] = chunk[r]]
    BY <1>6, SameTable DEF EndStream
  <2>2. /\ RunOk(run[r], chunk[r], FilesOf[r]) /\ run[r] \in RunRecord
        /\ run[r].phase = "write"
    BY <1>6 DEF EndStream, TablesOk
  <2>3. /\ x \in RunRecord /\ x.phase = "patch" /\ x.kind = run[r].kind
        /\ x.files = run[r].files /\ x.new = run[r].new
    BY <2>2 DEF RunRecord
  <2> HIDE DEF x
  <2>4. RunOk(x, chunk[r], FilesOf[r])
    BY <2>2, <2>3 DEF RunOk
  <2>5. runs' \in 1 .. MaxRuns
    BY <1>6 DEF EndStream, TablesOk
  <2> QED
    BY <2>1, <2>4, <2>5, TablesStepOf
<1>7. ASSUME NEW r \in Repos, PatchShard(r) \/ AbortRun(r) PROVE TablesOk'
  <2>1. run' = [run EXCEPT ![r] = NoRun] /\ chunk' = [chunk EXCEPT ![r] = chunk[r]]
    BY <1>7, SameTable DEF PatchShard, AbortRun
  <2>2. RunOk(NoRun, chunk[r], FilesOf[r])
    BY NoRunOk DEF TablesOk, RunOk
  <2>3. runs' \in 1 .. MaxRuns
    BY <1>7 DEF PatchShard, AbortRun, TablesOk
  <2> QED
    BY <2>1, <2>2, <2>3, TablesStepOf
<1>8. ASSUME NEW r \in Repos, ClearRepoIndex(r) PROVE TablesOk'
  <2> DEFINE x == [run[r] EXCEPT !.phase = "delete", !.kind = "deletion"]
  <2>1. run' = [run EXCEPT ![r] = x] /\ chunk' = [chunk EXCEPT ![r] = chunk[r]]
    BY <1>8, SameTable DEF ClearRepoIndex, TablesOk
  <2>2. RunOk(run[r], chunk[r], FilesOf[r]) /\ run[r] = NoRun
    BY <1>8 DEF ClearRepoIndex, TablesOk, RunOk
  <2>3. x = [phase |-> "delete", kind |-> "deletion", files |-> {}, new |-> <<>>]
    <3> DEFINE y == [run[r] EXCEPT !.phase = "delete"]
    <3>1. y = [phase |-> "delete", kind |-> "none", files |-> {}, new |-> <<>>]
      <4>1. run[r] = NoRun
        BY <2>2
      <4>2. y = [NoRun EXCEPT !.phase = "delete"]
        BY ONLY <4>1
      <4> HIDE DEF y
      <4> QED
        BY ONLY <4>2 DEF NoRun
    <3>2. x = [y EXCEPT !.kind = "deletion"]
      OBVIOUS
    <3> HIDE DEF y, x
    <3> QED
      BY <3>1, <3>2
  <2>4. RunOk(x, chunk[r], FilesOf[r])
    BY <2>2, <2>3 DEF RunOk, RunRecord
  <2>5. runs' \in 1 .. MaxRuns
    BY <1>8, ShardAssumption DEF ClearRepoIndex, TablesOk
  <2> HIDE DEF x
  <2> QED
    BY <2>1, <2>4, <2>5, TablesStepOf
<1>9. ASSUME NEW r \in Repos, RemoveIndexDir(r) PROVE TablesOk'
  <2>1. run' = [run EXCEPT ![r] = NoRun] /\ chunk' = [chunk EXCEPT ![r] = {}]
    BY <1>9 DEF RemoveIndexDir
  <2>2. RunOk(NoRun, {}, FilesOf[r])
    BY NoRunOk
  <2>3. runs' \in 1 .. MaxRuns
    BY <1>9 DEF RemoveIndexDir, TablesOk
  <2> QED
    BY <2>1, <2>2, <2>3, TablesStepOf
<1>10. ASSUME NEW t \in Tasks,
              \/ \E r \in Repos : Query(t, r) \/ WarmInBackground(t, r)
              \/ Warm(t) \/ Timeout(t) \/ Answer(t)
       PROVE  TablesOk'
  BY <1>1, <1>10 DEF Query, WarmInBackground, Warm, TakeWarmLock, CheckResident, ScanTable,
     ScanFails, Install, Timeout, Answer
<1>11. CASE UNCHANGED vars
  BY <1>1, <1>11 DEF vars
<1> QED
  BY <1>2, <1>3, <1>4, <1>5, <1>6, <1>7, <1>8, <1>9, <1>10, <1>11 DEF Next

-----------------------------------------------------------------------------
(* Shards and scans agree with the tables.                                 *)

MiscOk ==
  /\ loaded \in [Tasks -> Tight] /\ exact \in [Repos -> BOOLEAN]
  /\ cold \subseteq Repos /\ outdated \subseteq Tasks
  /\ queries \in 0 .. MaxQueries

(* Outside the files that a run replaces, ids are those of the table.      *)
Agree(ids, files, table) ==
  {c \in ToSet(ids) : c[1] \notin files} = {c \in table \cap EmbChunks : c[1] \notin files}

ShardsAgree ==
  \A r \in Resident : exact[r] => Agree(shard[r].ids, run[r].files, chunk[r])

ScansAgree ==
  \A t \in Tasks : pc[t] = "install" /\ t \notin outdated =>
    Agree(loaded[t].ids, run[repo[t]].files, chunk[repo[t]])

ExactInv ==
  FlightInv /\ TablesOk /\ ShardsOk /\ MiscOk /\ ShardsAgree /\ ScansAgree

(* Agreement outside files survives a change of the table inside them.     *)
LEMMA AgreeKeeps ==
  ASSUME NEW ids, NEW f, NEW g, NEW table, NEW tableNew, Agree(ids, f, table),
         f \subseteq g,
         \A c : c[1] \notin g => (c \in table <=> c \in tableNew)
  PROVE  Agree(ids, g, tableNew)
BY DEF Agree

(* A step of the run of r that leaves the shards as they are.              *)
LEMMA RunStepKeeps ==
  ASSUME ExactInv, FlightInv', TablesOk', NEW r \in Repos,
         UNCHANGED <<index, pc, repo, warm, queries, outdated, exact>>,
         run[r].files \subseteq run'[r].files,
         \A c : c[1] \notin run'[r].files => (c \in chunk[r] <=> c \in chunk'[r]),
         \A x \in Repos \ {r} : run'[x] = run[x] /\ chunk'[x] = chunk[x]
  PROVE  ExactInv'
<1>1. ShardsOk' /\ MiscOk'
  BY DEF ExactInv, ShardsOk, MiscOk, Resident, index, warm
<1>2. ASSUME NEW ids, NEW x \in Repos, Agree(ids, run[x].files, chunk[x])
      PROVE  Agree(ids, run'[x].files, chunk'[x])
  <2>1. CASE x = r
    BY <1>2, <2>1, AgreeKeeps
  <2>2. CASE x # r
    BY <1>2, <2>2
  <2> QED
    BY <2>1, <2>2
<1>3. Resident \subseteq Repos
  BY DEF ExactInv, ShardsOk, Resident, ToSet
<1>4. ShardsAgree'
  BY <1>2, <1>3 DEF ExactInv, ShardsAgree, Resident, index
<1>5. ScansAgree'
  BY <1>2 DEF ExactInv, ScansAgree, FlightInv, warm
<1> QED
  BY <1>1, <1>4, <1>5 DEF ExactInv

(* A step after which the scans of r are outdated.                         *)
LEMMA OutdateKeeps ==
  ASSUME ExactInv, FlightInv', TablesOk', NEW r \in Repos,
         UNCHANGED <<pc, repo, warm, queries>>, Outdate(r),
         exact' \in [Repos -> BOOLEAN], ShardsOk',
         \A x \in Repos \ {r} :
           /\ run'[x] = run[x] /\ chunk'[x] = chunk[x]
           /\ x \in Resident' => x \in Resident
           /\ (x \in Resident' /\ exact'[x]) => (exact[x] /\ shard'[x] = shard[x]),
         (r \in Resident' /\ exact'[r]) => Agree(shard'[r].ids, run'[r].files, chunk'[r])
  PROVE  ExactInv'
<1>1. MiscOk'
  BY DEF ExactInv, MiscOk, warm, Outdate
<1>2. Resident' \subseteq Repos
  BY DEF ShardsOk, Resident, ToSet
<1>3. ShardsAgree'
  <2> SUFFICES ASSUME NEW x \in Resident', exact'[x]
               PROVE  Agree(shard'[x].ids, run'[x].files, chunk'[x])
    BY DEF ShardsAgree
  <2>1. CASE x = r
    BY <2>1
  <2>2. CASE x # r
    BY <1>2, <2>2 DEF ExactInv, ShardsAgree
  <2> QED
    BY <2>1, <2>2
<1>4. ScansAgree'
  <2> SUFFICES ASSUME NEW t \in Tasks, pc[t] = "install", t \notin outdated'
               PROVE  Agree(loaded[t].ids, run'[repo[t]].files, chunk'[repo[t]])
    BY DEF ScansAgree, warm
  <2>1. repo[t] \in Repos
    BY DEF ExactInv, FlightInv
  <2>2. repo[t] # r /\ t \notin outdated
    BY DEF Outdate
  <2> QED
    BY <2>1, <2>2 DEF ExactInv, ScansAgree
<1> QED
  BY <1>1, <1>3, <1>4 DEF ExactInv

(* A task leaves its scan, or has none.                                    *)
LEMMA TaskKeeps ==
  ASSUME ExactInv, FlightInv', TablesOk', NEW t \in Tasks,
         UNCHANGED <<run, chunk>>, pc'[t] # "install",
         \A u \in Tasks \ {t} : /\ pc'[u] = pc[u] /\ repo'[u] = repo[u]
                                /\ loaded'[u] = loaded[u]
                                /\ u \notin outdated' => u \notin outdated,
         ShardsOk', MiscOk', ShardsAgree'
  PROVE  ExactInv'
<1>1. ScansAgree'
  BY DEF ExactInv, ScansAgree
<1> QED
  BY <1>1 DEF ExactInv

(* A task that leaves its warm-up drops what it has scanned.               *)
LEMMA AfterWarmMisc ==
  ASSUME ExactInv, NEW t \in Tasks, AfterWarm(t), UNCHANGED <<cold, queries>>,
         exact' \in [Repos -> BOOLEAN]
  PROVE  /\ MiscOk' /\ pc'[t] # "install"
         /\ \A u \in Tasks \ {t} : /\ pc'[u] = pc[u] /\ repo'[u] = repo[u]
                                   /\ loaded'[u] = loaded[u]
                                   /\ u \notin outdated' => u \notin outdated
<1>1. /\ loaded \in [Tasks -> Tight] /\ pc \in [Tasks -> Places]
      /\ repo \in [Tasks -> Repos \cup {NoRepo}]
  BY DEF ExactInv, MiscOk, FlightInv
<1>2. loaded' \in [Tasks -> Tight] /\ \A u \in Tasks \ {t} : loaded'[u] = loaded[u]
  BY <1>1, EmptyTight DEF AfterWarm
<1>3. /\ pc'[t] # "install"
      /\ \A u \in Tasks \ {t} : pc'[u] = pc[u] /\ repo'[u] = repo[u]
  BY <1>1 DEF AfterWarm, Goto
<1>4. MiscOk'
  BY <1>2 DEF ExactInv, MiscOk, AfterWarm
<1> QED
  BY <1>2, <1>3, <1>4 DEF AfterWarm

(* After a run the shard agrees with the whole table.                      *)
LEMMA PatchIs ==
  ASSUME ExactInv, NEW r \in Repos, PatchShard(r)
  PROVE  /\ ShardsOk' /\ Resident' \subseteq Resident \cup {r}
         /\ \A x \in Resident' \ {r} : shard'[x] = shard[x]
         /\ (r \in Resident' /\ exact'[r]) => Agree(shard'[r].ids, {}, chunk[r])
<1> DEFINE x == run[r]
<1>1. /\ ShardsOk /\ shard[r] \in Tight /\ RunOk(x, chunk[r], FilesOf[r])
      /\ x.phase = "patch" /\ x.new \in Seq(Chunks) /\ x.files \subseteq FilesOf[r]
      /\ IsFiniteSet(x.files)
  <2>1. /\ ShardsOk /\ shard[r] \in Tight /\ RunOk(x, chunk[r], FilesOf[r])
        /\ x.phase = "patch"
    BY DEF PatchShard, ExactInv, ShardsOk, TablesOk
  <2>2. x.new \in Seq(Chunks) /\ x.files \subseteq FilesOf[r]
    BY <2>1 DEF RunOk, RunRecord
  <2>3. IsFiniteSet(x.files)
    BY <2>2, FS_Subset, ShardAssumption
  <2> QED
    BY <2>1, <2>2, <2>3
<1>2. {c \in chunk[r] : c[1] \in x.files} = ToSet(x.new) /\ chunk[r] \subseteq OfFiles(FilesOf[r])
  BY <1>1 DEF RunOk
<1>3. exact'[r] <=> (x.kind = "rebuild" \/ (exact[r] /\ r \in Resident))
  BY DEF PatchShard, ExactInv, MiscOk
<1>4. CASE x.kind = "rebuild"
  <2> DEFINE s == V!Insert(V!EmptyShard, x.new)
  <2>1. Settle(r, s)
    BY <1>4 DEF PatchShard, ReplaceRepo, InstallShard
  <2>2. s \in Tight /\ ToSet(s.ids) = ToSet(x.new) \cap EmbChunks
    <3>1. V!EmptyShard \in Loose /\ ToSet(V!EmptyShard.ids) = {}
      BY EmptyTight DEF Tight, V!EmptyShard, ToSet
    <3> QED
      BY <1>1, <3>1, EmptyTight, InsertIs
  <2> HIDE DEF s
  <2>3. /\ ShardsOk' /\ Resident' \subseteq Resident \cup {r}
        /\ \A y \in Resident' : shard'[y] = IF y = r THEN s ELSE shard[y]
    BY <1>1, <2>1, <2>2, SettleIs
  <2>4. ToSet(x.new) = chunk[r]
    BY <1>1, <1>2, <1>4 DEF RunOk, OfFiles
  <2>5. Agree(s.ids, {}, chunk[r])
    BY <2>2, <2>4 DEF Agree
  <2> QED
    BY <2>3, <2>5
<1>5. CASE x.kind # "rebuild"
  <2>1. ApplyIncremental(r, x.files, x.new)
    BY <1>5 DEF PatchShard
  <2>2. PICK s \in Tight :
          /\ Settle(r, s)
          /\ ToSet(s.ids) = (ToSet(shard[r].ids) \ OfFiles(x.files))
                              \cup (ToSet(x.new) \cap EmbChunks)
    BY <1>1, <2>1, ApplyIncrementalIs
  <2>3. /\ ShardsOk' /\ Resident' \subseteq Resident \cup {r}
        /\ \A y \in Resident' : shard'[y] = IF y = r THEN s ELSE shard[y]
    BY <1>1, <2>2, SettleIs
  <2>4. ASSUME exact'[r] PROVE Agree(s.ids, {}, chunk[r])
    <3>1. Agree(shard[r].ids, x.files, chunk[r])
      BY <1>3, <1>5, <2>4 DEF ExactInv, ShardsAgree
    <3>2. ToSet(shard[r].ids) \subseteq Chunks
      <4>1. shard[r].ids \in Seq(EmbChunks)
        BY <1>1 DEF Tight, Loose
      <4>2. ToSet(shard[r].ids) \subseteq EmbChunks
        BY <4>1, InToSet
      <4> QED
        BY <4>2 DEF EmbChunks
    <3>3. {c \in ToSet(shard[r].ids) : c[1] \notin x.files} = ToSet(shard[r].ids) \ OfFiles(x.files)
      BY <3>2 DEF OfFiles
    <3> QED
      BY ONLY <1>2, <2>2, <3>1, <3>3 DEF Agree
  <2> QED
    BY <2>3, <2>4
<1> QED
  BY <1>4, <1>5

(* A removed repository is no longer resident.                             *)
LEMMA RemoveRepoIs ==
  ASSUME ShardsOk, NEW r \in Repos, RemoveRepo(r)
  PROVE  ShardsOk' /\ Resident' = Resident \ {r}
<1> DEFINE gone == {c \in Chunks : c[1] \in FilesOf[r]}
<1>1. shard \in [Repos -> Tight] /\ \A x \in Repos \ Resident : shard[x] = V!EmptyShard
  BY DEF ShardsOk
<1>2. lru' \in Seq(Repos) /\ Distinct(lru') /\ Resident' = Resident \ {r}
  BY WithoutIs DEF RemoveRepo, Resident
<1>3. shard' = [x \in Repos |-> IF x = r THEN V!EmptyShard
                                ELSE V!RemoveMatching(shard[x], gone)]
  BY DEF RemoveRepo
<1> HIDE DEF gone
<1>4. \A s \in Tight : V!RemoveMatching(s, gone) \in Tight
  BY RemoveMatchingIs DEF Tight
<1>5. V!RemoveMatching(V!EmptyShard, gone) = V!EmptyShard
  <2> DEFINE t == V!RemoveMatching(V!EmptyShard, gone)
  <2>1. V!EmptyShard \in Loose
    BY EmptyTight DEF Tight
  <2>2. t \in Tight /\ ToSet(t.ids) = ToSet(V!EmptyShard.ids) \ gone
    BY <2>1, RemoveMatchingIs
  <2>3. ToSet(V!EmptyShard.ids) = {}
    BY DEF V!EmptyShard, ToSet
  <2> HIDE DEF t
  <2>4. t = V!EmptyShard
    BY <2>2, <2>3, TightEmpty
  <2> QED
    BY <2>4 DEF t
<1>6. shard' \in [Repos -> Tight]
  BY <1>1, <1>3, <1>4, EmptyTight
<1>7. \A x \in Repos \ Resident' : shard'[x] = V!EmptyShard
  BY <1>1, <1>2, <1>3, <1>5
<1> QED
  BY ONLY <1>2, <1>6, <1>7 DEF ShardsOk

(* The steps of runs, ignored files and deletions keep the invariant.      *)
LEMMA RunActionsKeep ==
  ASSUME ExactInv, FlightInv', TablesOk', NEW r \in Repos,
         \/ StartRebuild(r)
         \/ \E f \in FilesOf[r] : StartIncremental(r, f) \/ StartIgnore(r, f)
                                    \/ WriteRows(r, f)
         \/ DeleteRows(r) \/ EndStream(r) \/ PatchShard(r) \/ AbortRun(r)
         \/ ClearRepoIndex(r) \/ RemoveIndexDir(r)
  PROVE  ExactInv'
<1>1. /\ run \in [Repos -> RunRecord] /\ chunk \in [Repos -> SUBSET Chunks]
      /\ RunOk(run[r], chunk[r], FilesOf[r]) /\ exact \in [Repos -> BOOLEAN]
      /\ ShardsOk
  BY DEF ExactInv, TablesOk, MiscOk
<1>2. ASSUME NEW kind, NEW files, BeginRun(r, kind, files) PROVE ExactInv'
  <2>1. /\ UNCHANGED <<index, pc, repo, warm, queries, outdated, exact>>
        /\ run[r].phase = "idle" /\ chunk' = chunk
        /\ \A x \in Repos \ {r} : run'[x] = run[x]
    BY <1>1, <1>2 DEF BeginRun
  <2>2. run[r].files = {}
    BY <1>1, <2>1 DEF RunOk, NoRun
  <2> QED
    BY <2>1, <2>2, RunStepKeeps
<1>3. ASSUME NEW f \in FilesOf[r], WriteRows(r, f) PROVE ExactInv'
  <2> DEFINE new == [n \in 1 .. ChunksOf[f] |-> <<f, n, runs>>]
  <2>1. /\ UNCHANGED <<index, pc, repo, warm, queries, outdated, exact>>
        /\ run'[r].files = run[r].files /\ f \in run[r].files
        /\ chunk'[r] = chunk[r] \cup ToSet(new)
        /\ \A x \in Repos \ {r} : run'[x] = run[x] /\ chunk'[x] = chunk[x]
    BY <1>1, <1>3 DEF WriteRows, RunRecord
  <2>2. \A c \in ToSet(new) : c[1] = f
    <3>1. \A i \in DOMAIN new : new[i][1] = f
      OBVIOUS
    <3> HIDE DEF new
    <3> QED
      BY <3>1 DEF ToSet
  <2> HIDE DEF new
  <2>3. \A c : c[1] \notin run'[r].files => (c \in chunk[r] <=> c \in chunk'[r])
    BY <2>1, <2>2
  <2> QED
    BY <2>1, <2>3, RunStepKeeps
<1>4. CASE DeleteRows(r)
  <2>1. /\ UNCHANGED <<index, pc, repo, warm, queries, outdated, exact>>
        /\ run'[r].files = run[r].files
        /\ chunk'[r] = {c \in chunk[r] : c[1] \notin run[r].files}
        /\ \A x \in Repos \ {r} : run'[x] = run[x] /\ chunk'[x] = chunk[x]
    BY <1>1, <1>4 DEF DeleteRows, RunRecord
  <2> QED
    BY <2>1, RunStepKeeps
<1>5. CASE EndStream(r)
  <2>1. /\ UNCHANGED <<index, pc, repo, warm, queries, outdated, exact>>
        /\ run'[r].files = run[r].files /\ chunk' = chunk
        /\ \A x \in Repos \ {r} : run'[x] = run[x]
    BY <1>1, <1>5 DEF EndStream, RunRecord
  <2> QED
    BY <2>1, RunStepKeeps
<1>6. CASE PatchShard(r)
  <2>1. /\ UNCHANGED <<pc, repo, warm, queries>> /\ Outdate(r) /\ chunk' = chunk
        /\ run' = [run EXCEPT ![r] = NoRun]
        /\ exact' = [exact EXCEPT ![r] = run[r].kind = "rebuild" \/ (exact[r] /\ r \in Resident)]
    BY <1>6 DEF PatchShard
  <2>2. /\ ShardsOk' /\ Resident' \subseteq Resident \cup {r}
        /\ \A x \in Resident' \ {r} : shard'[x] = shard[x]
        /\ (r \in Resident' /\ exact'[r]) => Agree(shard'[r].ids, {}, chunk[r])
    BY <1>6, PatchIs
  <2>3. exact' \in [Repos -> BOOLEAN] /\ \A x \in Repos \ {r} : exact'[x] = exact[x]
    BY <1>1, <2>1
  <2>4. run'[r].files = {} /\ \A x \in Repos \ {r} : run'[x] = run[x]
    BY <1>1, <2>1 DEF NoRun
  <2> QED
    BY <2>1, <2>2, <2>3, <2>4, OutdateKeeps
<1>7. CASE AbortRun(r)
  <2>1. /\ UNCHANGED <<pc, repo, warm, queries, index>> /\ Outdate(r) /\ chunk' = chunk
        /\ \A x \in Repos \ {r} : run'[x] = run[x] /\ exact'[x] = exact[x]
        /\ exact' \in [Repos -> BOOLEAN] /\ exact'[r] = FALSE
    BY <1>1, <1>7 DEF AbortRun
  <2>2. ShardsOk' /\ Resident' = Resident /\ shard' = shard
    BY <1>1, <2>1 DEF ShardsOk, Resident, index
  <2> QED
    BY <2>1, <2>2, OutdateKeeps
<1>8. CASE RemoveIndexDir(r)
  <2>1. /\ UNCHANGED <<pc, repo, warm, queries, index>> /\ Outdate(r)
        /\ \A x \in Repos \ {r} : run'[x] = run[x] /\ exact'[x] = exact[x] /\ chunk'[x] = chunk[x]
        /\ exact' \in [Repos -> BOOLEAN] /\ exact'[r] = FALSE
    BY <1>1, <1>8 DEF RemoveIndexDir
  <2>2. ShardsOk' /\ Resident' = Resident /\ shard' = shard
    BY <1>1, <2>1 DEF ShardsOk, Resident, index
  <2> QED
    BY <2>1, <2>2, OutdateKeeps
<1>9. CASE ClearRepoIndex(r)
  <2>1. /\ UNCHANGED <<pc, repo, warm, queries>> /\ Outdate(r) /\ chunk' = chunk
        /\ \A x \in Repos \ {r} : run'[x] = run[x]
        /\ RemoveRepo(r)
    BY <1>1, <1>9 DEF ClearRepoIndex
  <2>2. exact' = [x \in Repos |-> IF x = r THEN TRUE ELSE exact[x] /\ shard'[x] = shard[x]]
    BY <1>9 DEF ClearRepoIndex
  <2>3. ShardsOk' /\ Resident' = Resident \ {r}
    BY <1>1, <2>1, RemoveRepoIs
  <2>4. exact' \in [Repos -> BOOLEAN]
    BY <1>1, <2>2
  <2>5. \A x \in Repos \ {r} : exact'[x] => (exact[x] /\ shard'[x] = shard[x])
    BY <2>2
  <2> QED
    BY <2>1, <2>3, <2>4, <2>5, OutdateKeeps
<1> QED
  BY <1>2, <1>3, <1>4, <1>5, <1>6, <1>7, <1>8, <1>9 DEF StartRebuild, StartIncremental, StartIgnore

(* The steps of queries and warm-ups keep the invariant.                   *)
LEMMA TaskActionsKeep ==
  ASSUME ExactInv, FlightInv', TablesOk', NEW t \in Tasks,
         \/ \E r \in Repos : Query(t, r) \/ WarmInBackground(t, r)
         \/ Warm(t) \/ Timeout(t) \/ Answer(t)
  PROVE  ExactInv'
<1>1. /\ ShardsOk /\ MiscOk /\ TablesOk /\ ShardsAgree /\ ScansAgree /\ FlightInv
      /\ pc \in [Tasks -> Places] /\ repo \in [Tasks -> Repos \cup {NoRepo}]
      /\ exact \in [Repos -> BOOLEAN]
  BY DEF ExactInv, FlightInv, MiscOk
<1>2. ASSUME UNCHANGED <<index, run, chunk, exact>>
      PROVE  ShardsOk' /\ ShardsAgree'
  BY <1>1, <1>2 DEF ShardsOk, ShardsAgree, Resident, index
<1>3. ASSUME NEW r \in Repos, Query(t, r) \/ WarmInBackground(t, r) PROVE ExactInv'
  <2>1. /\ UNCHANGED <<index, run, chunk, exact, loaded, outdated>>
        /\ pc'[t] # "install"
        /\ \A u \in Tasks \ {t} : pc'[u] = pc[u] /\ repo'[u] = repo[u]
    BY <1>1, <1>3 DEF Query, WarmInBackground, Goto, warm
  <2>2. MiscOk'
    BY <1>1, <1>3, ShardAssumption DEF MiscOk, Query, WarmInBackground, warm
  <2> QED
    BY <1>2, <2>1, <2>2, TaskKeeps
<1>4. CASE TakeWarmLock(t)
  <2>1. /\ UNCHANGED <<index, run, chunk, exact, loaded, outdated, repo>>
        /\ pc'[t] # "install"
        /\ \A u \in Tasks \ {t} : pc'[u] = pc[u]
    BY <1>1, <1>4 DEF TakeWarmLock, Goto
  <2>2. MiscOk'
    BY <1>1, <1>4 DEF MiscOk, TakeWarmLock
  <2> QED
    BY <1>2, <2>1, <2>2, TaskKeeps
<1>5. ASSUME AfterWarm(t), UNCHANGED <<index, run, chunk, exact, cold, queries>>
      PROVE  ExactInv'
  <2>1. exact' \in [Repos -> BOOLEAN]
    BY <1>1, <1>5
  <2> QED
    BY <1>2, <1>5, <2>1, AfterWarmMisc, TaskKeeps
<1>6. CASE ScanFails(t) \/ Timeout(t)
  BY <1>5, <1>6 DEF ScanFails, Timeout
<1>7. CASE CheckResident(t)
  <2>1. CASE repo[t] \in Resident
    BY <1>5, <1>7, <2>1 DEF CheckResident
  <2>2. CASE repo[t] \notin Resident
    <3>1. /\ UNCHANGED <<index, run, chunk, exact, loaded, outdated, repo>>
          /\ pc'[t] # "install"
          /\ \A u \in Tasks \ {t} : pc'[u] = pc[u]
      BY <1>1, <1>7, <2>2 DEF CheckResident, Goto
    <3>2. MiscOk'
      BY <1>1, <1>7, <2>2 DEF MiscOk, CheckResident
    <3> QED
      BY <1>2, <3>1, <3>2, TaskKeeps
  <2> QED
    BY <2>1, <2>2
<1>8. CASE ScanTable(t)
  <2> DEFINE r == repo[t]
             s == V!Insert(V!EmptyShard, SetToSeq(chunk[r]))
  <2>1. /\ UNCHANGED <<index, run, chunk, exact, outdated, repo, cold, queries>>
        /\ \A u \in Tasks \ {t} : pc'[u] = pc[u]
        /\ loaded' = [loaded EXCEPT ![t] = s] /\ pc[t] = "scan"
    BY <1>1, <1>8 DEF ScanTable, Goto
  <2>2. r \in Repos /\ chunk[r] \subseteq Chunks
    BY <1>1, <2>1 DEF FlightInv, TablesOk
  <2>3. s \in Tight /\ ToSet(s.ids) = chunk[r] \cap EmbChunks
    <3>1. IsFiniteSet(chunk[r])
      BY <2>2, ChunksFinite, FS_Subset
    <3> DEFINE q == SetToSeq(chunk[r])
    <3>2. q \in Seq(chunk[r]) /\ ToSet(q) = chunk[r]
      BY <3>1, SetToSeqIs
    <3> HIDE DEF q
    <3>3. q \in Seq(Chunks)
      BY <2>2, <3>2, SeqMonotonic
    <3>4. V!EmptyShard \in Loose /\ ToSet(V!EmptyShard.ids) = {}
      BY EmptyTight DEF Tight, V!EmptyShard, ToSet
    <3>5. s = V!Insert(V!EmptyShard, q)
      BY DEF q
    <3> QED
      BY <3>2, <3>3, <3>4, <3>5, EmptyTight, InsertIs
  <2> HIDE DEF s
  <2>4. MiscOk'
    BY <1>1, <2>1, <2>3 DEF MiscOk
  <2>5. Agree(s.ids, run[r].files, chunk[r])
    BY <2>3 DEF Agree
  <2>6. loaded \in [Tasks -> Tight]
    BY <1>1 DEF MiscOk
  <2>7. ScansAgree'
    <3> SUFFICES ASSUME NEW u \in Tasks, pc'[u] = "install", u \notin outdated
                 PROVE  Agree(loaded'[u].ids, run[repo[u]].files, chunk[repo[u]])
      BY <2>1 DEF ScansAgree
    <3>1. CASE u = t
      BY <2>1, <2>5, <2>6, <3>1
    <3>2. CASE u # t
      BY <1>1, <2>1, <2>6, <3>2 DEF ScansAgree
    <3> QED
      BY <3>1, <3>2
  <2> QED
    BY <1>2, <2>1, <2>4, <2>7 DEF ExactInv
<1>9. CASE Install(t)
  <2> DEFINE r == repo[t]
             s == loaded[t]
  <2>1. /\ UNCHANGED <<run, chunk, cold, queries>> /\ AfterWarm(t) /\ pc[t] = "install"
    BY <1>9 DEF Install
  <2>2. r \in Repos /\ s \in Tight
    BY <1>1, <2>1 DEF FlightInv, MiscOk
  <2>3. CASE s.ids = <<>>
    BY <1>5, <1>9, <2>3 DEF Install
  <2>4. CASE s.ids # <<>>
    <3>1. Settle(r, s) /\ exact' = [exact EXCEPT ![r] = t \notin outdated]
      BY <1>9, <2>4 DEF Install, InstallShard
    <3>2. /\ ShardsOk' /\ Resident' \subseteq Resident \cup {r}
          /\ \A x \in Resident' : shard'[x] = IF x = r THEN s ELSE shard[x]
      BY <1>1, <2>2, <3>1, SettleIs
    <3>3. exact' \in [Repos -> BOOLEAN]
      BY <1>1, <3>1
    <3>4. Resident' \subseteq Repos
      BY <3>2 DEF ShardsOk, Resident, ToSet
    <3>5. ShardsAgree'
      <4> SUFFICES ASSUME NEW x \in Resident', exact'[x]
                   PROVE  Agree(shard'[x].ids, run[x].files, chunk[x])
        BY <2>1 DEF ShardsAgree
      <4>1. CASE x = r
        BY <1>1, <2>1, <2>2, <3>1, <3>2, <4>1 DEF ScansAgree
      <4>2. CASE x # r
        BY <1>1, <3>1, <3>2, <3>4, <4>2 DEF ShardsAgree
      <4> QED
        BY <4>1, <4>2
    <3>6. /\ MiscOk' /\ pc'[t] # "install"
          /\ \A u \in Tasks \ {t} : /\ pc'[u] = pc[u] /\ repo'[u] = repo[u]
                                    /\ loaded'[u] = loaded[u]
                                    /\ u \notin outdated' => u \notin outdated
      BY <2>1, <3>3, AfterWarmMisc
    <3> QED
      BY <2>1, <3>2, <3>5, <3>6, TaskKeeps
  <2> QED
    BY <2>3, <2>4
<1>10. CASE Answer(t)
  <2> DEFINE r == repo[t]
  <2>1. /\ UNCHANGED <<run, chunk, shard, exact, outdated, loaded, queries>>
        /\ pc[t] = "search" /\ pc'[t] # "install"
        /\ \A u \in Tasks \ {t} : pc'[u] = pc[u] /\ repo'[u] = repo[u]
    BY <1>1, <1>10 DEF Answer, Goto
  <2>2. r \in Repos
    BY <1>1, <2>1 DEF FlightInv
  <2>3. /\ lru' \in Seq(Repos) /\ Distinct(lru') /\ Resident' = Resident
        /\ cold' \subseteq Repos
    <3>1. CASE r \in Resident
      <4>1. lru' = Append(Without(r), r) /\ cold' = cold
        BY <1>10, <3>1 DEF Answer
      <4>2. /\ lru' \in Seq(Repos) /\ Distinct(lru')
            /\ ToSet(lru') = (Resident \ {r}) \cup {r}
        BY <1>1, <2>2, <4>1, WithoutIs, AppendOrder
      <4> QED
        BY <1>1, <3>1, <4>1, <4>2 DEF Resident, MiscOk
    <3>2. CASE r \notin Resident
      <4>1. lru' = lru /\ cold' = cold \cup {r}
        BY <1>10, <3>2 DEF Answer
      <4> QED
        BY <1>1, <2>2, <4>1 DEF ShardsOk, Resident, MiscOk
    <3> QED
      BY <3>1, <3>2
  <2>4. ShardsOk'
    BY <1>1, <2>1, <2>3 DEF ShardsOk
  <2>5. ShardsAgree'
    BY <1>1, <2>1, <2>3 DEF ShardsAgree
  <2>6. MiscOk'
    BY <1>1, <2>1, <2>3 DEF MiscOk
  <2> QED
    BY <2>1, <2>4, <2>5, <2>6, TaskKeeps
<1> QED
  BY <1>3, <1>4, <1>6, <1>7, <1>8, <1>9, <1>10 DEF Warm

(* Initially nothing is resident.                                          *)
LEMMA ExactInit == Init => ExactInv
<1> SUFFICES ASSUME Init PROVE ExactInv
  OBVIOUS
<1>1. FlightInv
  BY FlightInit
<1>2. ToSet(<<>>) = {} /\ <<>> \in Seq(Repos) /\ Distinct(<<>>)
  BY DEF ToSet, Distinct
<1>3. ShardsOk
  BY <1>2, EmptyTight DEF Init, ShardsOk, Resident
<1>4. MiscOk
  BY EmptyTight, ShardAssumption DEF Init, MiscOk
<1>5. TablesOk
  <2>1. /\ chunk = [r \in Repos |-> {c \in Chunks : c[1] \in FilesOf[r] /\ c[3] = 1}]
        /\ run = [r \in Repos |-> NoRun] /\ runs = 1
    BY DEF Init
  <2>2. \A r \in Repos : chunk[r] \subseteq OfFiles(FilesOf[r]) /\ chunk[r] \subseteq Chunks
    BY <2>1 DEF OfFiles
  <2>3. \A r \in Repos : RunOk(run[r], chunk[r], FilesOf[r])
    BY <2>1, <2>2, NoRunOk
  <2>4. chunk \in [Repos -> SUBSET Chunks]
    BY <2>1
  <2>5. run \in [Repos -> RunRecord]
    <3>1. NoRun \in RunRecord
      BY DEF NoRun, RunRecord
    <3> QED
      BY <2>1, <3>1
  <2>6. runs \in 1 .. MaxRuns
    BY <2>1, ShardAssumption
  <2> QED
    BY ONLY <2>2, <2>3, <2>4, <2>5, <2>6 DEF TablesOk
<1>6. ShardsAgree /\ ScansAgree
  BY <1>2 DEF Init, ShardsAgree, ScansAgree, Resident
<1> QED
  BY <1>1, <1>3, <1>4, <1>5, <1>6 DEF ExactInv

(* Every step keeps the invariant.                                         *)
LEMMA ExactStep == ExactInv /\ [Next]_vars => ExactInv'
<1> SUFFICES ASSUME ExactInv, [Next]_vars PROVE ExactInv'
  OBVIOUS
<1>1. FlightInv' /\ TablesOk'
  BY FlightStep, TablesStep DEF ExactInv
<1>2. CASE Next
  BY <1>1, <1>2, RunActionsKeep, TaskActionsKeep DEF Next
<1>3. CASE UNCHANGED vars
  BY <1>3 DEF vars, index, warm, ExactInv, FlightInv, TablesOk, ShardsOk, MiscOk, ShardsAgree,
     ScansAgree, Resident, SingleFlight, Locking
<1> QED
  BY <1>2, <1>3

(* Every shard and every scan is well formed at every moment: ids and flat *)
(* rows match in number, an empty shard has no dimension, whatever was     *)
(* inserted, removed by moving the last row, patched or evicted; and the   *)
(* recency order names each resident repository once.                      *)
THEOREM ShardTypes == Spec => []TypeOK
<1>1. ExactInv => TypeOK
  <2> SUFFICES ASSUME ExactInv PROVE TypeOK
    OBVIOUS
  <2>1. FlightInv /\ TablesOk /\ ShardsOk /\ MiscOk
    BY DEF ExactInv
  <2>2. ASSUME NEW r \in Repos
        PROVE  /\ chunk[r] \subseteq Chunks
               /\ V!IsShard(shard[r])
               /\ r \notin Resident => shard[r] = V!EmptyShard
               /\ run[r].phase \in {"idle", "delete", "write", "patch"}
               /\ run[r].kind \in {"none", "rebuild", "incremental", "ignore", "deletion"}
               /\ run[r].files \subseteq FilesOf[r]
               /\ warmLock[r] \in Tasks \cup {Nobody}
    <3>1. shard[r] \in Tight /\ (r \notin Resident => shard[r] = V!EmptyShard)
      BY <2>1 DEF ShardsOk
    <3>2. run[r] \in RunRecord /\ chunk[r] \subseteq Chunks /\ run[r].files \subseteq FilesOf[r]
      BY <2>1 DEF TablesOk, RunOk
    <3> QED
      BY <2>1, <3>1, <3>2, TightIsShard DEF RunRecord, FlightInv
  <2>3. lru \in Seq(Repos) /\ Cardinality(Resident) = Len(lru)
    BY <2>1, DistinctCount DEF ShardsOk, Resident
  <2>4. ASSUME NEW t \in Tasks
        PROVE  /\ pc[t] \in {"idle", "lock", "check", "scan", "install", "search"}
               /\ repo[t] \in Repos \cup {NoRepo}
               /\ V!IsShard(loaded[t])
    <3>1. loaded[t] \in Tight
      BY <2>1 DEF MiscOk
    <3> QED
      BY <2>1, <3>1, TightIsShard DEF FlightInv, Places
  <2>5. /\ awaited \in [Tasks -> BOOLEAN]
        /\ cold \subseteq Repos /\ outdated \subseteq Tasks
        /\ runs \in 0 .. MaxRuns /\ queries \in 0 .. MaxQueries
    BY <2>1, ShardAssumption DEF FlightInv, MiscOk, TablesOk
  <2> QED
    BY ONLY <2>2, <2>3, <2>4, <2>5 DEF TypeOK
<1> QED
  BY <1>1, ExactInit, ExactStep, PTL DEF Spec

(* While no run of its repository is under way, a resident shard holds the *)
(* embedded chunks of the table and each with its own vector, however      *)
(* scans without the repository lock interleave with runs, ignored files,  *)
(* deletions and evictions, but for the four cases that `exact` names.     *)
THEOREM ResidentShardsAreExact == Spec => []ResidentExact
<1>1. ExactInv => ResidentExact
  <2> SUFFICES ASSUME ExactInv, NEW r \in Resident, run[r].phase = "idle", exact[r]
               PROVE  V!Contents(shard[r]) = {<<c, VecOf(c)>> : c \in Embedded(r)}
    BY DEF ResidentExact
  <2>1. r \in Repos
    BY DEF ExactInv, ShardsOk, Resident, ToSet
  <2>2. shard[r] \in Loose
    BY <2>1 DEF ExactInv, ShardsOk, Tight
  <2>3. run[r].files = {} /\ chunk[r] \subseteq Chunks
    BY <2>1 DEF ExactInv, TablesOk, RunOk, NoRun
  <2>4. ToSet(shard[r].ids) = chunk[r] \cap EmbChunks
    BY <2>3 DEF ExactInv, ShardsAgree, Agree
  <2>5. Embedded(r) = chunk[r] \cap EmbChunks
    BY <2>3, VecIs DEF Embedded
  <2> QED
    BY <2>2, <2>4, <2>5, ContentsIs
<1> QED
  BY <1>1, ExactInit, ExactStep, PTL DEF Spec

-----------------------------------------------------------------------------
(* No shard, scan or run has a chunk twice.                                *)

ShardsOnce == \A r \in Repos : Distinct(shard[r].ids)
ScansOnce == \A t \in Tasks : Distinct(loaded[t].ids)
RunsOnce == \A r \in Repos : Distinct(run[r].new)
OnceInv == ExactInv /\ ShardsOnce /\ ScansOnce /\ RunsOnce

LEMMA EmptyOnce == Distinct(<<>>) /\ Distinct(V!EmptyShard.ids)
BY DEF Distinct, V!EmptyShard

(* Two sequences without a common element.                                 *)
LEMMA DistinctCat ==
  ASSUME NEW A, NEW s \in Seq(A), NEW t \in Seq(A), Distinct(s), Distinct(t),
         \A i \in 1 .. Len(s) : \A j \in 1 .. Len(t) : s[i] # t[j]
  PROVE  Distinct(s \o t)
<1> PICK q : q = s \o t
  OBVIOUS
<1>1. /\ Len(s) \in Nat /\ Len(t) \in Nat /\ Len(q) = Len(s) + Len(t)
      /\ \A i \in 1 .. Len(s) : q[i] = s[i]
      /\ \A j \in 1 .. Len(t) : q[Len(s) + j] = t[j]
  BY CatAt
<1> SUFFICES ASSUME NEW i \in 1 .. Len(q), NEW j \in 1 .. Len(q), q[i] = q[j] PROVE i = j
  BY DEF Distinct
<1>2. ASSUME NEW k \in 1 .. Len(q)
      PROVE  k \in 1 .. Len(s) \/ \E l \in 1 .. Len(t) : k = Len(s) + l
  <2>1. k > Len(s) => k - Len(s) \in 1 .. Len(t) /\ k = Len(s) + (k - Len(s))
    BY <1>1
  <2> QED
    BY <1>1, <2>1
<1>3. CASE i \in 1 .. Len(s) /\ j \in 1 .. Len(s)
  BY <1>1, <1>3 DEF Distinct
<1>4. ASSUME NEW k \in 1 .. Len(t), NEW l \in 1 .. Len(t), i = Len(s) + k, j = Len(s) + l
      PROVE  i = j
  BY <1>1, <1>4 DEF Distinct
<1>5. ~(i \in 1 .. Len(s) /\ \E l \in 1 .. Len(t) : j = Len(s) + l)
  BY <1>1
<1>6. ~(j \in 1 .. Len(s) /\ \E l \in 1 .. Len(t) : i = Len(s) + l)
  BY <1>1
<1> QED
  BY ONLY <1>2, <1>3, <1>4, <1>5, <1>6, i \in 1 .. Len(q), j \in 1 .. Len(q)

(* A run stores a file once.                                               *)
LEMMA WriteOnce ==
  ASSUME TablesOk, RunsOnce, NEW r \in Repos, NEW f \in FilesOf[r], WriteRows(r, f)
  PROVE  RunsOnce'
<1> DEFINE new == [n \in 1 .. ChunksOf[f] |-> <<f, n, runs>>]
           old == run[r].new
<1>1. /\ run' = [run EXCEPT ![r].new = old \o new] /\ run \in [Repos -> RunRecord]
      /\ \A i \in DOMAIN old : old[i][1] # f
  BY DEF WriteRows, TablesOk
<1>2. f \in AllFiles /\ ChunksOf[f] \in Nat
  BY FileOfRepo, ShardAssumption
<1> DEFINE A == Chunks \cup {<<f, n, runs>> : n \in 1 .. ChunksOf[f]}
<1>3. old \in Seq(A) /\ Len(old) \in Nat /\ DOMAIN old = 1 .. Len(old)
  <2>1. old \in Seq(Chunks)
    BY <1>1 DEF RunRecord
  <2> HIDE DEF old, new
  <2> QED
    BY <2>1, SeqMonotonic
<1>4. new \in Seq(A) /\ Len(new) = ChunksOf[f] /\ \A n \in 1 .. ChunksOf[f] : new[n] = <<f, n, runs>>
  BY <1>2
<1> HIDE DEF new, old, A
<1>5. Distinct(old) /\ Distinct(new)
  BY <1>4 DEF RunsOnce, Distinct, old
<1>6. \A i \in 1 .. Len(old) : \A j \in 1 .. Len(new) : old[i] # new[j]
  BY <1>1, <1>3, <1>4
<1>7. Distinct(old \o new)
  BY ONLY <1>3, <1>4, <1>5, <1>6, DistinctCat
<1> SUFFICES ASSUME NEW x \in Repos PROVE Distinct(run'[x].new)
  BY DEF RunsOnce
<1>8. CASE x = r
  <2>1. run'[r].new = old \o new
    BY <1>1 DEF RunRecord
  <2> QED
    BY <1>7, <1>8, <2>1
<1>9. CASE x # r
  <2>1. run'[x] = run[x]
    BY <1>1, <1>9
  <2> QED
    BY <2>1 DEF RunsOnce
<1> QED
  BY <1>8, <1>9

(* The other steps of a run keep what it has stored, or forget it.         *)
LEMMA RunsOnceStep == TablesOk /\ RunsOnce /\ [Next]_vars => RunsOnce'
<1> SUFFICES ASSUME TablesOk, RunsOnce, [Next]_vars PROVE RunsOnce'
  OBVIOUS
<1>1. run \in [Repos -> RunRecord]
  BY DEF TablesOk
<1>2. ASSUME NEW r \in Repos, NEW x, run' = [run EXCEPT ![r] = x], x.new \in {<<>>, run[r].new}
      PROVE  RunsOnce'
  <2> SUFFICES ASSUME NEW y \in Repos PROVE Distinct(run'[y].new)
    BY DEF RunsOnce
  <2>1. run'[y].new \in {<<>>, run[y].new}
    BY <1>1, <1>2
  <2> QED
    BY <2>1, EmptyOnce DEF RunsOnce
<1>3. ASSUME run' = run PROVE RunsOnce'
  BY <1>3 DEF RunsOnce
<1>4. ASSUME NEW r \in Repos,
             \/ StartRebuild(r) \/ \E f \in FilesOf[r] : StartIncremental(r, f) \/ StartIgnore(r, f)
      PROVE  RunsOnce'
  <2>1. PICK kind, files : run' = [run EXCEPT ![r] = [phase |-> "delete", kind |-> kind,
                                                      files |-> files, new |-> <<>>]]
    BY <1>4 DEF StartRebuild, StartIncremental, StartIgnore, BeginRun
  <2> QED
    BY <1>2, <2>1
<1>5. ASSUME NEW r \in Repos, DeleteRows(r) \/ EndStream(r) PROVE RunsOnce'
  <2>1. PICK phase : run' = [run EXCEPT ![r].phase = phase]
    BY <1>5 DEF DeleteRows, EndStream
  <2> DEFINE x == [run[r] EXCEPT !.phase = phase]
  <2>2. run' = [run EXCEPT ![r] = x] /\ x.new = run[r].new
    BY <1>1, <2>1 DEF RunRecord
  <2> HIDE DEF x
  <2> QED
    BY <1>2, <2>2
<1>6. ASSUME NEW r \in Repos, PatchShard(r) \/ AbortRun(r) \/ RemoveIndexDir(r) PROVE RunsOnce'
  <2>1. run' = [run EXCEPT ![r] = NoRun] /\ NoRun.new = <<>>
    BY <1>6 DEF PatchShard, AbortRun, RemoveIndexDir, NoRun
  <2> QED
    BY <1>2, <2>1
<1>7. ASSUME NEW r \in Repos, ClearRepoIndex(r) PROVE RunsOnce'
  <2> DEFINE x == [run[r] EXCEPT !.phase = "delete", !.kind = "deletion"]
  <2>1. run' = [run EXCEPT ![r] = x] /\ x.new = run[r].new
    BY <1>1, <1>7 DEF ClearRepoIndex, RunRecord
  <2> HIDE DEF x
  <2> QED
    BY <1>2, <2>1
<1>8. ASSUME NEW t \in Tasks,
             \/ \E r \in Repos : Query(t, r) \/ WarmInBackground(t, r)
             \/ Warm(t) \/ Timeout(t) \/ Answer(t)
      PROVE  RunsOnce'
  <2>1. run' = run
    BY <1>8 DEF Query, WarmInBackground, Warm, TakeWarmLock, CheckResident, ScanTable, ScanFails,
       Install, Timeout, Answer
  <2> QED
    BY <1>3, <2>1
<1>9. CASE UNCHANGED vars
  BY <1>3, <1>9 DEF vars
<1> QED
  BY <1>4, <1>5, <1>6, <1>7, <1>8, <1>9, WriteOnce DEF Next

(* A scan has each row of the table once.                                  *)
LEMMA ScansOnceStep == ExactInv /\ ScansOnce /\ [Next]_vars => ScansOnce'
<1> SUFFICES ASSUME ExactInv, ScansOnce, [Next]_vars PROVE ScansOnce'
  OBVIOUS
<1>1. loaded \in [Tasks -> Tight] /\ repo \in [Tasks -> Repos \cup {NoRepo}]
  BY DEF ExactInv, MiscOk, FlightInv
<1>2. ASSUME NEW t \in Tasks, NEW s, loaded' = [loaded EXCEPT ![t] = s], Distinct(s.ids)
      PROVE  ScansOnce'
  <2> SUFFICES ASSUME NEW u \in Tasks PROVE Distinct(loaded'[u].ids)
    BY DEF ScansOnce
  <2>1. loaded'[u] = s \/ loaded'[u] = loaded[u]
    BY <1>1, <1>2
  <2> QED
    BY <1>2, <2>1 DEF ScansOnce
<1>3. ASSUME loaded' = loaded PROVE ScansOnce'
  BY <1>3 DEF ScansOnce
<1>4. ASSUME NEW t \in Tasks, AfterWarm(t) PROVE ScansOnce'
  BY <1>2, <1>4, EmptyOnce DEF AfterWarm
<1>5. ASSUME NEW t \in Tasks, ScanTable(t) PROVE ScansOnce'
  <2> DEFINE r == repo[t]
             q == SetToSeq(chunk[r])
             s == V!Insert(V!EmptyShard, q)
  <2>1. loaded' = [loaded EXCEPT ![t] = s] /\ pc[t] = "scan"
    BY <1>5 DEF ScanTable
  <2>2. chunk[r] \subseteq Chunks
    BY <2>1 DEF ExactInv, FlightInv, TablesOk
  <2>3. q \in Seq(chunk[r]) /\ Distinct(q)
    BY <2>2, ChunksFinite, FS_Subset, SetToSeqIs
  <2> HIDE DEF q
  <2>4. q \in Seq(Chunks)
    BY <2>2, <2>3, SeqMonotonic
  <2>5. V!EmptyShard \in Loose /\ ToSet(V!EmptyShard.ids) = {}
    BY EmptyTight DEF Tight, V!EmptyShard, ToSet
  <2>6. Distinct(s.ids)
    BY <2>3, <2>4, <2>5, EmptyOnce, InsertDistinct
  <2> HIDE DEF s
  <2> QED
    BY <1>2, <2>1, <2>6
<1>6. ASSUME NEW t \in Tasks, CheckResident(t) \/ ScanFails(t) \/ Install(t) \/ Timeout(t)
      PROVE  ScansOnce'
  BY <1>3, <1>4, <1>6 DEF CheckResident, ScanFails, Install, Timeout
<1>7. ASSUME NEW t \in Tasks,
             \/ \E r \in Repos : Query(t, r) \/ WarmInBackground(t, r)
             \/ TakeWarmLock(t) \/ Answer(t)
      PROVE  ScansOnce'
  BY <1>3, <1>7 DEF Query, WarmInBackground, TakeWarmLock, Answer, warm
<1>8. ASSUME NEW r \in Repos,
             \/ StartRebuild(r)
             \/ \E f \in FilesOf[r] : StartIncremental(r, f) \/ StartIgnore(r, f)
                                        \/ WriteRows(r, f)
             \/ DeleteRows(r) \/ EndStream(r) \/ PatchShard(r) \/ AbortRun(r)
             \/ ClearRepoIndex(r) \/ RemoveIndexDir(r)
      PROVE  ScansOnce'
  <2>1. loaded' = loaded
    BY <1>8 DEF StartRebuild, StartIncremental, StartIgnore, BeginRun, WriteRows, DeleteRows,
       EndStream, PatchShard, AbortRun, ClearRepoIndex, RemoveIndexDir, warm
  <2> QED
    BY <1>3, <2>1
<1>9. CASE UNCHANGED vars
  BY <1>3, <1>9 DEF vars, warm
<1> QED
  BY <1>5, <1>6, <1>7, <1>8, <1>9 DEF Next, Warm

(* A settled shard is the new one, the old ones stay or go.                *)
LEMMA SettleOnce ==
  ASSUME ShardsOk, ShardsOnce, NEW r \in Repos, NEW s, Settle(r, s), Distinct(s.ids)
  PROVE  ShardsOnce'
<1>1. shard \in [Repos -> Tight]
  BY DEF ShardsOk
<1>2. \A x \in Repos : shard'[x] \in {s, shard[x], V!EmptyShard}
  BY <1>1 DEF Settle, EvictRepo
<1> SUFFICES ASSUME NEW x \in Repos PROVE Distinct(shard'[x].ids)
  BY DEF ShardsOnce
<1> QED
  BY <1>2, EmptyOnce DEF ShardsOnce

(* A shard is patched with files it no longer holds.                       *)
LEMMA PatchOnce ==
  ASSUME OnceInv, NEW r \in Repos, PatchShard(r)
  PROVE  ShardsOnce'
<1> DEFINE x == run[r]
<1>1. /\ ShardsOk /\ ShardsOnce /\ shard[r] \in Tight /\ RunOk(x, chunk[r], FilesOf[r])
      /\ x.phase = "patch" /\ Distinct(x.new) /\ Distinct(shard[r].ids)
  BY DEF PatchShard, OnceInv, ExactInv, ShardsOk, TablesOk, ShardsOnce, RunsOnce
<1>2. x.new \in Seq(Chunks) /\ x.files \subseteq FilesOf[r] /\ IsFiniteSet(x.files)
  <2>1. x.new \in Seq(Chunks) /\ x.files \subseteq FilesOf[r]
    BY <1>1 DEF RunOk, RunRecord
  <2> QED
    BY <2>1, FS_Subset, ShardAssumption
<1>3. \A c \in ToSet(x.new) : c[1] \in x.files
  BY <1>1 DEF RunOk
<1>4. CASE x.kind = "rebuild"
  <2> DEFINE s == V!Insert(V!EmptyShard, x.new)
  <2>1. Settle(r, s)
    BY <1>4 DEF PatchShard, ReplaceRepo, InstallShard
  <2>2. V!EmptyShard \in Loose /\ ToSet(V!EmptyShard.ids) = {}
    BY EmptyTight DEF Tight, V!EmptyShard, ToSet
  <2>3. Distinct(s.ids)
    BY <1>1, <1>2, <2>2, EmptyOnce, InsertDistinct
  <2> HIDE DEF s
  <2> QED
    BY <1>1, <2>1, <2>3, SettleOnce
<1>5. CASE x.kind # "rebuild"
  <2>1. ApplyIncremental(r, x.files, x.new)
    BY <1>5 DEF PatchShard
  <2>2. PICK s \in Tight : Settle(r, s) /\ Distinct(s.ids)
    BY <1>1, <1>2, <1>3, <2>1, ApplyIncrementalIs
  <2> QED
    BY <1>1, <2>2, SettleOnce
<1> QED
  BY <1>4, <1>5

(* Every step keeps the shards without repetition.                         *)
LEMMA ShardsOnceStep == OnceInv /\ [Next]_vars => ShardsOnce'
<1> SUFFICES ASSUME OnceInv, [Next]_vars PROVE ShardsOnce'
  OBVIOUS
<1>1. /\ ShardsOk /\ ShardsOnce /\ ScansOnce /\ shard \in [Repos -> Tight]
      /\ FlightInv
  BY DEF OnceInv, ExactInv, ShardsOk
<1>2. ASSUME shard' = shard PROVE ShardsOnce'
  BY <1>1, <1>2 DEF ShardsOnce
<1>3. ASSUME NEW r \in Repos, ClearRepoIndex(r) PROVE ShardsOnce'
  <2> DEFINE gone == {c \in Chunks : c[1] \in FilesOf[r]}
  <2>1. shard' = [x \in Repos |-> IF x = r THEN V!EmptyShard
                                  ELSE V!RemoveMatching(shard[x], gone)]
    BY <1>3 DEF ClearRepoIndex, RemoveRepo
  <2> HIDE DEF gone
  <2>2. \A x \in Repos : Distinct(V!RemoveMatching(shard[x], gone).ids)
    BY <1>1, RemoveMatchingIs DEF ShardsOnce, Tight
  <2> SUFFICES ASSUME NEW x \in Repos PROVE Distinct(shard'[x].ids)
    BY DEF ShardsOnce
  <2>3. shard'[x] = V!EmptyShard \/ shard'[x] = V!RemoveMatching(shard[x], gone)
    BY <2>1
  <2> QED
    BY <2>2, <2>3, EmptyOnce
<1>4. ASSUME NEW t \in Tasks, Install(t) PROVE ShardsOnce'
  <2>1. CASE loaded[t].ids = <<>>
    BY <1>2, <1>4, <2>1 DEF Install, index
  <2>2. CASE loaded[t].ids # <<>>
    <3>1. Settle(repo[t], loaded[t]) /\ repo[t] \in Repos
      BY <1>1, <1>4, <2>2 DEF Install, InstallShard, FlightInv
    <3> QED
      BY <1>1, <3>1, SettleOnce DEF ScansOnce
  <2> QED
    BY <2>1, <2>2
<1>5. ASSUME NEW t \in Tasks,
             \/ \E r \in Repos : Query(t, r) \/ WarmInBackground(t, r)
             \/ TakeWarmLock(t) \/ CheckResident(t) \/ ScanTable(t) \/ ScanFails(t)
             \/ Timeout(t) \/ Answer(t)
      PROVE  ShardsOnce'
  <2>1. shard' = shard
    BY <1>5 DEF Query, WarmInBackground, TakeWarmLock, CheckResident, ScanTable, ScanFails,
       Timeout, Answer, index
  <2> QED
    BY <1>2, <2>1
<1>6. ASSUME NEW r \in Repos,
             \/ StartRebuild(r)
             \/ \E f \in FilesOf[r] : StartIncremental(r, f) \/ StartIgnore(r, f)
                                        \/ WriteRows(r, f)
             \/ DeleteRows(r) \/ EndStream(r) \/ AbortRun(r) \/ RemoveIndexDir(r)
      PROVE  ShardsOnce'
  <2>1. shard' = shard
    BY <1>6 DEF StartRebuild, StartIncremental, StartIgnore, BeginRun, WriteRows, DeleteRows,
       EndStream, AbortRun, RemoveIndexDir, index
  <2> QED
    BY <1>2, <2>1
<1>7. CASE UNCHANGED vars
  BY <1>2, <1>7 DEF vars, index
<1> QED
  BY <1>3, <1>4, <1>5, <1>6, <1>7, PatchOnce DEF Next, Warm

LEMMA OnceInit == Init => OnceInv
<1> SUFFICES ASSUME Init PROVE ShardsOnce /\ ScansOnce /\ RunsOnce
  BY ExactInit DEF OnceInv
<1> QED
  BY EmptyOnce DEF Init, ShardsOnce, ScansOnce, RunsOnce, NoRun

LEMMA OnceStep == OnceInv /\ [Next]_vars => OnceInv'
BY ExactStep, ShardsOnceStep, ScansOnceStep, RunsOnceStep DEF OnceInv, ExactInv

-----------------------------------------------------------------------------
(* A search finds the best.                                                *)

Hit == [id : Chunks, score : Int]

(* The hits of score k and better.                                         *)
AtLeast(hits, k) == {i \in DOMAIN hits : hits[i].score >= k}

Smaller(a, b) == IF a < b THEN a ELSE b

(* The module of a shard counts as this one does.                          *)
LEMMA SameCounts ==
  \A S : V!Cardinality(S) = Cardinality(S)
BY DEF V!Cardinality, Cardinality

LEMMA HitsAre ==
  ASSUME NEW hits \in Seq(Hit)
  PROVE  /\ DOMAIN hits = 1 .. Len(hits) /\ Len(hits) \in Nat
         /\ \A i \in 1 .. Len(hits) : hits[i] \in Hit /\ hits[i].score \in Int
<1>1. \A h \in Hit : h.score \in Int
  BY DEF Hit
<1> HIDE DEF Hit
<1>2. DOMAIN hits = 1 .. Len(hits) /\ Len(hits) \in Nat
  OBVIOUS
<1>3. \A i \in 1 .. Len(hits) : hits[i] \in Hit
  OBVIOUS
<1> QED
  BY <1>1, <1>2, <1>3

LEMMA IntervalPart ==
  ASSUME NEW n \in Nat, NEW S \in SUBSET (1 .. n)
  PROVE  /\ IsFiniteSet(S) /\ Cardinality(S) \in Nat /\ Cardinality(S) <= n
         /\ \A x \in (1 .. n) \ S : Cardinality(S) <= n - 1
<1>1. IsFiniteSet(1 .. n) /\ Cardinality(1 .. n) = n
  BY IntervalCount
<1>2. IsFiniteSet(S) /\ Cardinality(S) <= n
  BY <1>1, FS_Subset
<1>3. Cardinality(S) \in Nat
  BY <1>2, FS_CardinalityType
<1>4. ASSUME NEW x \in (1 .. n) \ S PROVE Cardinality(S) <= n - 1
  <2>1. IsFiniteSet((1 .. n) \ {x}) /\ Cardinality((1 .. n) \ {x}) = n - 1
    BY <1>1, FS_RemoveElement
  <2> PICK T : T = (1 .. n) \ {x}
    OBVIOUS
  <2>2. S \in SUBSET T
    BY <1>4
  <2>3. IsFiniteSet(T) /\ Cardinality(T) = n - 1
    BY <2>1
  <2>4. Cardinality(S) <= Cardinality(T)
    BY ONLY <2>2, <2>3, FS_Subset
  <2> QED
    BY <2>3, <2>4
<1> QED
  BY <1>2, <1>3, <1>4

(* A part of a set that lacks one of its elements is smaller.              *)
LEMMA SmallerPart ==
  ASSUME NEW T, IsFiniteSet(T), NEW S \in SUBSET T, NEW x \in T, x \notin S
  PROVE  /\ Cardinality(S) \in Nat /\ Cardinality(T) \in Nat
         /\ Cardinality(S) < Cardinality(T)
<1>1. IsFiniteSet(S) /\ Cardinality(S) <= Cardinality(T)
      /\ (Cardinality(T) = Cardinality(S) => T = S)
  BY FS_Subset
<1>2. Cardinality(S) \in Nat /\ Cardinality(T) \in Nat
  BY <1>1, FS_CardinalityType
<1> QED
  BY <1>1, <1>2

(* What is ahead of a hit: the hits ahead are ordered.                     *)
LEMMA AheadIs ==
  ASSUME NEW hits \in Seq(Hit), NEW j \in 1 .. Len(hits)
  PROVE  /\ V!Ahead(hits, j) \in SUBSET (1 .. Len(hits))
         /\ j \notin V!Ahead(hits, j)
         /\ \A i \in 1 .. Len(hits) :
              /\ i \in V!Ahead(hits, j) => V!Ahead(hits, i) \subseteq V!Ahead(hits, j)
              /\ i # j => i \in V!Ahead(hits, j) \/ j \in V!Ahead(hits, i)
<1>1. /\ DOMAIN hits = 1 .. Len(hits) /\ Len(hits) \in Nat
      /\ \A i \in 1 .. Len(hits) : hits[i].score \in Int
  BY HitsAre
<1> DEFINE s(i) == hits[i].score
<1>2. \A i, l \in 1 .. Len(hits) :
        l \in V!Ahead(hits, i) <=> (s(l) > s(i) \/ (s(l) = s(i) /\ l < i))
  BY <1>1 DEF V!Ahead
<1>3. V!Ahead(hits, j) \in SUBSET (1 .. Len(hits))
  BY <1>1 DEF V!Ahead
<1>4. j \notin V!Ahead(hits, j)
  BY <1>1, <1>2
<1>5. ASSUME NEW i \in 1 .. Len(hits), i \in V!Ahead(hits, j), NEW l \in V!Ahead(hits, i)
      PROVE  l \in V!Ahead(hits, j)
  <2>1. l \in 1 .. Len(hits)
    BY <1>1, <1>5 DEF V!Ahead
  <2>2. s(l) \in Int /\ s(i) \in Int /\ s(j) \in Int
    BY <1>1, <2>1
  <2>3. /\ s(l) > s(i) \/ (s(l) = s(i) /\ l < i)
        /\ s(i) > s(j) \/ (s(i) = s(j) /\ i < j)
    BY <1>2, <1>5, <2>1
  <2> HIDE DEF s
  <2>4. s(l) > s(j) \/ (s(l) = s(j) /\ l < j)
    BY <2>1, <2>2, <2>3
  <2> QED
    BY <1>2, <2>1, <2>4
<1>6. ASSUME NEW i \in 1 .. Len(hits), i # j
      PROVE  i \in V!Ahead(hits, j) \/ j \in V!Ahead(hits, i)
  <2>1. s(i) \in Int /\ s(j) \in Int
    BY <1>1
  <2> HIDE DEF s
  <2>2. s(i) > s(j) \/ s(j) > s(i) \/ (s(i) = s(j) /\ i < j) \/ (s(i) = s(j) /\ j < i)
    BY <1>6, <2>1
  <2> QED
    BY <1>2, <2>2
<1> QED
  BY <1>3, <1>4, <1>5, <1>6

(* The n-th hit has n - 1 ahead: every place is taken, since no two hits   *)
(* take the same one.                                                      *)
LEMMA NthIs ==
  ASSUME NEW hits \in Seq(Hit), NEW n \in 1 .. Len(hits)
  PROVE  /\ V!Nth(hits, n) \in 1 .. Len(hits)
         /\ Cardinality(V!Ahead(hits, V!Nth(hits, n))) = n - 1
<1> DEFINE N == Len(hits)
           place == [j \in 1 .. N |-> Cardinality(V!Ahead(hits, j)) + 1]
<1>1. DOMAIN hits = 1 .. N /\ N \in Nat
  BY HitsAre
<1>2. ASSUME NEW j \in 1 .. N
      PROVE  /\ IsFiniteSet(V!Ahead(hits, j))
             /\ Cardinality(V!Ahead(hits, j)) \in 0 .. N - 1
  <2>1. V!Ahead(hits, j) \in SUBSET (1 .. N) /\ j \notin V!Ahead(hits, j)
    BY AheadIs
  <2> HIDE DEF N
  <2>2. /\ IsFiniteSet(V!Ahead(hits, j)) /\ Cardinality(V!Ahead(hits, j)) \in Nat
        /\ Cardinality(V!Ahead(hits, j)) <= N - 1
    BY <1>1, <2>1, IntervalPart
  <2> QED
    BY <1>1, <2>2
<1>3. ASSUME NEW i \in 1 .. N, NEW j \in 1 .. N, i \in V!Ahead(hits, j)
      PROVE  Cardinality(V!Ahead(hits, i)) < Cardinality(V!Ahead(hits, j))
  <2>1. V!Ahead(hits, i) \subseteq V!Ahead(hits, j) /\ i \notin V!Ahead(hits, i)
    BY <1>3, AheadIs
  <2> QED
    BY <1>2, <1>3, <2>1, SmallerPart
<1>4. place \in [1 .. N -> 1 .. N]
  <2>1. \A j \in 1 .. N : Cardinality(V!Ahead(hits, j)) + 1 \in 1 .. N
    BY <1>1, <1>2
  <2> QED
    BY <2>1
<1>5. ASSUME NEW i \in 1 .. N, NEW j \in 1 .. N, place[i] = place[j] PROVE i = j
  <2>1. Cardinality(V!Ahead(hits, i)) = Cardinality(V!Ahead(hits, j))
    <3>1. /\ Cardinality(V!Ahead(hits, i)) \in Nat
          /\ Cardinality(V!Ahead(hits, j)) \in Nat
      BY <1>1, <1>2
    <3> QED
      BY <1>5, <3>1
  <2>2. i # j => i \in V!Ahead(hits, j) \/ j \in V!Ahead(hits, i)
    BY AheadIs
  <2>3. /\ Cardinality(V!Ahead(hits, i)) \in Int
        /\ Cardinality(V!Ahead(hits, j)) \in Int
    BY <1>2
  <2> QED
    BY <1>3, <2>1, <2>2, <2>3
<1> HIDE DEF place
<1>6. place \in Injection(1 .. N, 1 .. N)
  BY <1>4, <1>5 DEF Injection, IsInjective
<1>7. place \in Surjection(1 .. N, 1 .. N)
  <2>1. IsFiniteSet(1 .. N)
    BY <1>1, IntervalCount
  <2> QED
    BY <1>6, <2>1, FS_Injection
<1>8. PICK j \in 1 .. N : place[j] = n
  BY <1>7 DEF Surjection
<1>9. Cardinality(V!Ahead(hits, j)) = n - 1
  <2>1. place[j] = Cardinality(V!Ahead(hits, j)) + 1
    BY DEF place
  <2>2. Cardinality(V!Ahead(hits, j)) \in Int
    BY <1>2
  <2> QED
    BY <1>8, <2>1, <2>2
<1>10. \E l \in DOMAIN hits : V!Cardinality(V!Ahead(hits, l)) = n - 1
  BY <1>1, <1>9, SameCounts
<1>11. /\ V!Nth(hits, n) \in DOMAIN hits
       /\ V!Cardinality(V!Ahead(hits, V!Nth(hits, n))) = n - 1
  BY <1>10 DEF V!Nth
<1> QED
  BY <1>1, <1>11, SameCounts

(* The K best of some hits: of each score and better there are as many as  *)
(* there were, up to K.                                                    *)
LEMMA BestCounts ==
  ASSUME NEW hits \in Seq(Hit), NEW K \in Nat
  PROVE  /\ V!Best(hits, K) \in Seq(Hit)
         /\ \A k \in Int : Cardinality(AtLeast(V!Best(hits, K), k)) =
                             Smaller(K, Cardinality(AtLeast(hits, k)))
<1> DEFINE N == Len(hits)
           m == Smaller(K, N)
<1>1. DOMAIN hits = 1 .. N /\ N \in Nat /\ m \in 0 .. N /\ m \in Nat
  BY HitsAre DEF Smaller
<1> PICK best : best = V!Best(hits, K)
  OBVIOUS
<1>2. best = [n \in 1 .. m |-> hits[V!Nth(hits, n)]]
  BY DEF V!Best, Smaller
<1>3. \A n \in 1 .. m : /\ V!Nth(hits, n) \in 1 .. N
                        /\ Cardinality(V!Ahead(hits, V!Nth(hits, n))) = n - 1
  <2>1. \A n \in 1 .. m : n \in 1 .. N
    BY <1>1
  <2> QED
    BY <2>1, NthIs
<1> HIDE DEF m
<1>4. best \in Seq(Hit)
  <2>1. \A n \in 1 .. m : hits[V!Nth(hits, n)] \in Hit
    BY <1>3, HitsAre
  <2> QED
    BY <1>1, <1>2, <2>1
<1>5. ASSUME NEW k \in Int
      PROVE  Cardinality(AtLeast(best, k)) = Smaller(K, Cardinality(AtLeast(hits, k)))
  <2> DEFINE G == AtLeast(hits, k)
             u == Cardinality(G)
  <2>1. G \in SUBSET (1 .. N)
    BY <1>1 DEF AtLeast
  <2>2. IsFiniteSet(G) /\ u \in Nat /\ u <= N
    <3> HIDE DEF N, G
    <3> QED
      BY <1>1, <2>1, IntervalPart
  <2>3. ASSUME NEW j \in 1 .. N PROVE j \in G <=> Cardinality(V!Ahead(hits, j)) < u
    <3>1. /\ V!Ahead(hits, j) \in SUBSET (1 .. N) /\ j \notin V!Ahead(hits, j)
      BY AheadIs
    <3>2. /\ IsFiniteSet(V!Ahead(hits, j)) /\ Cardinality(V!Ahead(hits, j)) \in Nat
      <4> HIDE DEF N
      <4> QED
        BY <1>1, <3>1, IntervalPart
    <3>3. CASE j \in G
      <4>1. ASSUME NEW i \in V!Ahead(hits, j) PROVE i \in G
        <5>1. /\ i \in 1 .. N /\ hits[j].score >= k
              /\ hits[i].score > hits[j].score \/ hits[i].score = hits[j].score
          BY <1>1, <3>3 DEF AtLeast, V!Ahead
        <5>2. hits[i].score \in Int /\ hits[j].score \in Int
          BY <5>1, HitsAre
        <5>3. hits[i].score >= k
          BY <5>1, <5>2
        <5> QED
          BY <1>1, <5>1, <5>3 DEF AtLeast
      <4> HIDE DEF G
      <4> QED
        BY <2>2, <3>1, <3>3, <4>1, SmallerPart
    <3>4. CASE j \notin G
      <4>1. ASSUME NEW i \in G PROVE i \in V!Ahead(hits, j)
        <5>1. i \in 1 .. N /\ hits[i].score >= k /\ ~(hits[j].score >= k)
          BY <1>1, <3>4 DEF AtLeast
        <5>2. hits[i].score \in Int /\ hits[j].score \in Int
          BY <5>1, HitsAre
        <5>3. hits[i].score > hits[j].score
          BY <5>1, <5>2
        <5> QED
          BY <1>1, <5>1, <5>3 DEF V!Ahead
      <4> HIDE DEF G
      <4>2. u <= Cardinality(V!Ahead(hits, j))
        BY <3>2, <4>1, FS_Subset
      <4> QED
        BY <2>2, <3>2, <3>4, <4>2
    <3> QED
      BY <3>3, <3>4
  <2> HIDE DEF u
  <2>4. AtLeast(best, k) = 1 .. Smaller(m, u)
    <3>1. DOMAIN best = 1 .. m
      BY <1>2
    <3>2. ASSUME NEW n \in 1 .. m PROVE best[n].score >= k <=> n <= u
      <4>1. best[n] = hits[V!Nth(hits, n)] /\ V!Nth(hits, n) \in 1 .. N
        BY <1>2, <1>3
      <4>2. V!Nth(hits, n) \in G <=> n - 1 < u
        BY <1>3, <2>3
      <4>3. V!Nth(hits, n) \in G <=> hits[V!Nth(hits, n)].score >= k
        BY <1>1, <4>1 DEF AtLeast
      <4> HIDE DEF G
      <4> QED
        BY <1>1, <2>2, <4>1, <4>2, <4>3
    <3>3. \A n : n \in 1 .. Smaller(m, u) <=> n \in 1 .. m /\ n <= u
      BY <1>1, <2>2 DEF Smaller
    <3> QED
      BY <3>1, <3>2, <3>3 DEF AtLeast
  <2>5. Smaller(m, u) = Smaller(K, u) /\ Smaller(m, u) \in Nat
    BY <1>1, <2>2 DEF Smaller, m
  <2>6. Cardinality(AtLeast(best, k)) = Smaller(m, u)
    BY <2>4, <2>5, IntervalCount
  <2> QED
    BY <2>5, <2>6 DEF u
<1> QED
  BY <1>4, <1>5

(* The chunks of a shard that score k and better.                          *)
Scoring(S, k) == {c \in S : Rank(c) >= k}

(* The chunks of a sequence without repetition that score k and better are *)
(* as many as their places.                                                *)
LEMMA PlacesOfScore ==
  ASSUME NEW A, NEW s \in Seq(A), Distinct(s), NEW k
  PROVE  Cardinality({i \in 1 .. Len(s) : Rank(s[i]) >= k}) =
           Cardinality(Scoring(ToSet(s), k))
<1> DEFINE P == {i \in 1 .. Len(s) : Rank(s[i]) >= k}
           Q == Scoring(ToSet(s), k)
           f == [i \in P |-> s[i]]
<1>1. IsFiniteSet(P)
  <2>1. P \in SUBSET (1 .. Len(s)) /\ Len(s) \in Nat
    OBVIOUS
  <2> HIDE DEF P
  <2> QED
    BY <2>1, IntervalPart
<1>2. \A x : x \in Q <=> (\E j \in 1 .. Len(s) : x = s[j]) /\ Rank(x) >= k
  BY InToSet DEF Scoring
<1> HIDE DEF Q
<1>3. f \in [P -> Q]
  BY <1>2
<1>4. f \in Injection(P, Q)
  BY <1>3 DEF Injection, IsInjective, Distinct
<1>5. f \in Surjection(P, Q)
  <2>1. \A x \in Q : \E i \in P : f[i] = x
    BY <1>2
  <2> HIDE DEF f, P
  <2> QED
    BY <1>3, <2>1 DEF Surjection
<1> HIDE DEF f, P
<1>6. ExistsBijection(P, Q)
  BY <1>4, <1>5 DEF ExistsBijection, Bijection
<1>7. Cardinality(Q) = Cardinality(P)
  BY <1>1, <1>6, FS_Bijection
<1> QED
  BY <1>7 DEF P, Q

(* The best of one shard.                                                  *)
LEMMA ShardHits ==
  ASSUME NEW s \in Loose, Distinct(s.ids), NEW K \in Nat
  PROVE  /\ V!SearchShard(s, K) \in Seq(Hit)
         /\ \A k \in Int : Cardinality(AtLeast(V!SearchShard(s, K), k)) =
                             Smaller(K, Cardinality(Scoring(ToSet(s.ids), k)))
<1> DEFINE N == Len(s.ids)
<1>1. s.ids \in Seq(EmbChunks) /\ N \in Nat /\ DOMAIN s.ids = 1 .. N
  BY DEF Loose
<1>2. ASSUME NEW k \in Int
      PROVE  Cardinality({i \in 1 .. N : Rank(s.ids[i]) >= k}) =
               Cardinality(Scoring(ToSet(s.ids), k))
  BY <1>1, PlacesOfScore
<1>3. ASSUME NEW k \in Int
      PROVE  Cardinality({i \in 1 .. N : Rank(s.ids[i]) >= k}) \in Nat
  <2> PICK P : P = {i \in 1 .. N : Rank(s.ids[i]) >= k}
    OBVIOUS
  <2>1. P \in SUBSET (1 .. N)
    OBVIOUS
  <2> QED
    BY <1>1, <2>1, IntervalPart
<1>4. CASE s.ids = <<>> \/ K = 0
  <2>1. V!SearchShard(s, K) = <<>>
    BY <1>4 DEF V!SearchShard
  <2>2. ASSUME NEW k \in Int PROVE AtLeast(<<>>, k) = {}
    BY DEF AtLeast
  <2>3. ASSUME NEW k \in Int
        PROVE  Smaller(K, Cardinality(Scoring(ToSet(s.ids), k))) = 0
    <3>1. CASE K = 0
      <4>1. Cardinality(Scoring(ToSet(s.ids), k)) \in Nat
        BY <1>2, <1>3
      <4> QED
        BY <3>1, <4>1 DEF Smaller
    <3>2. CASE s.ids = <<>>
      <4>1. {i \in 1 .. N : Rank(s.ids[i]) >= k} = {}
        BY <3>2
      <4> QED
        BY <1>2, <4>1, FS_EmptySet DEF Smaller
    <3> QED
      BY <1>4, <3>1, <3>2
  <2>4. Cardinality({}) = 0 /\ <<>> \in Seq(Hit)
    BY FS_EmptySet
  <2> QED
    BY <2>1, <2>2, <2>3, <2>4
<1>5. CASE ~(s.ids = <<>> \/ K = 0)
  <2> DEFINE hits == [i \in 1 .. N |-> [id |-> s.ids[i], score |-> Rank(s.ids[i])]]
  <2>1. ASSUME NEW i \in 1 .. N
        PROVE  /\ s.ids[i] \in Chunks /\ Rank(s.ids[i]) \in Int
               /\ Rank(V!RowAt(s, i)[1][1]) = Rank(s.ids[i])
    <3>1. s.ids[i] \in EmbChunks /\ s.ids[i] \in Chunks
      BY <1>1 DEF EmbChunks
    <3>2. V!RowAt(s, i) = [k \in 1 .. Dim |-> <<s.ids[i], k>>]
      BY <3>1, RowIs, VecIs
    <3>3. V!RowAt(s, i)[1] = <<s.ids[i], 1>>
      BY <3>2, DimIs
    <3> QED
      BY <3>1, <3>3, ShardAssumption
  <2>2. V!SearchShard(s, K) = V!Best(hits, K)
    <3>1. [i \in 1 .. N |-> [id |-> s.ids[i], score |-> Rank(V!RowAt(s, i)[1][1])]] = hits
      BY <2>1
    <3> QED
      BY <1>1, <1>5, <3>1 DEF V!SearchShard
  <2>3. hits \in Seq(Hit) /\ Len(hits) = N
    <3>1. \A i \in 1 .. N : [id |-> s.ids[i], score |-> Rank(s.ids[i])] \in Hit
      BY <2>1 DEF Hit
    <3> QED
      BY <1>1, <3>1
  <2>4. ASSUME NEW k \in Int
        PROVE  AtLeast(hits, k) = {i \in 1 .. N : Rank(s.ids[i]) >= k}
    BY DEF AtLeast
  <2> HIDE DEF hits
  <2> QED
    BY <1>2, <2>2, <2>3, <2>4, BestCounts
<1> QED
  BY <1>4, <1>5

(* A shift of places.                                                      *)
LEMMA Shifted ==
  ASSUME NEW n \in Nat, NEW m \in Nat, NEW S \in SUBSET (1 .. m)
  PROVE  /\ IsFiniteSet({n + j : j \in S})
         /\ Cardinality({n + j : j \in S}) = Cardinality(S)
<1> DEFINE T == {n + j : j \in S}
           f == [j \in S |-> n + j]
<1>1. IsFiniteSet(S)
  BY IntervalPart
<1>2. f \in [S -> T]
  OBVIOUS
<1>3. f \in Injection(S, T)
  <2>1. \A i, j \in S : f[i] = f[j] => i = j
    OBVIOUS
  <2> HIDE DEF f, T
  <2> QED
    BY <1>2, <2>1 DEF Injection, IsInjective
<1>4. f \in Surjection(S, T)
  <2>1. \A x \in T : \E j \in S : f[j] = x
    OBVIOUS
  <2> HIDE DEF f, T
  <2> QED
    BY <1>2, <2>1 DEF Surjection
<1> HIDE DEF f, T
<1>5. ExistsBijection(S, T)
  BY <1>3, <1>4 DEF ExistsBijection, Bijection
<1>6. IsFiniteSet(T) /\ Cardinality(T) = Cardinality(S)
  BY <1>1, <1>5, FS_Bijection
<1> QED
  BY <1>6 DEF T

(* The hits of two lists.                                                  *)
LEMMA CatCounts ==
  ASSUME NEW a \in Seq(Hit), NEW b \in Seq(Hit), NEW k \in Int
  PROVE  /\ Cardinality(AtLeast(a, k)) \in Nat /\ Cardinality(AtLeast(b, k)) \in Nat
         /\ Cardinality(AtLeast(a \o b, k)) =
              Cardinality(AtLeast(a, k)) + Cardinality(AtLeast(b, k))
<1> PICK q : q = a \o b
  OBVIOUS
<1> PICK n : n = Len(a)
  OBVIOUS
<1> PICK m : m = Len(b)
  OBVIOUS
<1>1. /\ q \in Seq(Hit) /\ Len(q) = n + m /\ n \in Nat /\ m \in Nat
      /\ \A i \in 1 .. n : q[i] = a[i]
      /\ \A j \in 1 .. m : q[n + j] = b[j]
  BY CatAt, HitsAre
<1>2. DOMAIN q = 1 .. n + m /\ DOMAIN a = 1 .. n /\ DOMAIN b = 1 .. m
  BY <1>1, HitsAre
<1> PICK A : A = AtLeast(a, k)
  OBVIOUS
<1> PICK B : B = AtLeast(b, k)
  OBVIOUS
<1>3. A \in SUBSET (1 .. n) /\ B \in SUBSET (1 .. m)
  BY <1>2 DEF AtLeast
<1> PICK C : C = {n + j : j \in B}
  OBVIOUS
<1>4. IsFiniteSet(C) /\ Cardinality(C) = Cardinality(B)
  BY <1>1, <1>3, Shifted
<1>5. IsFiniteSet(A) /\ Cardinality(A) \in Nat /\ Cardinality(B) \in Nat
  BY <1>1, <1>3, IntervalPart
<1>6. A \cap C = {}
  BY <1>1, <1>3
<1>7. AtLeast(q, k) = A \cup C
  <2>1. ASSUME NEW i \in 1 .. n + m PROVE i \in 1 .. n \/ \E j \in 1 .. m : i = n + j
    <3>1. CASE i <= n
      BY <1>1, <3>1
    <3>2. CASE i > n
      <4>1. i - n \in 1 .. m /\ i = n + (i - n)
        BY <1>1, <3>2
      <4> QED
        BY ONLY <4>1
    <3> QED
      BY <1>1, <3>1, <3>2
  <2>2. \A i \in 1 .. n : i \in 1 .. n + m /\ (i \in AtLeast(q, k) <=> i \in A)
    BY <1>1, <1>2 DEF AtLeast
  <2>3. \A j \in 1 .. m : n + j \in 1 .. n + m /\ (n + j \in AtLeast(q, k) <=> j \in B)
    BY <1>1, <1>2 DEF AtLeast
  <2>4. AtLeast(q, k) \subseteq 1 .. n + m
    BY <1>2 DEF AtLeast
  <2>5. \A i \in 1 .. n : \A j \in 1 .. m : i # n + j
    BY <1>1
  <2>6. \A i \in 1 .. m : \A j \in 1 .. m : n + i = n + j => i = j
    BY <1>1
  <2>7. \A j \in 1 .. m : n + j \in C <=> j \in B
    BY <1>3, <2>6
  <2>8. \A i \in 1 .. n : i \notin C
    BY <1>3, <2>5
  <2>9. \A j \in 1 .. m : n + j \notin A
    BY <1>3, <2>5
  <2>10. A \cup C \subseteq 1 .. n + m
    BY <1>3, <2>2, <2>3
  <2>11. \A i \in 1 .. n + m : i \in AtLeast(q, k) <=> i \in A \cup C
    BY ONLY <2>1, <2>2, <2>3, <2>7, <2>8, <2>9
  <2> QED
    BY ONLY <2>4, <2>10, <2>11
<1>8. Cardinality(A \cup C) = Cardinality(A) + Cardinality(C) - Cardinality({})
  BY <1>4, <1>5, <1>6, FS_Union
<1> QED
  BY <1>4, <1>5, <1>7, <1>8, FS_EmptySet

(* What the searched tables hold of score k and better.                    *)
Found(S, k) ==
  {x \in S \X Chunks : x[2] \in Embedded(x[1]) /\ Rank(x[2]) >= k}

(* A repository more.                                                      *)
LEMMA FoundMore ==
  ASSUME NEW S, IsFiniteSet(S), NEW r, r \notin S, NEW k \in Int, Embedded(r) \subseteq Chunks
  PROVE  /\ Cardinality(Found(S, k)) \in Nat
         /\ Cardinality(Scoring(Embedded(r), k)) \in Nat
         /\ Cardinality(Found(S \cup {r}, k)) =
              Cardinality(Found(S, k)) + Cardinality(Scoring(Embedded(r), k))
<1> PICK F : F = Found(S, k)
  OBVIOUS
<1> PICK E : E = Scoring(Embedded(r), k)
  OBVIOUS
<1> PICK G : G = {r} \X E
  OBVIOUS
<1>1. IsFiniteSet(F)
  <2>1. IsFiniteSet(S \X Chunks)
    BY ChunksFinite, FS_Product
  <2>2. F \in SUBSET (S \X Chunks)
    BY DEF Found
  <2> QED
    BY <2>1, <2>2, FS_Subset
<1>2. IsFiniteSet(E)
  <2>1. E \in SUBSET Chunks
    BY DEF Scoring
  <2> QED
    BY <2>1, ChunksFinite, FS_Subset
<1>3. IsFiniteSet(G) /\ Cardinality(G) = Cardinality(E)
  <2>1. IsFiniteSet({r}) /\ Cardinality({r}) = 1
    BY FS_Singleton
  <2>2. IsFiniteSet(G) /\ Cardinality(G) = Cardinality({r}) * Cardinality(E)
    BY <1>2, <2>1, FS_Product
  <2>3. Cardinality(E) \in Nat
    BY <1>2, FS_CardinalityType
  <2> QED
    BY <2>1, <2>2, <2>3
<1>4. Found(S \cup {r}, k) = F \cup G
  BY DEF Found, Scoring
<1>5. F \cap G = {}
  BY DEF Found
<1>6. Cardinality(F \cup G) = Cardinality(F) + Cardinality(G) - Cardinality({})
  BY <1>1, <1>3, <1>5, FS_Union
<1>7. Cardinality(F) \in Nat /\ Cardinality(E) \in Nat /\ Cardinality({}) = 0
  BY <1>1, <1>2, FS_CardinalityType, FS_EmptySet
<1>8. Cardinality(F \cup G) = Cardinality(F) + Cardinality(E)
  BY <1>3, <1>6, <1>7
<1> QED
  BY <1>4, <1>7, <1>8

LEMMA SmallerSum ==
  ASSUME NEW K \in Nat, NEW x \in Nat, NEW u \in Nat, NEW y \in Nat,
         Smaller(K, x) = Smaller(K, u)
  PROVE  Smaller(K, x + Smaller(K, y)) = Smaller(K, u + y)
BY DEF Smaller

(* One shard's hits: the best of its table.                                *)
HitsOf(r) ==
  /\ Hits(r) \in Seq(Hit)
  /\ Embedded(r) \subseteq Chunks
  /\ \A k \in Int : Cardinality(AtLeast(Hits(r), k)) =
                      Smaller(TopK, Cardinality(Scoring(Embedded(r), k)))

(* The hits of n shards, each cut to its own best.                         *)
Merged(x, order, n) ==
  /\ x \in Seq(Hit)
  /\ \A k \in Int : Smaller(TopK, Cardinality(AtLeast(x, k))) =
                      Smaller(TopK, Cardinality(Found({order[i] : i \in 1 .. n}, k)))

LEMMA MergeStep ==
  ASSUME NEW order \in Seq(Repos), Distinct(order), NEW n \in 1 .. Len(order),
         HitsOf(order[n]), NEW x, Merged(x, order, n - 1)
  PROVE  Merged(x \o Hits(order[n]), order, n)
<1> DEFINE r == order[n]
           S == {order[i] : i \in 1 .. n - 1}
<1>1. n \in Nat /\ n - 1 \in Nat /\ Len(order) \in Nat
  OBVIOUS
<1>2. IsFiniteSet(S)
  <2>1. S \subseteq ToSet(order)
    <3>1. \A i \in 1 .. n - 1 : i \in 1 .. Len(order)
      BY <1>1
    <3> QED
      BY <3>1, InToSet
  <2>2. IsFiniteSet(ToSet(order))
    BY DistinctCount
  <2> HIDE DEF S
  <2> QED
    BY <2>1, <2>2, FS_Subset
<1>3. r \notin S
  BY <1>1 DEF Distinct
<1>4. {order[i] : i \in 1 .. n} = S \cup {r}
  <2>1. 1 .. n = (1 .. n - 1) \cup {n}
    BY <1>1
  <2> QED
    BY <2>1
<1>5. x \in Seq(Hit) /\ Hits(r) \in Seq(Hit) /\ Embedded(r) \subseteq Chunks
  BY DEF Merged, HitsOf
<1>6. \A k \in Int : /\ Cardinality(AtLeast(Hits(r), k)) =
                           Smaller(TopK, Cardinality(Scoring(Embedded(r), k)))
                      /\ Smaller(TopK, Cardinality(AtLeast(x, k))) =
                           Smaller(TopK, Cardinality(Found(S, k)))
  BY DEF Merged, HitsOf
<1> HIDE DEF r, S
<1>7. x \o Hits(r) \in Seq(Hit)
  BY <1>5, CatAt
<1>8. ASSUME NEW k \in Int
      PROVE  Smaller(TopK, Cardinality(AtLeast(x \o Hits(r), k))) =
               Smaller(TopK, Cardinality(Found(S \cup {r}, k)))
  <2>1. /\ Cardinality(AtLeast(x, k)) \in Nat
        /\ Cardinality(AtLeast(x \o Hits(r), k)) =
             Cardinality(AtLeast(x, k)) + Cardinality(AtLeast(Hits(r), k))
    BY <1>5, CatCounts
  <2>2. /\ Cardinality(Found(S, k)) \in Nat
        /\ Cardinality(Scoring(Embedded(r), k)) \in Nat
        /\ Cardinality(Found(S \cup {r}, k)) =
             Cardinality(Found(S, k)) + Cardinality(Scoring(Embedded(r), k))
    <3>1. Embedded(r) \subseteq Chunks
      BY ONLY <1>5
    <3> QED
      BY ONLY <1>2, <1>3, <3>1, k \in Int, FoundMore
  <2>3. TopK \in Nat
    BY ShardAssumption
  <2>4. Smaller(TopK, Cardinality(AtLeast(x, k))
                        + Smaller(TopK, Cardinality(Scoring(Embedded(r), k)))) =
          Smaller(TopK, Cardinality(Found(S, k)) + Cardinality(Scoring(Embedded(r), k)))
    BY <1>6, <2>1, <2>2, <2>3, SmallerSum
  <2>5. Cardinality(AtLeast(Hits(r), k)) =
          Smaller(TopK, Cardinality(Scoring(Embedded(r), k)))
    BY <1>6
  <2> QED
    BY ONLY <2>1, <2>2, <2>4, <2>5
<1> QED
  BY <1>4, <1>7, <1>8 DEF Merged, r

(* The merge of the searched shards, cut to the best.                      *)
LEMMA SearchIs ==
  ASSUME NEW S \in SUBSET Repos, \A r \in S : HitsOf(r)
  PROVE  /\ Search(S) \in Seq(Hit)
         /\ \A k \in Int : Cardinality(AtLeast(Search(S), k)) =
                             Smaller(TopK, Cardinality(Found(S, k)))
<1> DEFINE order == SetToSeq(S)
           N == Len(order)
           Add(x, n) == x \o Hits(order[n])
           merged[n \in 0 .. N] == IF n = 0 THEN <<>> ELSE Add(merged[n - 1], n)
           step == [p \in Seq(Hit) \X (1 .. N) |-> p[1] \o Hits(order[p[2]])]
<1>1. Search(S) = V!Best(merged[N], TopK)
  BY DEF Search
<1>2. order \in Seq(Repos) /\ Distinct(order) /\ ToSet(order) = S
  <2>1. IsFiniteSet(S)
    BY ShardAssumption, FS_Subset
  <2>2. order \in Seq(S) /\ Distinct(order) /\ ToSet(order) = S
    BY <2>1, SetToSeqIs
  <2> HIDE DEF order
  <2> QED
    BY <2>2, SeqMonotonic
<1> HIDE DEF order
<1>3. N \in Nat /\ \A n \in 1 .. N : order[n] \in S /\ HitsOf(order[n])
  BY <1>2, InToSet
<1>4. step \in [Seq(Hit) \X (1 .. N) -> Seq(Hit)]
  <2>1. ASSUME NEW x \in Seq(Hit), NEW n \in 1 .. N PROVE x \o Hits(order[n]) \in Seq(Hit)
    <3>1. Hits(order[n]) \in Seq(Hit)
      BY <1>3 DEF HitsOf
    <3> QED
      BY <3>1, CatAt
  <2> QED
    BY <2>1
<1> HIDE DEF step
<1>5. PICK f \in [0 .. N -> Seq(Hit)] : Runs(f, N, <<>>, step)
  <2>1. N \in Nat /\ <<>> \in Seq(Hit)
    BY <1>3
  <2> HIDE DEF N
  <2> QED
    BY ONLY <1>4, <2>1, Loop
<1>6. f = [n \in 0 .. N |-> IF n = 0 THEN <<>> ELSE Add(f[n - 1], n)]
  <2>1. f = [n \in 0 .. N |-> f[n]]
    OBVIOUS
  <2>2. ASSUME NEW n \in 1 .. N PROVE f[n] = f[n - 1] \o Hits(order[n])
    <3>1. f[n - 1] \in Seq(Hit) /\ f[n] = step[<<f[n - 1], n>>]
      BY <1>5 DEF Runs
    <3> QED
      BY <3>1 DEF step
  <2>3. f[0] = <<>>
    BY <1>5 DEF Runs
  <2>4. \A n \in 0 .. N : n # 0 => n \in 1 .. N
    BY <1>3
  <2> QED
    BY <2>1, <2>2, <2>3, <2>4
<1> HIDE DEF N, Add
<1>7. merged = [n \in 0 .. N |-> IF n = 0 THEN <<>> ELSE Add(merged[n - 1], n)]
  BY <1>6
<1> HIDE DEF merged
<1>8. merged[0] = <<>> /\ \A n \in 1 .. N : merged[n] = Add(merged[n - 1], n)
  BY <1>3, <1>7
<1> DEFINE T == {n \in 0 .. N : Merged(merged[n], order, n)}
<1>9. 0 \in T
  <2>1. ASSUME NEW k \in Int PROVE AtLeast(<<>>, k) = {} /\ Found({order[i] : i \in 1 .. 0}, k) = {}
    BY DEF AtLeast, Found
  <2>2. <<>> \in Seq(Hit)
    OBVIOUS
  <2>3. Merged(<<>>, order, 0)
    BY <2>1, <2>2 DEF Merged
  <2> QED
    BY <1>3, <1>8, <2>3
<1>10. ASSUME NEW n \in 1 .. N, n - 1 \in T PROVE n \in T
  <2>1. Merged(merged[n - 1], order, n - 1) /\ HitsOf(order[n])
    BY <1>3, <1>10
  <2>2. Merged(Add(merged[n - 1], n), order, n)
    BY <1>2, <2>1, MergeStep DEF Add, N
  <2>3. n \in 0 .. N /\ Merged(merged[n], order, n)
    BY <1>3, <1>8, <2>2
  <2> QED
    BY <2>3
<1> HIDE DEF T
<1>11. N \in T
  <2>1. N \in Nat
    BY <1>3
  <2>2. \A n \in 0 .. N : n \in T
    BY ONLY <1>9, <1>10, <2>1, UpTo
  <2> QED
    BY <2>1, <2>2
<1>12. Merged(merged[N], order, N)
  BY <1>11 DEF T
<1>13. {order[i] : i \in 1 .. N} = S
  BY <1>2, InToSet DEF N
<1> PICK x : x = merged[N]
  OBVIOUS
<1>14. /\ V!Best(x, TopK) \in Seq(Hit)
       /\ \A k \in Int : Cardinality(AtLeast(V!Best(x, TopK), k)) =
                           Smaller(TopK, Cardinality(AtLeast(x, k)))
  BY <1>12, BestCounts, ShardAssumption DEF Merged
<1> QED
  BY <1>1, <1>12, <1>13, <1>14 DEF Merged

(* A resident shard whose table it holds finds its best.                   *)
LEMMA ResidentHits ==
  ASSUME OnceInv, NEW r \in Resident, run[r].phase = "idle", exact[r]
  PROVE  r \in Repos /\ HitsOf(r)
<1>1. r \in Repos
  BY DEF OnceInv, ExactInv, ShardsOk, Resident, ToSet
<1>2. shard[r] \in Loose /\ Distinct(shard[r].ids)
  BY <1>1 DEF OnceInv, ExactInv, ShardsOk, Tight, ShardsOnce
<1>3. run[r].files = {} /\ chunk[r] \subseteq Chunks
  BY <1>1 DEF OnceInv, ExactInv, TablesOk, RunOk, NoRun
<1>4. ToSet(shard[r].ids) = chunk[r] \cap EmbChunks
  BY <1>3 DEF OnceInv, ExactInv, ShardsAgree, Agree
<1>5. Embedded(r) = chunk[r] \cap EmbChunks
  BY <1>3, VecIs DEF Embedded
<1>6. TopK \in Nat
  BY ShardAssumption
<1>7. /\ V!SearchShard(shard[r], TopK) \in Seq(Hit)
      /\ \A k \in Int : Cardinality(AtLeast(V!SearchShard(shard[r], TopK), k)) =
                          Smaller(TopK, Cardinality(Scoring(ToSet(shard[r].ids), k)))
  BY <1>2, <1>6, ShardHits
<1> QED
  BY <1>1, <1>3, <1>4, <1>5, <1>7 DEF Hits, HitsOf

(* A search of resident shards, each cut to its own best TopK and the rest *)
(* merged (src/vector/sharded.rs), finds of every score and better as many *)
(* chunks as the tables have, up to TopK: no cut loses a chunk that should *)
(* have been found, and no chunk is found twice.                           *)
THEOREM SearchesFindTheBest == Spec => []SearchExact
<1>1. OnceInv => SearchExact
  <2> SUFFICES ASSUME OnceInv,
                      NEW S \in SUBSET {r \in Resident : run[r].phase = "idle" /\ exact[r]},
                      NEW x \in UNION {{<<r, c>> : c \in Embedded(r)} : r \in S}
               PROVE  LET there == UNION {{<<r, c>> : c \in Embedded(r)} : r \in S}
                          k == Rank(x[2])
                      IN  Cardinality({i \in DOMAIN Search(S) : Search(S)[i].score >= k}) =
                            Min({TopK, Cardinality({y \in there : Rank(y[2]) >= k})})
    BY DEF SearchExact
  <2> DEFINE there == UNION {{<<r, c>> : c \in Embedded(r)} : r \in S}
             k == Rank(x[2])
  <2>1. \A r \in S : r \in Repos /\ HitsOf(r)
    BY ResidentHits
  <2>2. k \in Int
    <3>1. x[2] \in Chunks
      BY <2>1 DEF HitsOf
    <3> QED
      BY <3>1, ShardAssumption
  <2>3. {y \in there : Rank(y[2]) >= k} = Found(S, k)
    <3>1. \A y : y \in there <=> \E r \in S : \E c \in Embedded(r) : y = <<r, c>>
      OBVIOUS
    <3>2. \A y : y \in S \X Chunks /\ y[2] \in Embedded(y[1]) <=> y \in there
      BY <2>1, <3>1 DEF HitsOf
    <3> QED
      BY <3>2 DEF Found
  <2>4. Cardinality(AtLeast(Search(S), k)) = Smaller(TopK, Cardinality(Found(S, k)))
    BY <2>1, <2>2, SearchIs
  <2>5. Cardinality(Found(S, k)) \in Nat /\ TopK \in Nat
    <3>1. IsFiniteSet(S)
      BY <2>1, ShardAssumption, FS_Subset
    <3>2. Found(S, k) \in SUBSET (S \X Chunks) /\ IsFiniteSet(S \X Chunks)
      BY <3>1, ChunksFinite, FS_Product DEF Found
    <3>3. IsFiniteSet(Found(S, k))
      BY <3>2, FS_Subset
    <3> QED
      BY <3>3, FS_CardinalityType, ShardAssumption
  <2>6. ASSUME NEW a \in Nat, NEW b \in Nat PROVE Min({a, b}) = Smaller(a, b)
    <3>1. \E u \in {a, b} : \A v \in {a, b} : u <= v
      OBVIOUS
    <3>2. Min({a, b}) \in {a, b} /\ \A v \in {a, b} : Min({a, b}) <= v
      BY <3>1 DEF Min
    <3> QED
      BY <3>2 DEF Smaller
  <2> HIDE DEF there, k
  <2>7. Cardinality({i \in DOMAIN Search(S) : Search(S)[i].score >= k}) =
          Min({TopK, Cardinality({y \in there : Rank(y[2]) >= k})})
    BY <2>3, <2>4, <2>5, <2>6 DEF AtLeast
  <2> QED
    BY <2>7 DEF there, k
<1> QED
  BY <1>1, OnceInit, OnceStep, PTL DEF Spec

-----------------------------------------------------------------------------
(* Evictions are least-recently-used.                                      *)

(* The sums that the loop of Bytes goes through.                           *)
Sums(f, order, size) ==
  /\ f \in [0 .. Len(order) -> Nat] /\ f[0] = 0
  /\ \A n \in 1 .. Len(order) : f[n] = f[n - 1] + size[order[n]]

(* The loop of Bytes has sums.                                             *)
LEMMA BytesLoop ==
  ASSUME NEW A, NEW order \in Seq(A), NEW size \in [A -> Nat]
  PROVE  \E f : Sums(f, order, size) /\ Bytes(order, size) = f[Len(order)]
<1> DEFINE N == Len(order)
           sum[n \in 0 .. N] == IF n = 0 THEN 0 ELSE sum[n - 1] + size[order[n]]
           step == [x \in Nat \X (1 .. N) |-> x[1] + size[order[x[2]]]]
<1>1. N \in Nat /\ \A n \in 1 .. N : order[n] \in A
  OBVIOUS
<1>2. Bytes(order, size) = sum[N]
  BY DEF Bytes
<1>3. \A x \in Nat, n \in 1 .. N : step[<<x, n>>] = x + size[order[n]]
  OBVIOUS
<1>4. step \in [Nat \X (1 .. N) -> Nat]
  <2>1. ASSUME NEW x \in Nat, NEW n \in 1 .. N PROVE x + size[order[n]] \in Nat
    <3>1. size[order[n]] \in Nat
      BY <1>1
    <3> QED
      BY <3>1
  <2> QED
    BY <2>1
<1> HIDE DEF step
<1>5. PICK f \in [0 .. N -> Nat] : Runs(f, N, 0, step)
  <2> HIDE DEF N
  <2> QED
    BY ONLY <1>1, <1>4, 0 \in Nat, Loop
<1>6. f[0] = 0 /\ \A n \in 1 .. N : f[n] = f[n - 1] + size[order[n]]
  <2>1. \A n \in 1 .. N : f[n - 1] \in Nat
    <3>1. \A n \in 1 .. N : n - 1 \in 0 .. N
      BY <1>1
    <3> QED
      BY <3>1
  <2> QED
    BY <1>3, <1>5, <2>1 DEF Runs
<1>7. f = [n \in 0 .. N |-> IF n = 0 THEN 0 ELSE f[n - 1] + size[order[n]]]
  <2>1. f = [n \in 0 .. N |-> f[n]]
    OBVIOUS
  <2>2. \A n \in 0 .. N : n # 0 => n \in 1 .. N
    BY <1>1
  <2> QED
    BY <1>6, <2>1, <2>2
<1>8. sum = [n \in 0 .. N |-> IF n = 0 THEN 0 ELSE sum[n - 1] + size[order[n]]]
  BY ONLY <1>7, Zenon
<1> HIDE DEF sum
<1>9. sum[0] = 0 /\ \A n \in 1 .. N : sum[n] = sum[n - 1] + size[order[n]]
  <2>1. 0 \in 0 .. N /\ \A n \in 1 .. N : n \in 0 .. N /\ n # 0
    BY <1>1
  <2> QED
    BY ONLY <1>8, <2>1
<1> DEFINE S == {n \in 0 .. N : sum[n] \in Nat}
<1>10. 0 \in S /\ \A n \in 1 .. N : n - 1 \in S => n \in S
  <2>1. 0 \in S
    BY <1>1, <1>9
  <2>2. ASSUME NEW n \in 1 .. N, n - 1 \in S PROVE n \in S
    <3>1. sum[n - 1] \in Nat /\ size[order[n]] \in Nat /\ sum[n] = sum[n - 1] + size[order[n]]
      BY <1>1, <1>9, <2>2
    <3>2. n \in 0 .. N
      BY <1>1
    <3> QED
      BY <3>1, <3>2
  <2> QED
    BY <2>1, <2>2
<1> HIDE DEF S
<1>11. \A n \in 0 .. N : n \in S
  BY ONLY <1>1, <1>10, UpTo
<1>12. sum \in [0 .. N -> Nat]
  <2>1. \A n \in 0 .. N : sum[n] \in Nat
    BY <1>11 DEF S
  <2> QED
    BY <1>8, <2>1
<1> QED
  BY <1>2, <1>9, <1>12 DEF Sums

(* A summand more on both sides.                                           *)
LEMMA SumMoves ==
  ASSUME NEW g \in Nat, NEW x \in Nat, NEW f \in Nat, NEW y \in Nat, g + x = f,
         NEW gg, NEW ff, gg = g + y, ff = f + y
  PROVE  gg + x = ff
OBVIOUS

(* A smaller summand on the smaller side.                                  *)
LEMMA SumGrows ==
  ASSUME NEW f \in Nat, NEW b \in Nat, f <= b, NEW x \in Nat, NEW y \in Nat, x <= y,
         NEW ff, NEW bb, ff = f + x, b + y = bb
  PROVE  ff <= bb
OBVIOUS

(* Rows of one length.                                                     *)
LEMMA TimesMono ==
  ASSUME NEW d \in Nat, NEW m \in Nat, NEW n \in Nat, m <= n
  PROVE  d * m \in Nat /\ d * n \in Nat /\ d * m <= d * n
OBVIOUS

(* Without the bytes of one element there are so many less.                *)
LEMMA BytesBut ==
  ASSUME NEW A, NEW order \in Seq(A), Distinct(order), NEW size \in [A -> Nat],
         NEW k \in 1 .. Len(order),
         NEW rest, rest = [size EXCEPT ![order[k]] = 0]
  PROVE  Bytes(order, rest) + size[order[k]] = Bytes(order, size)
<1> DEFINE N == Len(order)
<1>1. N \in Nat /\ \A n \in 1 .. N : order[n] \in A
  OBVIOUS
<1>2. rest \in [A -> Nat]
  BY <1>1
<1>3. PICK f : Sums(f, order, size) /\ Bytes(order, size) = f[N]
  BY BytesLoop
<1>4. PICK g : Sums(g, order, rest) /\ Bytes(order, rest) = g[N]
  BY <1>2, BytesLoop
<1> DEFINE S == {n \in 0 .. N : g[n] + (IF k <= n THEN size[order[k]] ELSE 0) = f[n]}
<1>5. size[order[k]] \in Nat /\ k \in Nat
  BY <1>1
<1>6. 0 \in S
  BY <1>1, <1>3, <1>4, <1>5 DEF Sums
<1>7. ASSUME NEW n \in 1 .. N, n - 1 \in S PROVE n \in S
  <2>1. n \in 0 .. N /\ n - 1 \in 0 .. N /\ n \in Nat
    BY <1>1
  <2>2. /\ f[n] = f[n - 1] + size[order[n]] /\ f[n - 1] \in Nat
        /\ g[n] = g[n - 1] + rest[order[n]] /\ g[n - 1] \in Nat
    BY <1>3, <1>4, <2>1 DEF Sums
  <2>3. order[n] = order[k] <=> n = k
    BY DEF Distinct
  <2>4. rest[order[n]] = IF n = k THEN 0 ELSE size[order[n]]
    BY <1>1, <2>3
  <2>5. size[order[n]] \in Nat
    BY <1>1
  <2>6. g[n - 1] + (IF k <= n - 1 THEN size[order[k]] ELSE 0) = f[n - 1]
    BY <1>7
  <2>7. g[n] + (IF k <= n THEN size[order[k]] ELSE 0) = f[n]
    <3>1. CASE n = k
      <4>1. ~(k <= n - 1) /\ k <= n
        BY <1>5, <2>1, <3>1
      <4>2. g[n] = g[n - 1] + 0 /\ g[n - 1] + 0 = f[n - 1] /\ f[n] = f[n - 1] + size[order[k]]
        BY ONLY <2>2, <2>4, <2>6, <3>1, <4>1
      <4> QED
        BY ONLY <1>5, <2>2, <4>1, <4>2
    <3>2. CASE n # k
      <4>1. k <= n <=> k <= n - 1
        BY ONLY <1>5, <2>1, <3>2
      <4>2. g[n] = g[n - 1] + size[order[n]]
        BY ONLY <2>2, <2>4, <3>2
      <4>3. CASE k <= n
        <5>1. g[n - 1] + size[order[k]] = f[n - 1]
          BY ONLY <2>6, <4>1, <4>3
        <5>2. g[n] + size[order[k]] = f[n]
          BY ONLY <1>5, <2>2, <2>5, <4>2, <5>1, SumMoves
        <5> QED
          BY <4>3, <5>2
      <4>4. CASE ~(k <= n)
        <5>1. g[n - 1] + 0 = f[n - 1]
          BY ONLY <2>6, <4>1, <4>4
        <5>2. g[n] + 0 = f[n]
          BY ONLY <2>2, <2>5, <4>2, <5>1, 0 \in Nat, SumMoves
        <5> QED
          BY <4>4, <5>2
      <4> QED
        BY <4>3, <4>4
    <3> QED
      BY <3>1, <3>2
  <2> QED
    BY <2>1, <2>7
<1>8. N \in S
  <2> HIDE DEF S, N
  <2>1. \A n \in 0 .. N : n \in S
    BY ONLY <1>1, <1>6, <1>7, UpTo
  <2> QED
    BY <1>1, <2>1
<1>9. k <= N
  BY <1>1
<1> QED
  BY <1>3, <1>4, <1>8, <1>9

(* Fewer elements of smaller sizes, in any order, make no more bytes.      *)
LEMMA BytesLess ==
  ASSUME NEW A, NEW less \in Seq(A), Distinct(less), NEW order \in Seq(A), Distinct(order),
         ToSet(less) \subseteq ToSet(order),
         NEW small \in [A -> Nat], NEW size \in [A -> Nat],
         \A x \in ToSet(less) : small[x] <= size[x]
  PROVE  /\ Bytes(less, small) \in Nat /\ Bytes(order, size) \in Nat
         /\ Bytes(less, small) <= Bytes(order, size)
<1> DEFINE N == Len(less)
           M == Len(order)
           Beyond(n) == {s \in [A -> Nat] : \A i \in 1 .. n : small[less[i]] <= s[less[i]]}
<1>1. N \in Nat /\ \A n \in 1 .. N : less[n] \in A
  OBVIOUS
<1>2. PICK f : Sums(f, less, small) /\ Bytes(less, small) = f[N]
  BY BytesLoop
<1>3. \A s \in [A -> Nat] : Bytes(order, s) \in Nat
  <2> TAKE s \in [A -> Nat]
  <2>1. PICK g : Sums(g, order, s) /\ Bytes(order, s) = g[M]
    BY BytesLoop
  <2>2. M \in 0 .. M
    OBVIOUS
  <2>3. g \in [0 .. M -> Nat]
    BY <2>1 DEF Sums
  <2> HIDE DEF M
  <2> QED
    BY ONLY <2>1, <2>2, <2>3
<1> DEFINE S == {n \in 0 .. N : \A s \in Beyond(n) : f[n] <= Bytes(order, s)}
<1>4. 0 \in S
  BY <1>1, <1>2, <1>3 DEF Sums
<1>5. ASSUME NEW n \in 1 .. N, n - 1 \in S PROVE n \in S
  <2>1. n \in 0 .. N /\ n - 1 \in 0 .. N /\ n \in Nat
    BY <1>1
  <2>2. SUFFICES ASSUME NEW s \in [A -> Nat], s \in Beyond(n)
                 PROVE  f[n] <= Bytes(order, s)
    BY <2>1
  <2>3. PICK k \in 1 .. M : less[n] = order[k]
    <3>1. less[n] \in ToSet(less)
      BY InToSet
    <3> QED
      BY <3>1, InToSet
  <2>4. PICK rest : rest = [s EXCEPT ![order[k]] = 0]
    OBVIOUS
  <2>5. Bytes(order, rest) + s[order[k]] = Bytes(order, s)
    BY <2>4, BytesBut
  <2>6. rest \in [A -> Nat]
    BY <2>4
  <2>7. rest \in Beyond(n - 1)
    <3> SUFFICES ASSUME NEW i \in 1 .. n - 1 PROVE small[less[i]] <= rest[less[i]]
      BY <2>6
    <3>1. i \in 1 .. n /\ i \in 1 .. N /\ i # n
      BY <1>1, <2>1
    <3>2. less[i] # less[n]
      BY <3>1 DEF Distinct
    <3>3. rest[less[i]] = s[less[i]]
      BY <1>1, <2>3, <2>4, <3>1, <3>2
    <3>4. small[less[i]] <= s[less[i]]
      BY <2>2, <3>1
    <3> QED
      BY <3>3, <3>4
  <2>8. f[n - 1] <= Bytes(order, rest)
    BY <1>5, <2>7
  <2>9. f[n] = f[n - 1] + small[less[n]] /\ f[n - 1] \in Nat
    BY <1>2, <2>1 DEF Sums
  <2>10. small[less[n]] <= s[order[k]] /\ small[less[n]] \in Nat /\ s[order[k]] \in Nat
    <3>1. n \in 1 .. n
      BY <2>1
    <3>2. small[less[n]] <= s[less[n]]
      BY <2>2, <3>1
    <3> QED
      BY <1>1, <2>3, <3>2
  <2>11. Bytes(order, rest) \in Nat
    BY <1>3, <2>6
  <2> HIDE DEF S, Beyond
  <2> QED
    BY ONLY <2>5, <2>8, <2>9, <2>10, <2>11, SumGrows
<1>6. N \in S
  <2> HIDE DEF S, N
  <2>1. \A n \in 0 .. N : n \in S
    BY ONLY <1>1, <1>4, <1>5, UpTo
  <2> QED
    BY <1>1, <2>1
<1>7. size \in Beyond(N)
  <2>1. \A i \in 1 .. N : less[i] \in ToSet(less)
    BY InToSet
  <2> QED
    BY <2>1
<1>8. f[N] \in Nat
  <2>1. N \in 0 .. N
    BY <1>1
  <2> QED
    BY <1>2, <2>1 DEF Sums
<1> QED
  BY <1>2, <1>3, <1>6, <1>7, <1>8

SizeOf == [r \in Repos |-> V!ByteSize(shard[r])]

(* A removal leaves no more rows than there were.                          *)
LEMMA RemoveShrinks ==
  ASSUME NEW s \in Tight, NEW gone
  PROVE  /\ V!ByteSize(s) \in Nat /\ V!ByteSize(V!RemoveMatching(s, gone)) \in Nat
         /\ V!ByteSize(V!RemoveMatching(s, gone)) <= V!ByteSize(s)
<1> DEFINE t == V!RemoveMatching(s, gone)
<1>1. s \in Loose /\ t \in Tight
  BY RemoveMatchingIs DEF Tight
<1>2. PICK at : /\ t = IF at.shard.ids = <<>> THEN [at.shard EXCEPT !.dim = 0] ELSE at.shard
                /\ Pass(s, gone, at, Len(s.ids))
  BY <1>1, RemoveLoop
<1>3. at.shard \in Loose /\ t.ids = at.shard.ids
  BY <1>2 DEF Pass, Looking, Loose
<1> DEFINE n == Len(s.ids)
           m == Len(t.ids)
<1>4. n \in Nat /\ m \in Nat
  BY <1>1, <1>3 DEF Loose
<1>5. m + n = n + at.i - 1 /\ at.i \in 1 .. n + 1
  BY <1>2, <1>3 DEF Pass
<1>6. Len(s.emb) = Dim * n /\ Len(t.emb) = Dim * m
  BY <1>1 DEF Tight, Loose, Rows
<1> HIDE DEF n, m, t
<1>7. m <= n
  BY <1>4, <1>5
<1>8. Dim * m \in Nat /\ Dim * n \in Nat /\ Dim * m <= Dim * n
  BY ONLY <1>4, <1>7, DimIs, TimesMono
<1> QED
  BY <1>6, <1>8 DEF V!ByteSize, t

(* The size of a shard.                                                    *)
LEMMA SizeIs ==
  ASSUME NEW s \in Tight
  PROVE  V!ByteSize(s) \in Nat
BY DEF V!ByteSize, Tight, Loose

(* The cap is met, or one shard is left.                                   *)
CapMet(order, size) ==
  (Cap > 0 /\ Bytes(order, size) > Cap) => Cardinality(ToSet(order)) = 1

(* It stays met when repositories go and shards shrink.                    *)
LEMMA CapStaysMet ==
  ASSUME NEW less \in Seq(Repos), Distinct(less), NEW order \in Seq(Repos), Distinct(order),
         ToSet(less) \subseteq ToSet(order),
         NEW small \in [Repos -> Nat], NEW size \in [Repos -> Nat],
         \A x \in ToSet(less) : small[x] <= size[x],
         CapMet(order, size)
  PROVE  CapMet(less, small)
<1> SUFFICES ASSUME Cap > 0, Bytes(less, small) > Cap
             PROVE  Cardinality(ToSet(less)) = 1
  BY DEF CapMet
<1>1. /\ Bytes(less, small) \in Nat /\ Bytes(order, size) \in Nat
      /\ Bytes(less, small) <= Bytes(order, size) /\ Cap \in Nat
  BY BytesLess, ShardAssumption
<1>2. Cardinality(ToSet(order)) = 1
  BY <1>1 DEF CapMet
<1>3. less # <<>>
  <2> SUFFICES ASSUME less = <<>> PROVE FALSE
    OBVIOUS
  <2>1. PICK f : Sums(f, less, small) /\ Bytes(less, small) = f[Len(less)]
    BY BytesLoop
  <2>2. Bytes(less, small) = 0
    BY <2>1 DEF Sums
  <2> QED
    BY <2>2, ShardAssumption
<1>4. /\ Cardinality(ToSet(less)) = Len(less) /\ Len(less) \in Nat \ {0}
      /\ IsFiniteSet(ToSet(order)) /\ IsFiniteSet(ToSet(less))
  BY <1>3, DistinctCount
<1>5. Cardinality(ToSet(less)) <= 1
  BY <1>2, <1>4, FS_Subset
<1> QED
  BY <1>4, <1>5

CapInv == CapMet(lru, SizeOf)

(* The sizes of well-formed shards.                                        *)
LEMMA SizesAre ==
  ASSUME ShardsOk
  PROVE  SizeOf \in [Repos -> Nat] /\ \A x \in Repos : SizeOf[x] = V!ByteSize(shard[x])
BY SizeIs DEF ShardsOk, SizeOf

(* After a shard was settled.                                              *)
LEMMA SettleMeetsCap ==
  ASSUME ShardsOk, NEW r \in Repos, NEW s \in Tight, s.ids # <<>>, Settle(r, s)
  PROVE  CapInv'
<1> DEFINE order == Append(Without(r), r)
           size == SizesWith(r, s)
<1>1. ShardsOk' /\ \A x \in Resident' : shard'[x] = IF x = r THEN s ELSE shard[x]
  BY SettleIs
<1>2. /\ order \in Seq(Repos) /\ Distinct(order)
  BY WithoutIs, AppendOrder
<1>3. PICK d \in 0 .. Len(order) - 1 :
        /\ lru' = Drop(order, d)
        /\ Cap = 0 \/ Bytes(lru', size) <= Cap \/ d = Len(order) - 1
  BY SettleEvicts
<1>4. lru' \in Seq(Repos) /\ Distinct(lru') /\ Resident' = ToSet(lru') /\ Resident' \subseteq Repos
  BY <1>1 DEF ShardsOk, Resident, ToSet
<1>5. size \in [Repos -> Nat] /\ \A x \in Repos : size[x] = V!ByteSize(IF x = r THEN s ELSE shard[x])
  BY SizeIs DEF SizesWith, ShardsOk
<1>6. SizeOf' \in [Repos -> Nat] /\ \A x \in Repos : SizeOf'[x] = V!ByteSize(shard'[x])
  <2>1. \A x \in Repos : shard'[x] \in Tight
    BY <1>1 DEF ShardsOk
  <2> QED
    BY <2>1, SizeIs DEF SizeOf
<1> HIDE DEF order, size
<1>7. CapMet(lru', size)
  <2>1. CASE d = Len(order) - 1
    <3> PICK n : n = Len(order)
      OBVIOUS
    <3>1. n \in Nat /\ d \in 0 .. n - 1 /\ d = n - 1
      BY <1>2, <2>1
    <3>2. d \in 0 .. n
      BY ONLY <3>1
    <3>3. Len(Drop(order, d)) = n - d
      BY ONLY <1>2, <3>2, n = Len(order), DropIs
    <3>4. Len(lru') = 1
      BY ONLY <1>3, <3>1, <3>3
    <3> QED
      BY <1>4, <3>4, DistinctCount DEF CapMet
  <2>2. CASE d # Len(order) - 1
    <3>1. Bytes(lru', size) \in Nat
      BY <1>4, <1>5, BytesLess
    <3> QED
      BY <1>3, <2>2, <3>1, ShardAssumption DEF CapMet
  <2> QED
    BY <2>1, <2>2
<1>8. \A x \in ToSet(lru') : SizeOf'[x] <= size[x]
  <2> TAKE x \in ToSet(lru')
  <2>1. SizeOf'[x] = size[x] /\ size[x] \in Nat
    BY <1>1, <1>4, <1>5, <1>6
  <2> QED
    BY <2>1
<1>9. CapMet(lru', SizeOf')
  <2> PICK o : o = lru'
    OBVIOUS
  <2> PICK z : z = SizeOf'
    OBVIOUS
  <2>1. /\ o \in Seq(Repos) /\ Distinct(o) /\ z \in [Repos -> Nat]
        /\ \A x \in ToSet(o) : z[x] <= size[x]
        /\ CapMet(o, size)
    BY <1>4, <1>6, <1>7, <1>8
  <2>2. CapMet(o, z)
    BY <1>5, <2>1, CapStaysMet
  <2> QED
    BY <2>2
<1> QED
  BY <1>9 DEF CapInv

(* A step that takes no shard in and lets none grow.                       *)
LEMMA ShrinkMeetsCap ==
  ASSUME ShardsOk, ShardsOk', CapInv, Resident' \subseteq Resident,
         \A x \in Resident' : V!ByteSize(shard'[x]) <= V!ByteSize(shard[x])
  PROVE  CapInv'
<1>1. SizeOf \in [Repos -> Nat] /\ \A x \in Repos : SizeOf[x] = V!ByteSize(shard[x])
  BY SizesAre
<1>2. SizeOf' \in [Repos -> Nat] /\ \A x \in Repos : SizeOf'[x] = V!ByteSize(shard'[x])
  <2>1. \A x \in Repos : shard'[x] \in Tight
    BY DEF ShardsOk
  <2> QED
    BY <2>1, SizeIs DEF SizeOf
<1>3. /\ lru \in Seq(Repos) /\ Distinct(lru) /\ lru' \in Seq(Repos) /\ Distinct(lru')
      /\ ToSet(lru') \subseteq ToSet(lru) /\ ToSet(lru') \subseteq Repos
  <2>1. lru \in Seq(Repos) /\ Distinct(lru) /\ lru' \in Seq(Repos) /\ Distinct(lru')
    BY DEF ShardsOk
  <2>2. Resident' = ToSet(lru') /\ Resident = ToSet(lru)
    BY DEF Resident
  <2>3. Resident' \subseteq Repos
    BY <2>1 DEF Resident, ToSet
  <2> QED
    BY <2>1, <2>2, <2>3
<1>4. \A x \in ToSet(lru') : SizeOf'[x] <= SizeOf[x]
  BY <1>1, <1>2, <1>3 DEF Resident
<1> PICK o : o = lru'
  OBVIOUS
<1> PICK z : z = SizeOf'
  OBVIOUS
<1>5. /\ o \in Seq(Repos) /\ Distinct(o) /\ z \in [Repos -> Nat]
      /\ ToSet(o) \subseteq ToSet(lru) /\ \A x \in ToSet(o) : z[x] <= SizeOf[x]
  BY <1>2, <1>3, <1>4
<1>6. CapMet(lru, SizeOf)
  BY DEF CapInv
<1> HIDE DEF SizeOf
<1>7. CapMet(o, z)
  BY <1>1, <1>3, <1>5, <1>6, CapStaysMet
<1> QED
  BY <1>7 DEF CapInv

(* No shard that stays was used before one that goes.                      *)
LEMMA SettleOrder ==
  ASSUME ShardsOk, NEW r \in Repos, NEW s \in Tight, s.ids # <<>>, Settle(r, s),
         NEW i \in 1 .. Len(lru), NEW j \in 1 .. Len(lru), i < j,
         lru[i] \in Resident', lru[i] # Last(lru')
  PROVE  lru[j] \in Resident'
<1> DEFINE k == Without(r)
           order == Append(k, r)
           N == Len(order)
<1>1. /\ k \in Seq(Repos) /\ Distinct(k) /\ ToSet(k) = Resident \ {r}
      /\ order \in Seq(Repos) /\ Distinct(order) /\ order[N] = r /\ order # <<>>
  BY WithoutIs, AppendOrder
<1>2. PICK d \in 0 .. N - 1 : lru' = Drop(order, d)
  BY SettleEvicts
<1>3. lru \in Seq(Repos) /\ Distinct(lru)
  BY DEF ShardsOk
<1>4. /\ N = Len(k) + 1 /\ Len(k) \in Nat /\ N \in Nat
      /\ \A a \in 1 .. Len(k) : order[a] = k[a]
  BY <1>1
<1>5. \A a, b \in 1 .. Len(k) :
        (k[a] = lru[i] /\ k[b] = lru[j]) => a < b
  BY <1>3, KeptOrder DEF Without
<1> HIDE DEF order, k, N
<1>6. /\ lru' \in Seq(Repos) /\ Len(lru') = N - d
      /\ \A a \in 1 .. N - d : lru'[a] = order[d + a]
  <2>1. d \in 0 .. Len(order)
    BY <1>4 DEF N
  <2>2. /\ Drop(order, d) \in Seq(Repos) /\ Len(Drop(order, d)) = Len(order) - d
        /\ \A a \in 1 .. Len(order) - d : Drop(order, d)[a] = order[d + a]
    BY ONLY <1>1, <2>1, DropIs
  <2> QED
    BY <1>2, <2>2 DEF N
<1>7. \A x : x \in Resident' <=> \E a \in 1 .. N - d : x = order[d + a]
  <2> PICK o : o = lru'
    OBVIOUS
  <2>1. \A x : x \in ToSet(o) <=> \E a \in 1 .. Len(o) : x = o[a]
    BY <1>6, InToSet
  <2>2. Resident' = ToSet(o)
    BY DEF Resident
  <2>3. 1 .. Len(o) = 1 .. N - d /\ \A a \in 1 .. N - d : o[a] = order[d + a]
    BY <1>6
  <2>4. \A x : x \in Resident' <=> \E a \in 1 .. N - d : x = o[a]
    BY ONLY <2>1, <2>2, <2>3, Zenon
  <2> QED
    BY ONLY <2>3, <2>4, Zenon
<1>8. Last(lru') = r
  <2>1. N - d \in 1 .. N - d /\ d + (N - d) = N
    BY ONLY <1>4, d \in 0 .. N - 1
  <2> QED
    BY <1>1, <1>6, <2>1 DEF Last
<1>9. PICK a \in 1 .. N - d : lru[i] = order[d + a]
  BY <1>7
<1>10. d + a \in 1 .. Len(k)
  <2>1. d + a # N
    BY <1>1, <1>8, <1>9
  <2> QED
    BY ONLY <1>4, <2>1, d \in 0 .. N - 1, a \in 1 .. N - d
<1>11. CASE lru[j] = r
  <2>1. N - d \in 1 .. N - d /\ d + (N - d) = N
    BY ONLY <1>4, d \in 0 .. N - 1
  <2> QED
    BY <1>1, <1>7, <1>11, <2>1
<1>12. CASE lru[j] # r
  <2>1. lru[j] \in ToSet(k)
    BY <1>1, <1>3, <1>12, InToSet DEF Resident
  <2>2. PICK b \in 1 .. Len(k) : lru[j] = k[b]
    BY <1>1, <2>1, InToSet
  <2>3. d + a < b
    BY <1>4, <1>5, <1>9, <1>10, <2>2
  <2>4. b - d \in 1 .. N - d /\ d + (b - d) = b
    BY <1>4, <2>3
  <2> QED
    BY <1>4, <1>7, <2>2, <2>4
<1> QED
  BY <1>11, <1>12

(* What goes: nothing that was used after what stays, or what a run or a   *)
(* deletion removes.                                                       *)
OldestGo ==
  \A i, j \in DOMAIN lru :
    (/\ lru[i] \in Resident' /\ lru[i] # Last(lru')
     /\ lru[j] \notin Resident' /\ i < j)
    => (\/ run[lru[j]].phase = "patch" /\ run'[lru[j]] = NoRun
        \/ run'[lru[j]].kind = "deletion")

(* Where nothing goes.                                                     *)
LEMMA NothingGoes ==
  ASSUME ShardsOk, ShardsOk', CapInv, UNCHANGED shard, Resident' = Resident
  PROVE  CapInv' /\ OldestGo
<1>1. \A x \in Resident' : V!ByteSize(shard'[x]) <= V!ByteSize(shard[x])
  <2> TAKE x \in Resident'
  <2>1. V!ByteSize(shard[x]) \in Nat
    <3>1. x \in Repos
      BY DEF ShardsOk, Resident, ToSet
    <3> QED
      BY <3>1, SizeIs DEF ShardsOk
  <2>2. shard'[x] = shard[x]
    OBVIOUS
  <2> QED
    BY <2>1, <2>2
<1>2. CapInv'
  BY <1>1, ShrinkMeetsCap
<1>3. \A j \in DOMAIN lru : lru[j] \in Resident
  BY DEF Resident, ToSet
<1> QED
  BY <1>2, <1>3 DEF OldestGo

(* A settled shard, empty or not.                                          *)
LEMMA SettleKeepsOrder ==
  ASSUME ShardsOk, CapInv, NEW r \in Repos, NEW s \in Tight, Settle(r, s),
         s.ids = <<>> => (run[r].phase = "patch" /\ run'[r] = NoRun)
  PROVE  CapInv' /\ OldestGo
<1>1. lru \in Seq(Repos) /\ DOMAIN lru = 1 .. Len(lru)
  BY DEF ShardsOk
<1>2. \A j \in DOMAIN lru : lru[j] \in Resident
  BY DEF Resident, ToSet
<1>3. CASE s.ids = <<>>
  <2>1. /\ ShardsOk' /\ Resident' = Resident \ {r}
        /\ \A x \in Resident' : shard'[x] = shard[x]
    BY <1>3, EvictRepoIs DEF Settle
  <2>2. \A x \in Resident' : V!ByteSize(shard'[x]) <= V!ByteSize(shard[x])
    <3> TAKE x \in Resident'
    <3>1. x \in Repos
      BY <2>1 DEF ShardsOk, Resident, ToSet
    <3>2. V!ByteSize(shard[x]) \in Nat /\ shard'[x] = shard[x]
      BY <2>1, <3>1, SizeIs DEF ShardsOk
    <3> QED
      BY <3>2
  <2>3. CapInv'
    BY <2>1, <2>2, ShrinkMeetsCap
  <2>4. OldestGo
    BY <1>2, <1>3, <2>1 DEF OldestGo
  <2> QED
    BY <2>3, <2>4
<1>4. CASE s.ids # <<>>
  <2>1. CapInv'
    BY <1>4, SettleMeetsCap
  <2>2. OldestGo
    <3> SUFFICES ASSUME NEW i \in 1 .. Len(lru), NEW j \in 1 .. Len(lru), i < j,
                        lru[i] \in Resident', lru[i] # Last(lru')
                 PROVE  lru[j] \in Resident'
      BY <1>1 DEF OldestGo
    <3> QED
      BY <1>4, SettleOrder
  <2> QED
    BY <2>1, <2>2
<1> QED
  BY <1>3, <1>4

(* The steps that change the index.                                        *)
LEMMA PatchEvicts ==
  ASSUME ExactInv, CapInv, NEW r \in Repos, PatchShard(r)
  PROVE  CapInv' /\ OldestGo
<1> DEFINE x == run[r]
<1>1. /\ ShardsOk /\ shard[r] \in Tight /\ RunOk(x, chunk[r], FilesOf[r])
      /\ x.phase = "patch" /\ run'[r] = NoRun
  BY DEF PatchShard, ExactInv, ShardsOk, TablesOk
<1>2. x.new \in Seq(Chunks) /\ x.files \subseteq FilesOf[r]
  BY <1>1 DEF RunOk, RunRecord
<1>3. IsFiniteSet(x.files)
  BY <1>2, FS_Subset, ShardAssumption
<1>4. CASE x.kind = "rebuild"
  <2> DEFINE s == V!Insert(V!EmptyShard, x.new)
  <2>1. Settle(r, s)
    BY <1>4 DEF PatchShard, ReplaceRepo, InstallShard
  <2>2. s \in Tight
    <3>1. V!EmptyShard \in Loose
      BY EmptyTight DEF Tight
    <3> QED
      BY <1>2, <3>1, EmptyTight, InsertIs
  <2> HIDE DEF s
  <2> QED
    BY <1>1, <2>1, <2>2, SettleKeepsOrder
<1>5. CASE x.kind # "rebuild"
  <2>1. ApplyIncremental(r, x.files, x.new)
    BY <1>5 DEF PatchShard
  <2>2. PICK s \in Tight : Settle(r, s)
    BY <1>1, <1>2, <1>3, <2>1, ApplyIncrementalIs
  <2> QED
    BY <1>1, <2>2, SettleKeepsOrder
<1> QED
  BY <1>4, <1>5

(* The deletion of an index takes its shard out and shrinks those inside   *)
(* it.                                                                     *)
LEMMA ClearEvicts ==
  ASSUME ExactInv, CapInv, NEW r \in Repos, ClearRepoIndex(r)
  PROVE  CapInv' /\ OldestGo
<1>1. ShardsOk /\ run \in [Repos -> RunRecord]
  BY DEF ExactInv, TablesOk
<1>2. RemoveRepo(r) /\ run'[r].kind = "deletion"
  <2>1. run[r] \in RunRecord
    BY <1>1
  <2>2. run' = [run EXCEPT ![r] = [[run[r] EXCEPT !.phase = "delete"] EXCEPT !.kind = "deletion"]]
    BY <1>1 DEF ClearRepoIndex
  <2>3. run'[r] = [[run[r] EXCEPT !.phase = "delete"] EXCEPT !.kind = "deletion"]
    BY <1>1, <2>2
  <2>4. run'[r].kind = "deletion"
    BY <2>1, <2>3 DEF RunRecord
  <2> QED
    BY <2>4 DEF ClearRepoIndex
<1>3. ShardsOk' /\ Resident' = Resident \ {r}
  BY <1>1, <1>2, RemoveRepoIs
<1>4. \A x \in Resident' : V!ByteSize(shard'[x]) <= V!ByteSize(shard[x])
  <2> TAKE x \in Resident'
  <2>1. x \in Repos /\ x # r /\ shard[x] \in Tight
    <3>1. x # r /\ x \in Resident
      BY <1>3
    <3>2. Resident \subseteq Repos
      BY <1>1 DEF ShardsOk, Resident, ToSet
    <3> QED
      BY <1>1, <3>1, <3>2 DEF ShardsOk
  <2>2. shard'[x] = V!RemoveMatching(shard[x], {c \in Chunks : c[1] \in FilesOf[r]})
    BY <1>2, <2>1 DEF RemoveRepo
  <2> QED
    BY <2>1, <2>2, RemoveShrinks
<1>5. CapInv'
  BY <1>1, <1>3, <1>4, ShrinkMeetsCap
<1>6. \A j \in DOMAIN lru : lru[j] \in Resident
  BY DEF Resident, ToSet
<1>7. OldestGo
  BY <1>2, <1>3, <1>6 DEF OldestGo
<1> QED
  BY <1>5, <1>7

(* A warm-up settles the shard that it has scanned.                        *)
LEMMA InstallEvicts ==
  ASSUME ExactInv, CapInv, NEW t \in Tasks, Install(t), ExactInv'
  PROVE  CapInv' /\ OldestGo
<1>1. repo[t] \in Repos /\ loaded[t] \in Tight
  BY DEF ExactInv, FlightInv, MiscOk, Install
<1>2. CASE loaded[t].ids = <<>>
  <2>1. UNCHANGED shard /\ Resident' = Resident
    BY <1>2 DEF Install, index, Resident
  <2> QED
    BY <2>1, NothingGoes DEF ExactInv
<1>3. CASE loaded[t].ids # <<>>
  BY <1>1, <1>3, SettleKeepsOrder DEF Install, InstallShard, ExactInv
<1> QED
  BY <1>2, <1>3

(* An answer changes the recency of a repository.                          *)
LEMMA AnswerEvicts ==
  ASSUME ExactInv, CapInv, NEW t \in Tasks, Answer(t), ExactInv'
  PROVE  CapInv' /\ OldestGo
<1>1. UNCHANGED shard /\ ShardsOk /\ ShardsOk'
  BY DEF Answer, ExactInv
<1>2. Resident' = Resident
  <2>1. CASE repo[t] \in Resident
    <3>1. lru' = Append(Without(repo[t]), repo[t]) /\ repo[t] \in Repos
      BY <1>1, <2>1 DEF Answer, ShardsOk, Resident, ToSet
    <3>2. ToSet(lru') = (Resident \ {repo[t]}) \cup {repo[t]}
      BY <1>1, <3>1, WithoutIs, AppendOrder
    <3> QED
      BY <2>1, <3>2 DEF Resident
  <2>2. CASE repo[t] \notin Resident
    BY <2>2 DEF Answer, Resident
  <2> QED
    BY <2>1, <2>2
<1> QED
  BY <1>1, <1>2, NothingGoes

(* Every step meets the cap, in the order of recency.                      *)
LEMMA EvictionStep ==
  ASSUME ExactInv, ExactInv', CapInv, [Next]_vars
  PROVE  CapInv' /\ OldestGo
<1>1. CASE UNCHANGED index
  <2>1. UNCHANGED shard /\ Resident' = Resident
    BY <1>1 DEF index, Resident
  <2> QED
    BY <2>1, NothingGoes DEF ExactInv
<1>2. ASSUME NEW r \in Repos, PatchShard(r) \/ ClearRepoIndex(r)
      PROVE  CapInv' /\ OldestGo
  BY <1>2, PatchEvicts, ClearEvicts
<1>3. ASSUME NEW t \in Tasks, Install(t) \/ Answer(t)
      PROVE  CapInv' /\ OldestGo
  BY <1>3, InstallEvicts, AnswerEvicts
<1>4. ASSUME NEW r \in Repos,
             \/ StartRebuild(r)
             \/ \E f \in FilesOf[r] : StartIncremental(r, f) \/ StartIgnore(r, f)
                                        \/ WriteRows(r, f)
             \/ DeleteRows(r) \/ EndStream(r) \/ AbortRun(r) \/ RemoveIndexDir(r)
      PROVE  UNCHANGED index
  BY <1>4 DEF StartRebuild, StartIncremental, StartIgnore, WriteRows, DeleteRows, EndStream,
     AbortRun, RemoveIndexDir, BeginRun
<1>5. ASSUME NEW t \in Tasks,
             \/ \E r \in Repos : Query(t, r) \/ WarmInBackground(t, r)
             \/ TakeWarmLock(t) \/ CheckResident(t) \/ ScanTable(t) \/ ScanFails(t)
             \/ Timeout(t)
      PROVE  UNCHANGED index
  BY <1>5 DEF Query, WarmInBackground, TakeWarmLock, CheckResident, ScanTable, ScanFails, Timeout
<1>6. CASE UNCHANGED vars
  BY <1>1, <1>6 DEF vars
<1> QED
  BY <1>1, <1>2, <1>3, <1>4, <1>5, <1>6 DEF Next, Warm

(* Initially the cap is met.                                               *)
LEMMA CapInit == Init => CapInv
<1> SUFFICES ASSUME Init PROVE CapInv
  OBVIOUS
<1>1. ShardsOk /\ lru = <<>>
  BY ExactInit DEF ExactInv, Init
<1>2. PICK f : Sums(f, lru, SizeOf) /\ Bytes(lru, SizeOf) = f[Len(lru)]
  BY <1>1, SizesAre, BytesLoop DEF ShardsOk
<1>3. Bytes(lru, SizeOf) = 0
  BY <1>1, <1>2 DEF Sums
<1> QED
  BY <1>3, ShardAssumption DEF CapInv, CapMet

(* evict_to_cap: whatever steps change the resident shards, they are       *)
(* within the cap or one is left, and no shard goes that was used after    *)
(* one that stays, unless a run emptied it or its index is deleted.        *)
THEOREM EvictionsAreLru == Spec => EvictionIsLru
<1> DEFINE Body ==
      /\ (Cap > 0 /\ ResidentBytes' > Cap) => Cardinality(Resident') = 1
      /\ \A i, j \in DOMAIN lru :
           (/\ lru[i] \in Resident' /\ lru[i] # Last(lru')
            /\ lru[j] \notin Resident' /\ i < j)
           => (\/ run[lru[j]].phase = "patch" /\ run'[lru[j]] = NoRun
               \/ run'[lru[j]].kind = "deletion")
<1>1. ExactInv /\ CapInv /\ [Next]_vars => (ExactInv /\ CapInv)' /\ [Body]_vars
  <2> SUFFICES ASSUME ExactInv, CapInv, [Next]_vars PROVE ExactInv' /\ CapInv' /\ Body
    OBVIOUS
  <2>1. ExactInv' /\ CapInv' /\ OldestGo
    BY ExactStep, EvictionStep
  <2>2. (Cap > 0 /\ ResidentBytes' > Cap) => Cardinality(Resident') = 1
    BY <2>1 DEF CapInv, CapMet, ResidentBytes, Resident, SizeOf
  <2> QED
    BY ONLY <2>1, <2>2 DEF OldestGo
<1>2. Init => ExactInv /\ CapInv
  BY ExactInit, CapInit
<1> HIDE DEF Body
<1>3. Spec => [][Body]_vars
  BY <1>1, <1>2, PTL DEF Spec
<1> QED
  BY <1>3 DEF EvictionIsLru, Body
=============================================================================
