------------------------------ MODULE Snippets ------------------------------
(***************************************************************************)
(* The lines of one file on their way into an answer: chunk_file of        *)
(* src/parsing/chunker.rs cuts the file into chunks, merge_chunks of       *)
(* src/query/merger.rs joins those a search found, sanitize_ranges of      *)
(* src/query/reranker.rs cleans the ranges a model selects in them, and    *)
(* merge_overlapping_blocks and assemble_with_budget of src/mcp.rs make    *)
(* the text of the answer.  A text is the sequence of its line numbers.    *)
(***************************************************************************)
EXTENDS Integers, Sequences, FiniteSets, SequencesExt, FiniteSetsExt

CONSTANTS
  MaxLines,   (* Bound on the lines of the file,                           *)
  MaxRanges,  (* on its symbols and on the ranges asked for at a time,     *)
  MaxFound,   (* and on the chunks a search finds.                         *)
  Window,     (* WINDOW: lines of a coverage chunk (50 in the code).       *)
  Stride,     (* STRIDE: where the next one begins (25).                   *)
  MergeCap,   (* Lines of a merged chunk (60).                             *)
  Pad,        (* RANGE_PAD (2).                                            *)
  TopK,       (* Chunks kept by the merge.                                 *)
  MaxBlocks,  (* Bound on the blocks before the last selection.            *)
  Budget      (* Lines the answer may have (a number of characters).       *)

(* What the checked instances assume of the constants.                     *)
SnippetsAssumption ==
  /\ MaxLines \in Nat /\ MaxRanges \in Nat /\ MaxFound \in Nat /\ MaxBlocks \in Nat
  /\ Window \in Nat /\ Stride \in 1 .. Window
  /\ MergeCap \in Nat /\ Pad \in Nat /\ TopK \in Nat /\ Budget \in Nat

VARIABLES
  progress,   (* How far the file has come.                                *)
  lines,      (* Lines of the file.                                        *)
  blank,      (* The blank ones.                                           *)
  spans,      (* The line ranges of its symbols.                           *)
  chunks,     (* Its chunks.                                               *)
  hits,       (* The chunks the search found.                              *)
  merged,     (* The chunks after the merge, with their text.              *)
  asked,      (* Lines the model asked for.                                *)
  blocks,     (* The blocks of the answer, in the order of their rank.     *)
  shown       (* shown[i]: what the answer shows of block i.               *)

vars == <<progress, lines, blank, spans, chunks, hits, merged, asked, blocks, shown>>

Interval(first, last) == [from |-> first, to |-> last]
LinesOf(r) == r.from .. r.to
AllLines(ranges) == UNION {LinesOf(r) : r \in ranges}
Intervals(n) == {r \in [from : 1 .. n, to : 1 .. n] : r.from <= r.to}
Some(ranges) == {{}} \cup {Range(f) : f \in [1 .. MaxRanges -> ranges]}

TypeOK ==
  /\ progress \in {"file", "chunked", "merged", "selected", "joined", "answered"}
  /\ lines \in 0 .. MaxLines /\ blank \subseteq 1 .. lines
  /\ \A r \in chunks \cup hits \cup Range(blocks) :
       r.from \in 1 .. r.to /\ r.to <= lines
  /\ asked \subseteq 1 .. lines
  /\ \A i \in DOMAIN shown : shown[i] \in {"full", "short", "none"}

Init ==
  /\ progress = "file"
  /\ lines \in 0 .. MaxLines
  /\ blank \in SUBSET (1 .. lines)
  /\ spans \in Some(Intervals(lines + 1))
  /\ chunks = {} /\ hits = {} /\ merged = {} /\ asked = {}
  /\ blocks = <<>> /\ shown = <<>>

(* Sorted by their first line; ties are broken arbitrarily.                *)
Sorted(ranges) ==
  {s \in SetToSeqs(ranges) : \A i, j \in DOMAIN s : i < j => s[i].from <= s[j].from}

-----------------------------------------------------------------------------
(* chunk_file: the symbols, a window wherever one overlaps a line outside  *)
(* of them, and none of these chunks if it is blank.                       *)
SymbolChunks ==
  {Interval(r.from, Min({r.to, lines})) : r \in {s \in spans : s.from <= lines}}

Windows ==
  {Interval(first, Min({first + Window - 1, lines})) :
     first \in {i \in 1 .. lines : (i - 1) % Stride = 0}}

ChunkFile ==
  /\ progress = "file" /\ progress' = "chunked"
  /\ LET gaps == {w \in Windows : ~(LinesOf(w) \subseteq AllLines(SymbolChunks))}
     IN  chunks' = {c \in SymbolChunks \cup gaps : ~(LinesOf(c) \subseteq blank)}
  /\ UNCHANGED <<lines, blank, spans, hits, merged, asked, blocks, shown>>

-----------------------------------------------------------------------------
(* merge_chunks                                                            *)

Text(r) == [i \in 1 .. (r.to - r.from + 1) |-> r.from + i - 1]
WithText(r) == [from |-> r.from, to |-> r.to, text |-> Text(r)]
TailFrom(s, n) == SubSeq(s, n + 1, Len(s))

JoinNext_OverlapLate(done, next) ==
  LET last == Last(done)
      end == Max({last.to, next.to})
      overlap == IF next.from <= end THEN end - next.from + 1 ELSE 0
  IN  IF done # <<>> /\ next.from <= last.to + 2 /\ end - last.from + 1 <= MergeCap
      THEN Append(Front(done),
                  [last EXCEPT !.to = end, !.text = @ \o TailFrom(next.text, overlap)])
      ELSE Append(done, next)

(* A chunk that begins at most one line after the last one is joined to    *)
(* it, unless the result would be too long; the lines both have come once. *)
JoinNext(done, next) ==
  LET last == Last(done)
      end == Max({last.to, next.to})
      overlap == IF next.from <= last.to THEN last.to - next.from + 1 ELSE 0
  IN  IF done # <<>> /\ next.from <= last.to + 2 /\ end - last.from + 1 <= MergeCap
      THEN Append(Front(done),
                  [last EXCEPT !.to = end, !.text = @ \o TailFrom(next.text, overlap)])
      ELSE Append(done, next)

Inside(r, s) == s.from <= r.from /\ r.to <= s.to

Joined(sorted) ==
  LET done[n \in 0 .. Len(sorted)] ==
        IF n = 0 THEN <<>> ELSE JoinNext(done[n - 1], WithText(sorted[n]))
  IN  Range(done[Len(sorted)])

(* What lies in a wider one is dropped.                                    *)
Survivors(found) == {r \in found : \A s \in found : Inside(r, s) => Inside(s, r)}

(* The best TopK of what is left; any chunk may score best.                *)
MergeChunks ==
  /\ progress = "chunked" /\ progress' = "merged"
  /\ hits' \in {h \in SUBSET chunks : Cardinality(h) \in 1 .. MaxFound}
  /\ \E sorted \in Sorted(hits') :
       LET left == Survivors(Joined(sorted))
       IN  merged' \in {m \in SUBSET left : Cardinality(m) = Min({TopK, Cardinality(left)})}
  /\ chunks' = {} /\ blank' = {} /\ spans' = {}
  /\ UNCHANGED <<lines, asked, blocks, shown>>

-----------------------------------------------------------------------------
(* sanitize_ranges and the blocks of run_query_with_filters.               *)

Clamped(r, c) == Interval(Max({r.from - Min({r.from, Pad}), c.from}), Min({r.to + Pad, c.to}))

(* Ranges that overlap or touch become one.                                *)
Coalesce(done, r) ==
  IF done # <<>> /\ r.from <= Last(done).to + 1
  THEN Append(Front(done), [Last(done) EXCEPT !.to = Max({@, r.to})])
  ELSE Append(done, r)

Coalesced(sorted) ==
  LET done[n \in 0 .. Len(sorted)] ==
        IF n = 0 THEN <<>> ELSE Coalesce(done[n - 1], sorted[n])
  IN  done[Len(sorted)]

Sanitized(ranges, c) ==
  LET usable == {r \in {Clamped(s, c) : s \in ranges} : r.from <= r.to}
  IN  IF usable = {} THEN {<<Interval(c.from, c.to)>>}
      ELSE {Coalesced(sorted) : sorted \in Sorted(usable)}

(* The next chunk in rank, whole or reduced to the ranges asked for; an    *)
(* index that comes twice selects twice.                                   *)
Select ==
  /\ progress = "merged"
  /\ Len(blocks) < MaxBlocks
  /\ \E c \in merged, ranges \in Some(Intervals(lines)) :
       /\ \E list \in Sanitized(ranges, c) : blocks' = blocks \o list
       /\ asked' = asked \cup (AllLines(ranges) \cap LinesOf(c))
  /\ UNCHANGED <<progress, lines, blank, spans, chunks, hits, merged, shown>>

Selected ==
  /\ progress = "merged" /\ blocks # <<>> /\ progress' = "selected"
  /\ merged' = {} /\ hits' = {}
  /\ UNCHANGED <<lines, blank, spans, chunks, asked, blocks, shown>>

-----------------------------------------------------------------------------
(* merge_overlapping_blocks: a merged block takes the place of the first   *)
(* of the blocks it is made of.                                            *)
Rank(r) == Min({i \in DOMAIN blocks : Inside(blocks[i], r)})

MergeBlocks ==
  /\ progress = "selected" /\ progress' = "joined"
  /\ \E sorted \in {s \in SetToSeqs(DOMAIN blocks) :
                      \A i, j \in DOMAIN s : i < j => blocks[s[i]].from <= blocks[s[j]].from} :
       LET joined == Range(Coalesced([i \in DOMAIN sorted |-> blocks[sorted[i]]]))
       IN  blocks' \in {s \in SetToSeqs(joined) :
                           \A i, j \in DOMAIN s : i < j => Rank(s[i]) < Rank(s[j])}
  /\ UNCHANGED <<lines, blank, spans, chunks, hits, merged, asked, shown>>

(* assemble_with_budget: blocks in full until one does not fit, then only  *)
(* header and first line of each, as far as these fit.                     *)
Full(r) == 1 + r.to - r.from + 1
Short(r) == IF r.to > r.from THEN 3 ELSE 2

Show(answer, r) ==
  IF ~answer.over /\ answer.size + Full(r) <= Budget
  THEN [answer EXCEPT !.size = @ + Full(r), !.forms = Append(@, "full")]
  ELSE IF answer.size + Short(r) <= Budget
  THEN [over |-> TRUE, size |-> answer.size + Short(r), forms |-> Append(answer.forms, "short")]
  ELSE [answer EXCEPT !.over = TRUE, !.forms = Append(@, "none")]

Assemble ==
  /\ progress = "joined" /\ progress' = "answered"
  /\ LET answer[n \in 0 .. Len(blocks)] ==
           IF n = 0 THEN [over |-> FALSE, size |-> 0, forms |-> <<>>]
           ELSE Show(answer[n - 1], blocks[n])
     IN  shown' = answer[Len(blocks)].forms
  /\ UNCHANGED <<lines, blank, spans, chunks, hits, merged, asked, blocks>>

Next ==
  ChunkFile \/ MergeChunks \/ Select \/ Selected \/ MergeBlocks \/ Assemble

Spec == Init /\ [][Next]_vars

-----------------------------------------------------------------------------
(* No line gets lost or comes twice on the way from the file to the        *)
(* answer: every line that is not blank is in a chunk; every line the      *)
(* search found is in a merged chunk, and its stored text (what is         *)
(* answered if the file is gone) has each such line once and in order;     *)
(* every line the model asked for is in a block; after the merge in one    *)
(* block only; and a block is shown in full only if all before it are.     *)
LinesKept ==
  /\ progress = "chunked" => (1 .. lines) \ blank \subseteq AllLines(chunks)
  /\ progress = "merged" /\ Cardinality(merged) < TopK =>
       AllLines(hits) \subseteq UNION {Range(c.text) : c \in merged}
  /\ \A c \in merged : /\ Range(c.text) \subseteq LinesOf(c)
                       /\ \A i, j \in DOMAIN c.text : i < j => c.text[i] < c.text[j]
  /\ asked \subseteq AllLines(Range(blocks))
  /\ progress \in {"joined", "answered"} =>
       \A i, j \in DOMAIN blocks : i # j => LinesOf(blocks[i]) \cap LinesOf(blocks[j]) = {}
  /\ \A i, j \in DOMAIN shown : i < j /\ shown[j] = "full" => shown[i] = "full"
=============================================================================
