---------------------------- MODULE SearchFusion ----------------------------
(***************************************************************************)
(* How a search of the own documents puts its answer together: the         *)
(* channels of one variant, cut in SQL and fused by reciprocal ranks       *)
(* (src/files/db/search.ts), and the variants of one call merged round-    *)
(* robin (src/mcp/tools/files.ts).                                         *)
(*                                                                         *)
(* A passage is a document and its chunk; a variant is what each channel   *)
(* would match without limits. The SQL functions rank by relevance: here   *)
(* and by the order of the passages, idn by the opposite one.              *)
(***************************************************************************)
EXTENDS Naturals, FiniteSets, Sequences, Functions

CONSTANTS
    FusedDocs, ChunkOrds,  \* numbers; the library's documents and the chunks of each
    ChannelDepth,  \* CHANNEL_DEPTH: rows of one channel
    SqlPerDoc,     \* of them for one document
    ShownPerDoc,   \* CHUNKS_PER_DOC
    DocDepth       \* DOC_DEPTH: rows of one channel inside one document

VARIABLES
    fused,         \* the variants of the call and the document it is inside of
    fusedAnswers,  \* what the search of each of them gave
    fusedEntries   \* the merged list, once there is one

fusionVars == <<fused, fusedAnswers, fusedEntries>>

ASSUME FusionAssumption ==
    /\ FusedDocs \subseteq Nat \ {0} /\ IsFiniteSet(FusedDocs)
    /\ ChunkOrds \subseteq Nat \ {0} /\ IsFiniteSet(ChunkOrds)
    /\ {ChannelDepth, SqlPerDoc, ShownPerDoc, DocDepth} \subseteq Nat \ {0}
    /\ ShownPerDoc <= SqlPerDoc

NoDoc == 0
ChunkChannels == {"and", "idn"}
\* The first document is a long one, the others have one chunk.
Passages == {p \in FusedDocs \X ChunkOrds : p[1] = 1 \/ p[2] = 1}

\* A variant: what the channels match; the documents that meta does are <<document, 0>>.
Variants == [and : SUBSET Passages, idn : SUBSET Passages, meta : SUBSET (FusedDocs \X {0})]

(* RRF_K and CHANNEL_WEIGHTS, times 2 and a number every k + rank divides. *)
ScaleOfRanks == 61 * 62 * 63 * 64
ChannelWeight == [and |-> 2, idn |-> 3, meta |-> 2]
Contribution(h) == ChannelWeight[h.channel] * (ScaleOfRanks \div (60 + h.rank))

Before(channel, p, q) ==
    LET earlier(a, b) == a[1] < b[1] \/ (a[1] = b[1] /\ a[2] < b[2])
    IN  IF channel = "idn" THEN earlier(q, p) ELSE earlier(p, q)

(* One branch of the statement: the hits for each document are cut before  *)
(* the limit, and counted before both.                                     *)
ChannelRows_limitFirst(S, channel, perDoc, limit) ==
    LET ahead(p, T) == Cardinality({q \in T : Before(channel, q, p)})
        kept == {p \in S : ahead(p, S) < limit}
        within == {p \in kept : ahead(p, {q \in kept : q[1] = p[1]}) < perDoc}
    IN  {[channel |-> channel, doc |-> p[1], ord |-> p[2], rank |-> ahead(p, within) + 1,
          total |-> Cardinality({q \in within : q[1] = p[1]})] : p \in within}

ChannelRows(S, channel, perDoc, limit) ==
    LET ahead(p, T) == Cardinality({q \in T : Before(channel, q, p)})
        kept == {p \in S : ahead(p, {q \in S : q[1] = p[1]}) < perDoc}
        hits == {[channel |-> channel, doc |-> p[1], ord |-> p[2], rank |-> ahead(p, kept) + 1,
                  total |-> Cardinality({q \in S : q[1] = p[1]})] : p \in kept}
    IN  {h \in hits : h.rank <= limit}

searchChannels(variant, perDoc, limit) ==
    UNION {ChannelRows(variant[channel], channel, perDoc, limit) : channel \in DOMAIN variant}

Most(S) == CHOOSE n \in S : \A m \in S : m <= n
Best(ranked, perDoc) == SubSeq(ranked, 1, IF Len(ranked) < perDoc THEN Len(ranked) ELSE perDoc)

\* S as a sequence; before has the pairs whose first comes first.
InOrder(S, before) ==
    [i \in 1 .. Cardinality(S) |-> CHOOSE x \in S : Cardinality({y \in S : <<y, x>> \in before}) = i - 1]

\* The numbers of DOMAIN score, the best first, the smaller first of two as good.
ByScore(score) ==
    LET S == DOMAIN score
    IN  InOrder(S, {p \in S \X S : score[p[1]] > score[p[2]] \/ (score[p[1]] = score[p[2]] /\ p[1] < p[2])})

ScoreOf(hits) == FoldFunctionOnSet(+, 0, [h \in hits |-> Contribution(h)], hits)

(* A document's best perDoc chunks by score, then by position, and how     *)
(* many more are known; a document scores its best chunk and its meta hit. *)
FusedDoc(hits, d, perDoc) ==
    LET of == {h \in hits : h.doc = d /\ h.ord # 0}
        score == [o \in {h.ord : h \in of} |-> ScoreOf({h \in of : h.ord = o})]
        ranked == ByScore(score)
        shown == Best(ranked, perDoc)
    IN  [doc |-> d,
         chunks |-> [i \in DOMAIN shown |-> [ord |-> shown[i], score |-> score[shown[i]]]],
         more |-> Most({h.total : h \in of} \cup {Len(ranked)}) - Len(shown),
         score |-> (IF ranked = <<>> THEN 0 ELSE score[ranked[1]]) + ScoreOf({h \in hits : h.doc = d /\ h.ord = 0})]

fuse(hits, perDoc) ==
    LET found == [d \in {h.doc : h \in hits} |-> FusedDoc(hits, d, perDoc)]
        order == ByScore([d \in DOMAIN found |-> found[d].score])
    IN  [i \in DOMAIN order |-> found[order[i]]]

searchVariant_moreThanDepth(variant, docMode) ==
    LET perDoc == IF docMode THEN DocDepth ELSE SqlPerDoc
        limit == IF docMode THEN DocDepth ELSE ChannelDepth
        hits == searchChannels(variant, perDoc, limit)
        rows(channel) == {h \in hits : h.channel = channel}
    IN  [docs |-> fuse(hits, IF docMode THEN 3 * DocDepth ELSE ShownPerDoc),
         saturated |-> \E channel \in DOMAIN variant : Cardinality(rows(channel)) > limit]

searchVariant(variant, docMode) ==
    LET perDoc == IF docMode THEN DocDepth ELSE SqlPerDoc
        limit == IF docMode THEN DocDepth ELSE ChannelDepth
        hits == searchChannels(variant, perDoc, limit)
        rows(channel) == {h \in hits : h.channel = channel}
    IN  [docs |-> fuse(hits, IF docMode THEN 3 * DocDepth ELSE ShownPerDoc),
         saturated |-> IF docMode
                       THEN \E h \in hits : h.channel # "meta" /\ h.total > Cardinality(rows(h.channel))
                       ELSE \E channel \in DOMAIN variant : Cardinality(rows(channel)) >= limit]

(* Round-robin by rank; a key seen before is left out: the keys, by the    *)
(* first turn at which each comes.                                         *)
interleave(lists) ==
    LET keys == UNION {Range(lists[i]) : i \in DOMAIN lists}
        turns(x) == UNION {{(k - 1) * Len(lists) + i : k \in {n \in DOMAIN lists[i] : lists[i][n] = x}} : i \in DOMAIN lists}
        turn == [x \in keys |-> CHOOSE t \in turns(x) : \A u \in turns(x) : t <= u]
    IN  InOrder(keys, {p \in keys \X keys : turn[p[1]] < turn[p[2]]})

\* What the variants' records say of one document.
Entry(records, d) ==
    LET all == {r \in records : r.doc = d}
        scored == UNION {Range(r.chunks) : r \in all}
        ranked == ByScore([o \in {c.ord : c \in scored} |-> Most({c.score : c \in {s \in scored : s.ord = o}})])
        shown == Best(ranked, ShownPerDoc)
    IN  [doc |-> d, chunks |-> shown,
         more |-> Most({r.more + Len(r.chunks) : r \in all} \cup {Len(ranked)}) - Len(shown)]

mergeVariants(lists) ==
    LET records == UNION {Range(lists[i]) : i \in DOMAIN lists}
        order == interleave([i \in DOMAIN lists |-> [k \in DOMAIN lists[i] |-> lists[i][k].doc]])
    IN  [i \in DOMAIN order |-> Entry(records, order[i])]

\* A list inside one document has no other.
mergePassages(lists) ==
    LET passages(list) == IF list = <<>> THEN <<>>
                          ELSE [k \in DOMAIN list[1].chunks |-> <<list[1].doc, list[1].chunks[k].ord>>]
    IN  interleave([i \in DOMAIN lists |-> passages(lists[i])])
-----------------------------------------------------------------------------
\* One variant, or two of which the second has words only.
FusionSamples ==
    LET words == {v \in Variants : v.idn = {} /\ v.meta = {} /\ Cardinality(v.and) = 1}
    IN  {<<v>> : v \in Variants} \cup {<<v, w>> : v \in {u \in Variants : u.meta = {}}, w \in words}

(* One call: its variants are searched one by one, then merged; inside one *)
(* document or (NoDoc) across the library.                                 *)
Inside(variant, d) == IF d = NoDoc THEN variant ELSE [c \in DOMAIN variant |-> {p \in variant[c] : p[1] = d}]
Merged(lists, d) == IF d = NoDoc THEN mergeVariants(lists)
                    ELSE mergePassages(lists)

FusionInit ==
    /\ fused \in FusionSamples \X (FusedDocs \cup {NoDoc})
    /\ fusedAnswers = <<>>
    /\ fusedEntries = <<>>

FusionSearches ==
    /\ Len(fusedAnswers) < Len(fused[1])
    /\ LET variant == fused[1][Len(fusedAnswers) + 1]
       IN  fusedAnswers' = Append(fusedAnswers, searchVariant(Inside(variant, fused[2]), fused[2] # NoDoc))
    /\ UNCHANGED <<fused, fusedEntries>>

FusionMerges ==
    /\ Len(fusedAnswers) = Len(fused[1]) /\ fusedEntries = <<>>
    /\ fusedEntries' = <<Merged([i \in DOMAIN fusedAnswers |-> fusedAnswers[i].docs], fused[2])>>
    /\ UNCHANGED <<fused, fusedAnswers>>

FusionNext == FusionSearches \/ FusionMerges
-----------------------------------------------------------------------------
(* What the answer says of how much there is. Matches is the reference:    *)
(* everything any channel of any of the variants matches.                  *)
Matches == UNION {v.and \cup v.idn \cup v.meta : v \in Range(fused[1])}
Within(d) == {p \in Matches : p[1] = d /\ p[2] # 0}
Unsaturated == \A i \in DOMAIN fusedAnswers : ~fusedAnswers[i].saturated

(* Across the library: without a "+" every document that matches is        *)
(* listed; "other matches: N" is never more than there are, and where it   *)
(* is missing every passage is shown; and the best document of each        *)
(* variant is among the first, one place per variant.                      *)
LibraryCountsHonest(entries) ==
    /\ Unsaturated => {entries[i].doc : i \in DOMAIN entries} = {p[1] : p \in Matches}
    /\ \A i \in DOMAIN entries :
         /\ Len(entries[i].chunks) + entries[i].more <= Cardinality(Within(entries[i].doc))
         /\ Unsaturated /\ entries[i].more = 0
                => Range(entries[i].chunks) = {p[2] : p \in Within(entries[i].doc)}
    /\ \A i \in DOMAIN fusedAnswers : fusedAnswers[i].docs # <<>> =>
         \E k \in DOMAIN entries : k <= Len(fusedAnswers) /\ entries[k].doc = fusedAnswers[i].docs[1].doc

(* Inside one document: without a "+" every passage that matches is        *)
(* listed, each once, and the number said is not more than there are.      *)
DocCountsHonest(entries) ==
    /\ Len(entries) = Cardinality(Range(entries)) /\ Range(entries) \subseteq Within(fused[2])
    /\ \A i \in DOMAIN fusedAnswers : fusedAnswers[i].docs # <<>> =>
         Len(fusedAnswers[i].docs[1].chunks) + fusedAnswers[i].docs[1].more <= Cardinality(Within(fused[2]))
    /\ Unsaturated => Range(entries) = Within(fused[2])

CountsAreHonest ==
    fusedEntries # <<>> => IF fused[2] = NoDoc THEN LibraryCountsHonest(fusedEntries[1]) ELSE DocCountsHonest(fusedEntries[1])
=============================================================================
