------------------------------ MODULE DmdChunks ------------------------------
(***************************************************************************)
(* The chunks search looks in: the content of a parsed document cut into   *)
(* spans of about the same size (src/src/files/index/derive.ts). A chunk   *)
(* stays under one heading, keeps a footnote with the words it belongs to  *)
(* and is cut at a marginal number rather than a paragraph, there rather   *)
(* than at a sentence, and at a space only in a sentence that is too long. *)
(*                                                                         *)
(* Texts are read as in DmdParse, a blank line behind each line. Sizes are *)
(* of the order of a line. Weights and identifier keys of the words are    *)
(* left out; the key of the section is kept.                               *)
(***************************************************************************)
EXTENDS DmdParse

CONSTANTS ChunkTarget, ChunkMin, ChunkMax, MaxGlue
ASSUME ChunkAssumption == {ChunkTarget, ChunkMin, ChunkMax, MaxGlue} \subseteq Nat /\ 0 < ChunkMin /\ ChunkMin < ChunkTarget /\ ChunkTarget < ChunkMax

VARIABLE dmdChunks \* what search knows of the text so far

Stop == -3    \* the end of a sentence
Newline == -4
Mark == -5    \* the prefix of a line, or a page marker on a line of its own

LineChars(l) ==
    IF l.kind = "page" THEN <<Mark>> ELSE (IF Prefix(l) = 1 THEN <<Mark>> ELSE <<>>) \o l.body

\* The characters of a text; its offsets begin at 0.
CharsOf(lines) == FoldLeft(LAMBDA cs, l : cs \o LineChars(l) \o <<Newline>>, <<>>, lines)
IsSpace(cs, at) == cs[at + 1] \in {Space, Newline}
-----------------------------------------------------------------------------
(* A block longer than a chunk is cut in pieces.                           *)

\* Where a sentence ends: [end, next], around the space behind it. A ref may stand before that space.
SentenceEnds(cs, b) ==
    {at \in b.start + 1..b.end - 2 :
        /\ IsSpace(cs, at) /\ cs[at + 2] = Word
        /\ cs[at] = Stop \/ (at - 1 > b.start /\ cs[at] \in Refs /\ cs[at - 1] = Stop)}

RowEnds(cs, b) == {at \in b.start..b.end - 1 : cs[at + 1] = Newline}

\* Where a piece from here to there is broken: at the space nearest behind the target, else before it, else at the limit.
BreakAt(cs, from, to) ==
    LET behind == {i \in from + ChunkTarget..Min({from + ChunkMax, to}) - 1 : IsSpace(cs, i)}
        before == {i \in from + ChunkMin + 1..from + ChunkTarget - 1 : IsSpace(cs, i)}
    IN  IF behind # {} THEN Min(behind) ELSE IF before # {} THEN Max(before) ELSE from + ChunkMax

\* acc: the pieces so far, where the next one begins and what kind of cut is before it.
BreakLong(acc, at, spaced) ==
    [pieces |-> Append(acc.pieces, [start |-> acc.from, end |-> at, cut |-> acc.cut]),
     from |-> IF spaced THEN at + 1 ELSE at,
     cut |-> "word"]

BreakUpTo(cs, acc, to) ==
    FoldLeft(LAMBDA a, i : IF to - a.from <= ChunkMax THEN a
                           ELSE LET at == BreakAt(cs, a.from, to) IN BreakLong(a, at, IsSpace(cs, at)),
             acc, [i \in 1..to - acc.from |-> i])

EmitPiece(acc, to, next) ==
    [pieces |-> Append(acc.pieces, [start |-> acc.from, end |-> to, cut |-> acc.cut]), from |-> next, cut |-> "sentence"]

\* The block's own end counts as one more cut.
splitBlock(cs, b) ==
    LET ends == IF b.kind = "table" THEN RowEnds(cs, b) ELSE SentenceEnds(cs, b)
    IN  FoldLeft(LAMBDA acc, at : IF at > acc.from THEN EmitPiece(BreakUpTo(cs, acc, at), at, at + 1) ELSE acc,
                 [pieces |-> <<>>, from |-> b.start, cut |-> "none"], SetToSortSeq(ends \cup {b.end}, <)).pieces
-----------------------------------------------------------------------------
(* The atoms of the text under one heading, and how they are packed.       *)

\* The blocks between two headings; the first segment has none before it.
Segments(d) ==
    LET heads == {i \in DOMAIN d.blocks : d.blocks[i].kind = "heading"}
    IN  {[heading |-> h, blocks |-> SelectSeq([i \in 1..Len(d.blocks) |-> i],
                                              LAMBDA i : i > h /\ \A g \in heads : g > h => i < g)] : h \in heads \cup {0}}

\* acc: the atoms so far, and where the page markers that wait for text begin (-1: none wait).
AddPieces(acc, pieces, start, cut) ==
    [atoms |-> acc.atoms \o [i \in DOMAIN pieces |->
                   [start |-> IF i = 1 THEN start ELSE pieces[i].start, end |-> pieces[i].end,
                    body |-> pieces[i].end - pieces[i].start, cut |-> IF i = 1 THEN cut ELSE pieces[i].cut]],
     pending |-> -1]

AddNotes_markersWaitOn(acc, b, start) ==
    [atoms |-> IF acc.atoms = <<>> THEN <<[start |-> start, end |-> b.end, body |-> 0, cut |-> "none"]>>
               ELSE [acc.atoms EXCEPT ![Len(acc.atoms)].end = b.end],
     pending |-> acc.pending]
AddNotes(acc, b, start) ==
    [atoms |-> IF acc.atoms = <<>> THEN <<[start |-> start, end |-> b.end, body |-> 0, cut |-> "none"]>>
               ELSE [acc.atoms EXCEPT ![Len(acc.atoms)].end = b.end],
     pending |-> -1]

\* Nothing is cut off before the first text under a heading.
CutBefore(acc, b, headed) ==
    IF Len(acc.atoms) = (IF headed THEN 1 ELSE 0) THEN "none" ELSE IF b.anchor > 0 THEN "mn" ELSE "para"

AddBlock(cs, acc, b, headed, start) ==
    CASE b.kind = "page" -> [acc EXCEPT !.pending = start]
      [] b.kind = "fndefs" -> AddNotes(acc, b, start)
      [] OTHER -> AddPieces(acc, IF b.end - b.start > ChunkMax THEN splitBlock(cs, b)
                                 ELSE <<[start |-> b.start, end |-> b.end, cut |-> "none"]>>, start, CutBefore(acc, b, headed))

\* A ref and its definition are one span unless they are too far apart to belong together.
glueSpans(d) == {<<d.notes[k].refAt, d.notes[k].start>> : k \in
                    {j \in DOMAIN d.notes : d.notes[j].refAt >= 0 /\ d.notes[j].start - d.notes[j].refAt <= MaxGlue}}

\* No cut between a ref and its definition in the same segment.
Glued(atoms, glue) ==
    [i \in DOMAIN atoms |->
        IF \E g \in glue : /\ atoms[1].start <= g[1] /\ g[2] < Last(atoms).end
                          /\ g[1] < atoms[i].start /\ atoms[i].start <= g[2]
        THEN [atoms[i] EXCEPT !.cut = "none"] ELSE atoms[i]]

HeadingAtom(b) == <<[start |-> b.start, end |-> b.end, body |-> 0, cut |-> "none"]>>

atomsOf(cs, d, seg) ==
    FoldLeft(LAMBDA acc, i : AddBlock(cs, acc, d.blocks[i], seg.heading > 0, IF acc.pending >= 0 THEN acc.pending ELSE d.blocks[i].start),
             [atoms |-> IF seg.heading > 0 THEN HeadingAtom(d.blocks[seg.heading]) ELSE <<>>, pending |-> -1], seg.blocks).atoms

Body(atoms, from, to) == FoldLeft(LAMBDA sum, a : sum + a.body, 0, SubSeq(atoms, from, to))

Penalty(cut) == CASE cut = "mn" -> 0 [] cut = "para" -> 3 [] cut = "sentence" -> 6 [] cut = "word" -> 12

\* Distance from the target, the kind of the cut and a short rest, in tenths of the target.
Cost(size, cut, rest) ==
    10 * (IF size > ChunkTarget THEN size - ChunkTarget ELSE ChunkTarget - size)
        + ChunkTarget * (Penalty(cut) + IF rest < ChunkMin THEN 10 ELSE 0)

\* The first of the cheapest of the cuts [at, size, cost] that leave a chunk of fair size, else the last one below the
\* limit, else the first at all.
BestCut(cuts, n) ==
    LET under == {c \in cuts : c.size \in 1..ChunkMax}
        good == {c \in under : c.size >= ChunkMin}
    IN  IF good # {} THEN Min({c.at : c \in {g \in good : \A h \in good : g.cost <= h.cost}})
        ELSE IF under # {} THEN Max({c.at : c \in under})
        ELSE Min({c.at : c \in cuts} \cup {n + 1})

\* The atom behind the chunk that begins at from.
ChunkEnd(atoms, from) ==
    IF Body(atoms, from, Len(atoms)) <= ChunkMax THEN Len(atoms) + 1
    ELSE BestCut({[at |-> i, size |-> Body(atoms, from, i - 1),
                   cost |-> Cost(Body(atoms, from, i - 1), atoms[i].cut, Body(atoms, i, Len(atoms)))] :
                      i \in {j \in from + 1..Len(atoms) : atoms[j].cut # "none"}}, Len(atoms))

\* The first atoms of the chunks, and the one behind the last.
pack(atoms) ==
    FoldLeft(LAMBDA firsts, i : IF Last(firsts) > Len(atoms) THEN firsts ELSE Append(firsts, ChunkEnd(atoms, Last(firsts))),
             <<1>>, atoms)
-----------------------------------------------------------------------------
(* What is kept of a chunk.                                                *)

\* The nearest section around s, itself included, that is a paragraph of the act.
Enclosing(d, s) ==
    IF s = 0 THEN 0
    ELSE Max({0} \cup {t \in ToSet(d.sections[s].chain) : d.sections[t].kind \in {"par1", "par2"}})

\* The marginal number in force in block i of its segment.
Anchor(d, seg, i) ==
    LET last == Max({0} \cup {j \in ToSet(seg.blocks) : j <= i /\ d.blocks[j].kind = "para" /\ d.blocks[j].anchor > 0})
    IN  IF last = 0 THEN 0 ELSE d.blocks[last].anchor

ContentBetween(d, seg, start, end) ==
    {i \in ToSet(seg.blocks) : d.blocks[i].kind \in {"para", "quote", "table"} /\ d.blocks[i].start < end /\ d.blocks[i].end > start}

Chunk(d, seg, start, end, content, section) ==
    [start |-> start, end |-> end, section |-> section, key |-> Enclosing(d, section),
     pageFrom |-> PageAt(d, start), pageTo |-> PageAt(d, end - 1),
     anchorFrom |-> IF content = {} THEN 0 ELSE Anchor(d, seg, Min(content)),
     anchorTo |-> IF content = {} THEN 0 ELSE Anchor(d, seg, Max(content))]

\* The chunks of a segment, each by its span.
ChunksOf(d, seg, spans) ==
    {Chunk(d, seg, s[1], s[2], ContentBetween(d, seg, s[1], s[2]), IF seg.heading = 0 THEN 0 ELSE d.blocks[seg.heading].section) :
     s \in spans}

PackedSpans(atoms, firsts) == {<<atoms[firsts[i]].start, atoms[firsts[i + 1] - 1].end>> : i \in 1..Len(firsts) - 1}
Spans(atoms) == IF atoms = <<>> THEN {} ELSE PackedSpans(atoms, pack(atoms))

\* Tables of contents and what is under them are not searched.
deriveIndex(cs, d, glue) ==
    UNION {ChunksOf(d, seg, Spans(Glued(atomsOf(cs, d, seg), glue))) : seg \in
              {s \in Segments(d) : s.heading = 0 \/ d.sections[d.blocks[s.heading].section].indexed}}
-----------------------------------------------------------------------------
\* A paragraph is one line, or the rows of a table.
Paragraphs ==
    {<<l>> : l \in {Text(<<Word, 1>>), Marginal(1, <<Word, Word>>),
                    Text(<<Word, Word, Stop, Space, Word, 1, Word, Space, Word, Word, Word, Word, Word, Word>>),
                    Definition(1), PageLine(1), Heading(1, "par1", <<Word>>), Heading(1, "toc", <<Word>>)}}
        \cup {<<Line("table", 0, "none", <<Word, Word, Word, Word>>), Line("table", 0, "none", <<Word, Word, 1>>)>>}

ChunksInit == dmdChunks = {}

ReadParagraph(ls) ==
    /\ dmdLines' = dmdLines \o Append(ls, Blank)
    /\ dmdParser' = FoldLeft(ReadLine, dmdParser, Append(ls, Blank))
    /\ dmdParsed' = FinishParse(dmdParser')
    /\ dmdChunks' = deriveIndex(CharsOf(dmdLines'), dmdParsed', glueSpans(dmdParsed'))
    /\ UNCHANGED dmdFocus

\* Texts with pages.
ChunksNext ==
    \E ls \in IF dmdLines = <<>> THEN {<<PageLine(1)>>} ELSE Paragraphs :
        Cardinality({i \in DOMAIN dmdLines : dmdLines[i].kind = "blank"}) < MaxDmdLines /\ ReadParagraph(ls)
-----------------------------------------------------------------------------
\* Headings do not lie inside a chunk.
ChunkStaysInSection(d, c) ==
    \A b \in DOMAIN d.blocks : (d.blocks[b].kind = "heading" /\ c.start < d.blocks[b].end /\ d.blocks[b].start < c.end)
                                   => d.blocks[b].start = c.start

\* What of the text is to be searched: every character of content blocks outside tables of contents but spaces.
Searched(cs, d) ==
    {at \in 0..d.n - 1 : ~IsSpace(cs, at) /\ \E b \in DOMAIN d.blocks :
        /\ d.blocks[b].kind # "page" /\ d.blocks[b].start <= at /\ at < d.blocks[b].end
        /\ d.blocks[b].section = 0 \/ d.sections[d.blocks[b].section].indexed}

BodyIn(d, c) ==
    LET inside == {b \in DOMAIN d.blocks : d.blocks[b].kind \in {"para", "quote", "table"} /\ d.blocks[b].start < c.end /\ d.blocks[b].end > c.start}
    IN  MapThenSumSet(LAMBDA b : Min({c.end, d.blocks[b].end}) - Max({c.start, d.blocks[b].start}), inside)

\* A note and its ref are found by one query, unless a heading or too much text is between them.
NotesStayWithTheirRefs(d, chunks) ==
    \A k \in DOMAIN d.notes :
        LET note == d.notes[k]
            near == /\ note.refAt >= 0 /\ note.start - note.refAt <= MaxGlue
                    /\ \A b \in DOMAIN d.blocks : d.blocks[b].kind = "heading" => d.blocks[b].start \notin note.refAt..note.start
        IN  near => \A c \in chunks : (c.start <= note.refAt /\ note.refAt < c.end) => note.end <= c.end

(* Chunks hold everything that is to be searched once and nothing of a     *)
(* table of contents; they keep under their heading and a note with its    *)
(* ref, are too long only to do that, begin with a note or end with a page *)
(* marker only where there is no other text, and are placed - section,     *)
(* pages, marginal numbers - where their text is.                          *)
ChunksAreWhole ==
    LET d == dmdParsed
        cs == CharsOf(dmdLines)
    IN  dmdFocus = "chunks" =>
        /\ \A at \in Searched(cs, d) : Cardinality({c \in dmdChunks : c.start <= at /\ at < c.end}) = 1
        /\ \A b \in DOMAIN d.blocks : (d.blocks[b].section > 0 /\ ~d.sections[d.blocks[b].section].indexed) =>
               \A c \in dmdChunks : c.end <= d.blocks[b].start \/ d.blocks[b].end <= c.start
        /\ NotesStayWithTheirRefs(d, dmdChunks)
        /\ \A c \in dmdChunks :
               /\ ChunkStaysInSection(d, c)
               /\ BodyIn(d, c) > ChunkMax => \E g \in glueSpans(d) : c.start <= g[1] /\ g[2] < c.end
               /\ ~\E b \in DOMAIN d.blocks : d.blocks[b].kind = "page" /\ d.blocks[b].end = c.end
               /\ \A b \in DOMAIN d.blocks : (d.blocks[b].kind = "fndefs" /\ d.blocks[b].start = c.start) =>
                      \A e \in 1..(b - 1) : d.blocks[e].kind \in {"page"} \/ d.blocks[e].section # d.blocks[b].section
               /\ c.section = SectionAt(d, c.end - 1)
               /\ c.anchorTo = MarkAt(d, c.end - 1)
=============================================================================
