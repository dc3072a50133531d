----------------------------- MODULE ReadWindows -----------------------------
(***************************************************************************)
(* Reading one own document in bounded parts: files_get_document and the   *)
(* calls its answers and the hits of files_search offer next               *)
(* (src/mcp/tools/files.ts).  Only offsets are told apart: where pages,    *)
(* sections, marginal numbers and lines begin.                             *)
(*                                                                         *)
(* A document: its length, pages (a sequence, by start), sections (a set,  *)
(* nested; key 0 for a heading that is no section or article), marks (the  *)
(* marginal numbers, by place), newlines (the places of "\n") and indents  *)
(* (the starts of lines that continue a footnote's definition).  A call    *)
(* names a section, pages as <<label, n>> for "label#n", marginal numbers, *)
(* and the window.                                                         *)
(***************************************************************************)
EXTENDS Naturals, FiniteSets, Sequences, SequencesExt


CONSTANTS
    WindowChars,   \* DOC_PAGE_CHARS
    SnapSlack,     \* WINDOW_SLACK
    TocChars,      \* TOC_DEFAULT_CHARS; a document longer than this answers with its outline
    TocPages,      \* TOC_DEFAULT_PAGES
    ReadLengths    \* bound: lengths of the sample documents

VARIABLES
    readDoc,
    readGoal,      \* what the reader is after: a range, or the place of a hit
    readAnswers    \* to the first call and to each one offered next, in order

readVars == <<readDoc, readGoal, readAnswers>>

\* So that a window of a cut page is longer than the distance its ends may move.
ASSUME ReadAssumption == {WindowChars, SnapSlack, TocChars, TocPages} \subseteq Nat \ {0} /\ WindowChars > 3 * SnapSlack

Least(S) == CHOOSE n \in S : \A m \in S : n <= m
Greatest(S) == CHOOSE n \in S : \A m \in S : n >= m
Ceil(a, b) == (a + b - 1) \div b

-----------------------------------------------------------------------------
(* Windows.                                                                *)

\* Of the parts so far and the page after them: what the range has of that page is the next part.
Clip(range, parts, p) ==
    IF p.end > range.start /\ p.start < range.end
    THEN Append(parts, [start |-> Greatest({p.start, range.start}), end |-> Least({p.end, range.end})])
    ELSE parts

\* The parts of a range that a window holds whole where it can: its pages, and what lies around them.
PageSegments(range, pages) ==
    LET clipped == FoldLeft(LAMBDA parts, p : Clip(range, parts, p), <<>>, pages)
        before == IF clipped[1].start > range.start THEN <<[start |-> range.start, end |-> clipped[1].start]>> ELSE <<>>
        after == IF Last(clipped).end < range.end THEN <<[start |-> Last(clipped).end, end |-> range.end]>> ELSE <<>>
    IN  IF clipped = <<>> THEN <<range>> ELSE before \o clipped \o after

\* A part longer than a window, cut evenly at places that may still move.
EvenCuts(seg) ==
    LET len == seg.end - seg.start
        n == Ceil(len, WindowChars - SnapSlack)
        size == Ceil(len, n)
    IN  [i \in 1 .. n |-> [start |-> seg.start + (i - 1) * size, end |-> Least({seg.end, seg.start + i * size}),
                           softStart |-> i > 1, softEnd |-> i < n]]

\* plan: the windows so far; open: whether the last of them may take one more part.
NoWindows == [plan |-> <<>>, open |-> FALSE]

TakePart(so, seg) ==
    IF seg.end <= seg.start THEN so
    ELSE IF so.open /\ seg.end - Last(so.plan).start <= WindowChars
    THEN [so EXCEPT !.plan = Front(@) \o <<[Last(@) EXCEPT !.end = seg.end]>>]
    ELSE IF seg.end - seg.start <= WindowChars
    THEN [plan |-> Append(so.plan, [start |-> seg.start, end |-> seg.end, softStart |-> FALSE, softEnd |-> FALSE]),
          open |-> TRUE]
    ELSE [plan |-> so.plan \o EvenCuts(seg), open |-> FALSE]

planWindows(range, pages) ==
    IF range.end <= range.start THEN <<>>
    ELSE FoldLeft(TakePart, NoWindows, PageSegments(range, pages)).plan

(* A soft end moves to the next paragraph that does not continue a         *)
(* footnote, else to the next line.  loaded: up to where the text was read *)
(* from the store; an indent past it is not seen.                          *)
snapBoundary(doc, place, limit, loaded) ==
    LET ahead == {n \in doc.newlines : n >= place /\ n < Least({limit, place + SnapSlack})}
        paragraphs == {n + 2 : n \in {m \in ahead : m + 1 \in ahead}}
        fit == {n \in paragraphs : n >= limit \/ ~(n \in doc.indents /\ n < loaded)}
    IN  IF fit # {} THEN Least({limit, Least(fit)})
        ELSE IF ahead # {} THEN Least({limit, Least(ahead) + 1})
        ELSE place

WindowIn_atGridPoint(plan, offset) == Greatest({1} \cup {i \in 2 .. Len(plan) : plan[i].start <= offset})

WindowIn(plan, offset) ==
    Greatest({1} \cup {i \in 2 .. Len(plan) : plan[i].start + (IF plan[i].softStart THEN 2 ELSE 0) <= offset})

windowAt(doc, offset) == WindowIn(planWindows([start |-> 0, end |-> doc.length], doc.pages), offset)

-----------------------------------------------------------------------------
(* What a call names.                                                      *)

\* Section locators: none, "#ord", a designator (key), or words of the heading.
NoSection == [by |-> "none", of |-> 0]
Call(section, pages, mn, page) == [section |-> section, at |-> pages, mn |-> mn, page |-> page]
WholeCall == Call(NoSection, <<>>, <<>>, 1)

sectionHint(s) == IF s.key # 0 THEN [by |-> "key", of |-> s.key] ELSE [by |-> "ord", of |-> s.ord]

resolveSection(doc, loc) ==
    LET by(how) == {s \in doc.sections : CASE how = "ord" -> s.ord = loc.of
                                           [] how = "key" -> s.key = loc.of
                                           [] how = "words" -> s.heading = loc.of}
    IN  IF loc.by = "key" /\ by("key") = {} THEN by("words") ELSE by(loc.by)

\* The innermost section at a place, and the innermost § or article around it.
Around(doc, place) == {s \in doc.sections : s.start <= place /\ place < s.end}
Innermost(S) == CHOOSE s \in S : \A t \in S : s.end - s.start <= t.end - t.start
Keyed(S) == {s \in S : s.key # 0}

pageAt(doc, place) == Greatest({i \in DOMAIN doc.pages : doc.pages[i].start <= place})

\* "245", "245#2", "245–250": the page or pages; none when a label has not that many.
resolvePages(doc, pages) ==
    LET labelled(l) == {i \in DOMAIN doc.pages : doc.pages[i].label = l}
        nth(p) == {i \in labelled(p[1]) : Cardinality({k \in labelled(p[1]) : k <= i}) = p[2]}
        both == [k \in DOMAIN pages |-> doc.pages[CHOOSE i \in nth(pages[k]) : TRUE]]
    IN  IF pages # <<>> /\ (\A k \in DOMAIN pages : nth(pages[k]) # {}) /\ both[1].start <= Last(both).start
        THEN both
        ELSE <<>>

\* From the first mark with one label to the mark after the last with the other.
mnRange_toTheMark(doc, span, mn) ==
    LET marks == SelectSeq(doc.marks, LAMBDA m : span.start <= m.at /\ m.at < span.end)
        first == {i \in DOMAIN marks : marks[i].label = mn[1]}
        last == {i \in DOMAIN marks : first # {} /\ i >= Least(first) /\ marks[i].label = mn[2]}
    IN  IF last = {} THEN <<>>
        ELSE <<[start |-> marks[Least(first)].at, end |-> marks[Greatest(last)].at]>>

mnRange(doc, span, mn) ==
    LET marks == SelectSeq(doc.marks, LAMBDA m : span.start <= m.at /\ m.at < span.end)
        first == {i \in DOMAIN marks : marks[i].label = mn[1]}
        last == {i \in DOMAIN marks : first # {} /\ i >= Least(first) /\ marks[i].label = mn[2]}
    IN  IF last = {} THEN <<>>
        ELSE <<[start |-> marks[Least(first)].at,
                end |-> IF Greatest(last) < Len(marks) THEN marks[Greatest(last) + 1].at ELSE span.end]>>

-----------------------------------------------------------------------------
(* Answers: of what kind, the text shown, and the call offered next.       *)

Answer(kind) == [kind |-> kind, from |-> 0, to |-> 0, next |-> <<>>]

(* One window of a range.  single: one page, of which only the next pages  *)
(* are offered.                                                            *)
NextCalls(doc, range, call, single, to, windows) ==
    LET later == SelectSeq(doc.pages, LAMBDA p : p.start >= to)
    IN  IF single
        THEN IF later # <<>> /\ to < range.end THEN <<Call(NoSection, << <<later[1].label, 1>> >>, <<>>, 1)>> ELSE <<>>
        ELSE IF call.page < windows THEN <<[call EXCEPT !.page = @ + 1]>> ELSE <<>>

WindowShown(doc, range, w) ==
    LET loaded == Least({range.end, w.end + SnapSlack})
    IN  [from |-> IF w.softStart THEN snapBoundary(doc, w.start, range.end, loaded) ELSE w.start,
         to |-> IF w.softEnd THEN snapBoundary(doc, w.end, range.end, loaded) ELSE w.end]

TextAnswer(doc, range, call, single, shown, windows) ==
    [kind |-> "text", from |-> shown.from, to |-> shown.to,
     next |-> NextCalls(doc, range, call, single, shown.to, windows)]

PlannedAnswer(doc, range, call, single, plan) ==
    IF call.page > Len(plan) THEN Answer("refused")
    ELSE TextAnswer(doc, range, call, single, WindowShown(doc, range, plan[call.page]), Len(plan))

rangeAnswer(doc, range, call, single) ==
    PlannedAnswer(doc, range, call, single, planWindows(range, doc.pages))

isLong(doc) == Len(doc.pages) > TocPages \/ doc.length > TocChars

(* The text a call names within a span: from one marginal number to        *)
(* another, pages, or the span; none where it names nothing.               *)
RangeOf(doc, call, named, span, pages) ==
    IF call.mn # <<>> THEN mnRange(doc, span, call.mn)
    ELSE IF call.at = <<>> THEN <<span>>
    ELSE IF pages = <<>> THEN <<>>
    ELSE IF ~named THEN <<[start |-> pages[1].start, end |-> IF Len(pages) = 1 THEN doc.length ELSE Last(pages).end]>>
    ELSE IF pages[1].start >= span.end \/ pages[1].end <= span.start THEN <<>>
    ELSE <<[span EXCEPT !.start = Greatest({@, pages[1].start})]>>

AnswerIn(doc, call, named, range, single) ==
    CASE range = <<>> -> Answer("refused")
      [] range # <<>> /\ ~named /\ call.at = <<>> /\ call.mn = <<>> /\ isLong(doc) /\ doc.sections # {} -> Answer("outline")
      [] OTHER -> rangeAnswer(doc, range[1], IF single THEN [call EXCEPT !.page = 1] ELSE call, single)

AnswerTo(doc, call, named, span, pages) ==
    AnswerIn(doc, call, named, RangeOf(doc, call, named, span, pages), ~named /\ call.mn = <<>> /\ Len(pages) = 1)

\* The calls offered next name the section as a hint does.
filesGetDocument(doc, call) ==
    LET found == resolveSection(doc, call.section)
        within == CHOOSE s \in found : TRUE
    IN  IF call.section.by = "none"
        THEN AnswerTo(doc, call, FALSE, [start |-> 0, end |-> doc.length], resolvePages(doc, call.at))
        ELSE IF Cardinality(found) # 1 THEN Answer(IF found = {} THEN "refused" ELSE "candidates")
        ELSE AnswerTo(doc, [call EXCEPT !.section = sectionHint(within)], TRUE,
                      [start |-> within.start, end |-> within.end], resolvePages(doc, call.at))

(* The call a hit at a place offers: its § with the marginal number before *)
(* it, else its page, else its section, else the window its paragraph      *)
(* begins in (0 for a hit of the outline's document: the outline).         *)
readCall(doc, place) ==
    LET chain == Around(doc, place)
        keyed == Innermost(Keyed(chain))
        before == SelectSeq(doc.marks, LAMBDA m : Innermost(chain).start <= m.at /\ m.at <= place)
        breaks == {n \in doc.newlines : n + 1 \in doc.newlines /\ n <= place}
        paragraph == IF breaks = {} THEN 0 ELSE Greatest(breaks) + 2
    IN  IF Keyed(chain) # {}
        THEN Call(sectionHint(keyed), <<>>, IF before = <<>> THEN <<>> ELSE <<Last(before).label, Last(before).label>>, 1)
        ELSE IF doc.pages # <<>> THEN Call(NoSection, << <<doc.pages[pageAt(doc, place)].label, 1>> >>, <<>>, 1)
        ELSE IF chain # {} THEN Call([by |-> "ord", of |-> Innermost(chain).ord], <<>>, <<>>, 1)
        ELSE [WholeCall EXCEPT !.page = IF doc.sections = {} THEN windowAt(doc, paragraph) ELSE 1]
-----------------------------------------------------------------------------
(* Documents of a given length: with no outline, two §§ with marginal      *)
(* numbers that restart, or a chapter with a § of two parts; without pages *)
(* or with short ones, and with a long one where all is in some §.         *)
ReadShapes(length) ==
    LET section(ord, key, start, end) == [ord |-> ord, key |-> key, heading |-> ord, start |-> start, end |-> end]
        mark(label, place) == [label |-> label, at |-> place]
        sections(o, c) == CASE o = 0 -> {}
                            [] o = 1 -> {section(1, 1, 0, c), section(2, 2, c, length)}
                            [] o = 2 -> {section(1, 0, 0, length), section(2, 1, 1, c), section(3, 0, 3, c)}
        marks(o, c) == IF o = 0 THEN <<>>
                       ELSE <<mark(1, 2), mark(2, 3)>> \o IF o = 1 THEN <<mark(1, c), mark(2, length - 1)>> ELSE <<>>
        paged(starts) == [i \in DOMAIN starts |-> [label |-> i, start |-> starts[i],
                              end |-> IF i < Len(starts) THEN starts[i + 1] ELSE length]]
        pages == {<<>>, <<0, 2>>} \cup IF length > 9 THEN {<<0, 4, 9>>} ELSE {}
    IN  {[length |-> length, pages |-> paged(p), sections |-> sections(o, c), marks |-> marks(o, c)] :
            p \in pages, o \in 0 .. 2, c \in {4, length - 2}}

ReadSamples ==
    LET newlines(shape) == {b \in SUBSET (1 .. shape.length - 1) : Cardinality(b) <= IF shape.sections = {} /\ shape.pages = <<>> THEN 3 ELSE 2}
        indents(b) == {{}} \cup {{n + 2} : n \in {m \in b : m + 1 \in b}}
        text(shape, b, i) == [length |-> shape.length, pages |-> shape.pages, sections |-> shape.sections,
                              marks |-> shape.marks, newlines |-> b, indents |-> i]
        reachable(shape) == \A p \in DOMAIN shape.pages :
                                shape.pages[p].end - shape.pages[p].start <= WindowChars \/ Cardinality(Keyed(shape.sections)) = 2
    IN  UNION {UNION {{text(shape, b, i) : i \in indents(b)} : b \in newlines(shape)} :
                  shape \in {x \in UNION {ReadShapes(n) : n \in ReadLengths} : reachable(x)}}

-----------------------------------------------------------------------------
(* A reader asks for the document, a section or pages, or for what a hit   *)
(* offers, and makes every call that is offered next.                      *)
Goals(doc) ==
    LET whole == {[call |-> WholeCall, from |-> 0, to |-> doc.length, hit |-> FALSE]}
        section(s) == [call |-> Call([by |-> "ord", of |-> s.ord], <<>>, <<>>, 1), from |-> s.start, to |-> s.end, hit |-> FALSE]
        pages(i, j) == [call |-> Call(NoSection, << <<doc.pages[i].label, 1>>, <<doc.pages[j].label, 1>> >>, <<>>, 1),
                        from |-> doc.pages[i].start, to |-> doc.pages[j].end, hit |-> FALSE]
        hit(place) == [call |-> readCall(doc, place), from |-> place, to |-> place + 1, hit |-> TRUE]
    IN  (IF isLong(doc) /\ doc.sections # {} THEN {} ELSE whole)
        \cup {section(s) : s \in doc.sections}
        \cup {pages(ij[1], ij[2]) : ij \in {x \in (DOMAIN doc.pages) \X (DOMAIN doc.pages) : x[1] < x[2]}}
        \cup {hit(place) : place \in (0 .. doc.length - 1) \ doc.newlines}

ReadInit ==
    /\ readDoc \in ReadSamples
    /\ readGoal = <<>>
    /\ readAnswers = <<>>

ReaderAsks ==
    /\ readGoal = <<>>
    /\ \E goal \in Goals(readDoc) : readGoal' = <<goal>>
    /\ UNCHANGED <<readDoc, readAnswers>>

\* The call to be made now, if there is one.
NextAsked == IF readAnswers = <<>> THEN <<readGoal[1].call>> ELSE Last(readAnswers).next

ReaderAnswered ==
    /\ readGoal # <<>> /\ NextAsked # <<>>
    /\ readAnswers' = Append(readAnswers, filesGetDocument(readDoc, NextAsked[1]))
    /\ UNCHANGED <<readDoc, readGoal>>

ReadNext == ReaderAsks \/ ReaderAnswered

HasRead == readAnswers # <<>> /\ NextAsked = <<>>
-----------------------------------------------------------------------------
(* Following the answers reads what was asked for, all of it and no more   *)
(* (files.ts: "follow it without asking, and it stops where the requested  *)
(* range ends"): from its start to its end, each place once, but for what  *)
(* stands before a footnote's continuation at the edge of what the store   *)
(* gave; and no answer is longer than a window and its slack.              *)
ReadingOnReadsAll ==
    /\ \A i \in DOMAIN readAnswers : ~readGoal[1].hit =>
         /\ readAnswers[i].kind = "text" /\ readAnswers[i].to - readAnswers[i].from <= WindowChars + SnapSlack
         /\ i = 1 => readAnswers[1].from = readGoal[1].from
         /\ i > 1 => /\ readAnswers[i].from <= readAnswers[i - 1].to
                     /\ readAnswers[i].from > readAnswers[i - 1].from
                     /\ readAnswers[i].from = readAnswers[i - 1].to \/ readAnswers[i - 1].to \in readDoc.indents
    /\ HasRead /\ ~readGoal[1].hit => Last(readAnswers).to = readGoal[1].to

(* The call a hit offers, and those that follow, show the hit: not in a    *)
(* footnote, which has a call of its own; where labels of pages repeat or  *)
(* a page is longer than a window they need not.                           *)
HitsAreReachable ==
    HasRead /\ readGoal[1].hit =>
        LET place == readGoal[1].from
            starts == {n + 2 : n \in {m \in readDoc.newlines : m + 1 \in readDoc.newlines /\ m <= place}}
        IN  \/ \E i \in DOMAIN readAnswers : readAnswers[i].from <= place /\ place < readAnswers[i].to
            \/ starts \cap readDoc.indents # {}
            \/ readAnswers[1].kind = "outline" /\ Around(readDoc, place) = {} /\ readDoc.pages = <<>>

ReadingShowsAll == ReadingOnReadsAll /\ HitsAreReachable
=============================================================================
