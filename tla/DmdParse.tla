------------------------------ MODULE DmdParse ------------------------------
(***************************************************************************)
(* The parser of DMD, the text form of every own document                  *)
(* (src/src/files/dmd/parse.ts): one pass over the lines that builds the   *)
(* pages, blocks, sections, footnotes and marginal numbers all later work  *)
(* addresses by offset. A behaviour feeds the parser one more line at a    *)
(* time; the document parsed so far is kept beside it, so that every       *)
(* prefix of a text is a document.                                         *)
(*                                                                         *)
(* A line is [kind, n, of, body]: n is the level of a heading, the label   *)
(* of a definition, the marginal number of a paragraph (0: none) or the    *)
(* label of a page; of is the kind of section the words of a heading name, *)
(* or says that a paragraph names an author. A body is a sequence of units *)
(* one character long; so is the prefix of a line, where the code's are    *)
(* longer. Pages, sections, notes and refs are numbered from 1; 0 is none. *)
(***************************************************************************)
EXTENDS Integers, Sequences, FiniteSets, SequencesExt, FiniteSetsExt

\* The lines of a text.
CONSTANT MaxDmdLines

VARIABLES dmdFocus,  \* which constructs the text is made of
          dmdLines,  \* the lines given so far
          dmdParser, \* the state of the parser after them
          dmdParsed  \* the document they are

dmdVars == <<dmdFocus, dmdLines, dmdParser, dmdParsed>>

\* Units of a body: a ref to note k is k itself, the inline marker of page k is 10 + k.
Word == 0
Space == -1
Escape == -2 \* the backslash before a bracket that is text
Refs == 1..9
Marker(k) == 10 + k

Line(kind, n, of, body) == [kind |-> kind, n |-> n, of |-> of, body |-> body]
Text(body) == Line("text", 0, "none", body)
Marginal(n, body) == Line("text", n, "none", body)
Heading(n, of, body) == Line("heading", n, of, body)
Definition(n) == Line("fndef", n, "none", <<Word>>)
Continuation == Line("indented", 0, "none", <<Word>>)
PageLine(n) == Line("page", n, "none", <<>>)
Blank == Line("blank", 0, "none", <<>>)

\* The characters of a line before its content.
Prefix(l) == IF l.kind \in {"heading", "fndef", "quote"} \/ (l.kind = "text" /\ l.n > 0) THEN 1 ELSE 0
LineLength(l) == IF l.kind = "page" THEN 1 ELSE Prefix(l) + Len(l.body)

NewParser ==
    [at |-> 0, begun |-> FALSE, paged |-> FALSE, pages |-> <<>>, texted |-> {}, blocks |-> <<>>, open |-> "none",
     blank |-> FALSE, sections |-> <<>>, stack |-> <<>>, pars |-> <<>>, awaiting |-> 0, end |-> 0, endPage |-> 0,
     notes |-> <<>>, inNote |-> FALSE, refs |-> <<>>, anchor |-> 0, marks |-> <<>>, markup |-> 0, strip |-> 0,
     problems |-> {}]

Inner(p) == IF p.stack = <<>> THEN 0 ELSE Last(p.stack)
Problem(code, at) == [code |-> code, at |-> at]
-----------------------------------------------------------------------------
(* Pages and blocks.                                                       *)

NewPage(p, label, at) ==
    [p EXCEPT !.pages = Append(@, [label |-> label, start |-> at]),
              !.problems = @ \cup {Problem("duplicate_page_label", at) : i \in {j \in DOMAIN p.pages : p.pages[j].label = label}}]

\* A block that runs to the end of its line; the next line may go on with it if stays.
OpenBlock(p, kind, l, mark, stays) ==
    [p EXCEPT !.blocks = Append(@, [kind |-> kind, start |-> p.at, end |-> p.at + LineLength(l), page |-> Len(p.pages),
                                    section |-> Inner(p), anchor |-> mark]),
              !.open = IF stays THEN kind ELSE "none"]

\* The line has text: its block, its page and the section it is in reach to its end.
Touch(p, end) ==
    [p EXCEPT !.blocks = IF p.open = "none" THEN @ ELSE [@ EXCEPT ![Len(@)].end = end],
              !.end = end,
              !.texted = @ \cup {Len(p.pages)}]

\* A page marker on a line of its own.
ReadPage(p, l) ==
    LET q == NewPage([p EXCEPT !.inNote = FALSE, !.markup = @ + 1], l.n, p.at)
    IN  OpenBlock(q, "page", l, 0, FALSE)
-----------------------------------------------------------------------------
(* What stands inside a line.                                              *)

\* An inline marker needs a space, or the edge of the line, on both sides.
Bounded(l, i) ==
    /\ i = 1 \/ l.body[i - 1] = Space
    /\ i = Len(l.body) \/ l.body[i + 1] = Space

\* What goes when the marker at unit i goes: the marker and one of the spaces beside it.
MarkerSpan(l, i, at, strip) ==
    IF i < Len(l.body) THEN <<at, at + 2>>
    ELSE IF i > 1 /\ at - 1 >= strip THEN <<at - 1, at + 1>> ELSE <<at, at + 1>>

\* A ref remembers where it stands.
NewRef(p, label, at) ==
    [p EXCEPT !.refs = Append(@, [label |-> label, at |-> at, note |-> 0, page |-> Len(p.pages), section |-> Inner(p),
                                  anchor |-> p.anchor])]

InlinePage(p, l, i, at, span, from) ==
    LET q == NewPage([p EXCEPT !.markup = @ + span[2] - span[1], !.strip = span[2]], l.body[i] - 10, at)
        rest == {j \in i + 1..Len(l.body) : l.body[j] # Space /\ from + j - 1 >= span[2]}
    IN  IF rest = {} THEN q ELSE [q EXCEPT !.texted = @ \cup {Len(q.pages)}]

\* The unit at position i of the body, which begins at the offset from.
ReadUnit(p, l, i, from) ==
    LET at == from + i - 1
        u == l.body[i]
    IN  CASE u = Escape -> [p EXCEPT !.markup = @ + 1, !.strip = at + 1]
          [] u \in Refs -> NewRef([p EXCEPT !.markup = @ + 1, !.strip = at + 1], u, at)
          [] u > 10 /\ p.paged /\ l.kind # "heading" /\ Bounded(l, i) ->
                 InlinePage(p, l, i, at, MarkerSpan(l, i, at, p.strip), from)
          [] u > 10 /\ p.paged /\ l.kind # "heading" /\ ~Bounded(l, i) ->
                 [p EXCEPT !.problems = @ \cup {Problem("escaped_marker", at)}]
          [] OTHER -> p

ReadInline(p, l) ==
    FoldLeft(LAMBDA q, i : ReadUnit(q, l, i, p.at + Prefix(l)), [p EXCEPT !.strip = p.at + Prefix(l)],
             [i \in DOMAIN l.body |-> i])
-----------------------------------------------------------------------------
(* Sections.                                                               *)

\* Kind of the section a heading opens: what its words name, else by its level.
SectionKind(l) == IF l.of # "none" THEN l.of ELSE IF l.n <= 1 THEN "chapter" ELSE "sub"
KeyNumber(l) == CASE l.of = "par1" -> 1 [] l.of = "par2" -> 2 [] OTHER -> 0

\* A heading of this level closes the sections on the stack that are not above it. They end with the last content.
CloseSections(p, level) ==
    LET closing == {s \in ToSet(p.stack) : p.sections[s].level >= level}
    IN  [p EXCEPT !.sections = [s \in DOMAIN @ |->
                      IF s \notin closing THEN @[s]
                      ELSE [@[s] EXCEPT !.end = Max({p.sections[s].start, p.end}), !.pageTo = Max({@, p.endPage})]],
                  !.stack = SelectSeq(@, LAMBDA s : s \notin closing)]

\* Its paragraph numbers must not fall among the sections under the same parent.
NoteParagraph(p, parent, number) ==
    LET earlier == SelectSeq(p.pars, LAMBDA q : q[1] = parent)
    IN  [p EXCEPT !.pars = Append(@, <<parent, number>>),
                  !.problems = IF earlier # <<>> /\ number < Last(earlier)[2]
                               THEN @ \cup {Problem("par_not_monotonic", p.at)} ELSE @]

\* Called with the sections the heading ends closed.
OpenSection(p, l) ==
    LET parent == Inner(p)
        s == Len(p.sections) + 1
        indexed == SectionKind(l) # "toc" /\ (parent = 0 \/ p.sections[parent].indexed)
        q == IF indexed /\ KeyNumber(l) > 0 THEN NoteParagraph(p, parent, KeyNumber(l)) ELSE p
    IN  [q EXCEPT !.sections = Append(@, [parent |-> parent, chain |-> Append(p.stack, s), level |-> l.n,
                                          kind |-> SectionKind(l), author |-> FALSE, start |-> p.at,
                                          end |-> p.at + LineLength(l), pageFrom |-> Len(p.pages),
                                          pageTo |-> Len(p.pages), indexed |-> indexed]),
                  !.stack = Append(@, s),
                  !.anchor = 0,
                  !.awaiting = s,
                  !.markup = @ + 1]

ReadHeading(p, l) ==
    LET q == OpenBlock(OpenSection(CloseSections([p EXCEPT !.open = "none"], l.n), l), "heading", l, 0, FALSE)
    IN  ReadInline([Touch(q, p.at + LineLength(l)) EXCEPT !.endPage = Len(p.pages)], l)
-----------------------------------------------------------------------------
(* Paragraphs, quotes and tables; marginal numbers.                        *)

\* The numbers rise within the nearest paragraph of the act, else the top section, else the document.
MarkScope(p) ==
    LET pars == SelectSeq(p.stack, LAMBDA s : p.sections[s].kind \in {"par1", "par2"})
    IN  IF pars # <<>> THEN Last(pars) ELSE IF p.stack # <<>> THEN p.stack[1] ELSE 0

NewMark(p, number) ==
    LET earlier == SelectSeq(p.marks, LAMBDA m : m[1] = MarkScope(p))
    IN  [p EXCEPT !.anchor = number,
                  !.marks = Append(@, <<MarkScope(p), number>>),
                  !.problems = IF earlier # <<>> /\ number <= Last(earlier)[2]
                               THEN @ \cup {Problem("mn_sequence", p.at)} ELSE @]

\* The first block under a heading may name the author of the section.
OpenContent(p, l, kind) ==
    LET q == OpenBlock(p, kind, l, l.n, TRUE)
        r == IF l.n > 0 THEN NewMark(q, l.n) ELSE q
    IN  [r EXCEPT !.sections = IF r.awaiting > 0 /\ l.of = "author" /\ l.n = 0 THEN [@ EXCEPT ![r.awaiting].author = TRUE] ELSE @,
                  !.awaiting = 0]

ReadContent(p, l, kind, afterBlank) ==
    LET goesOn == ~afterBlank /\ p.open = kind /\ l.n = 0
        q == IF goesOn THEN p ELSE OpenContent(p, l, kind)
        r == ReadInline(Touch([q EXCEPT !.markup = @ + Prefix(l)], p.at + LineLength(l)), l)
    IN  [r EXCEPT !.endPage = Len(r.pages)]
-----------------------------------------------------------------------------
(* Footnotes.                                                              *)

\* The latest ref of the label that has no definition yet, or 0.
Unbound(p, label) == Max({0} \cup {r \in DOMAIN p.refs : p.refs[r].label = label /\ p.refs[r].note = 0})

\* A note is where its ref is; one without a ref is where its definition is.
NewNote(p, l, r) ==
    LET at == p.at + Prefix(l)
        place == IF r > 0 THEN p.refs[r] ELSE [at |-> -1, page |-> Len(p.pages), section |-> Inner(p), anchor |-> 0]
    IN  [p EXCEPT !.notes = Append(@, [label |-> l.n, refAt |-> place.at, start |-> at, end |-> p.at + LineLength(l),
                                       page |-> place.page, section |-> place.section, anchor |-> place.anchor]),
                  !.refs = IF r > 0 THEN [@ EXCEPT ![r].note = Len(p.notes) + 1] ELSE @,
                  !.inNote = TRUE,
                  !.markup = @ + 1]

\* Definitions that follow each other are one block, blank lines between them included.
ReadDefinition(p, l) ==
    LET q == IF p.open = "fndefs" THEN p ELSE OpenBlock(p, "fndefs", l, 0, TRUE)
        r == ReadInline(Touch(NewNote(q, l, Unbound(p, l.n)), p.at + LineLength(l)), l)
    IN  [r EXCEPT !.endPage = Len(r.pages)]

ReadContinuation(p, l) ==
    LET q == [p EXCEPT !.notes = [@ EXCEPT ![Len(@)].end = p.at + LineLength(l)]]
        r == ReadInline(Touch(q, p.at + LineLength(l)), l)
    IN  [r EXCEPT !.endPage = Len(r.pages)]
-----------------------------------------------------------------------------
(* One line, and the end of the text.                                      *)

Dispatch_pageKeepsNote(p, l, afterBlank) ==
    CASE l.kind = "page" -> [ReadPage(p, l) EXCEPT !.inNote = p.inNote]
      [] l.kind = "indented" /\ p.inNote -> ReadContinuation(p, l)
      [] l.kind = "heading" -> ReadHeading([p EXCEPT !.inNote = FALSE], l)
      [] l.kind = "fndef" -> ReadDefinition([p EXCEPT !.inNote = FALSE], l)
      [] OTHER -> ReadContent([p EXCEPT !.inNote = FALSE], l, IF l.kind \in {"quote", "table"} THEN l.kind ELSE "para", afterBlank)
Dispatch(p, l, afterBlank) ==
    CASE l.kind = "page" -> ReadPage(p, l)
      [] l.kind = "indented" /\ p.inNote -> ReadContinuation(p, l)
      [] l.kind = "heading" -> ReadHeading([p EXCEPT !.inNote = FALSE], l)
      [] l.kind = "fndef" -> ReadDefinition([p EXCEPT !.inNote = FALSE], l)
      [] OTHER -> ReadContent([p EXCEPT !.inNote = FALSE], l, IF l.kind \in {"quote", "table"} THEN l.kind ELSE "para", afterBlank)

\* The first line that is not blank says whether the text has pages; without them a marker is text.
ReadLine(p, l) ==
    LET q == [p EXCEPT !.blank = FALSE, !.begun = TRUE, !.paged = IF p.begun THEN @ ELSE l.kind = "page"]
        text == l.kind = "page" /\ ~q.paged
        r == IF text THEN [q EXCEPT !.problems = @ \cup {Problem("unpaged_start", p.at)}] ELSE q
    IN  IF l.kind = "blank" THEN [p EXCEPT !.blank = TRUE, !.at = @ + 1]
        ELSE [Dispatch(r, IF text THEN Text(<<Word>>) ELSE l, p.blank) EXCEPT !.at = p.at + LineLength(l) + 1]

\* A page marker behind the content of a section belongs to the nearest section around it that goes on.
HomeOf(p, b) ==
    IF b.kind # "page" \/ b.section = 0 THEN b.section
    ELSE Max({0} \cup {s \in ToSet(p.sections[b.section].chain) : b.start < p.sections[s].end})

FinishParse(p) ==
    LET q == CloseSections(p, 0)
    IN  [n |-> Max({0, p.at - 1}),
         paged |-> q.paged,
         pages |-> [i \in DOMAIN q.pages |-> [label |-> q.pages[i].label, start |-> q.pages[i].start, blank |-> i \notin q.texted]],
         blocks |-> [i \in DOMAIN q.blocks |-> [q.blocks[i] EXCEPT !.section = HomeOf(q, q.blocks[i])]],
         sections |-> q.sections,
         notes |-> q.notes,
         refs |-> q.refs,
         counted |-> Max({0, p.at - 1}) - q.markup,
         problems |-> q.problems
             \cup {Problem("dangling_ref", q.refs[r].at) : r \in {s \in DOMAIN q.refs : q.refs[s].note = 0}}
             \cup {Problem("dangling_def", q.notes[k].start) : k \in {j \in DOMAIN q.notes : q.notes[j].refAt < 0}}]
-----------------------------------------------------------------------------
(* The projection without markup, from the text alone (stripMarkup): what  *)
(* search matches in and what an upload is billed for.                     *)

\* gone: positions of the body that are markup; strip: up to where the line is read.
StripUnit(acc, l, i) ==
    LET span == MarkerSpan(l, i, i, acc.strip)
    IN  CASE l.body[i] \in Refs \cup {Escape} -> [gone |-> acc.gone \cup {i}, strip |-> i + 1]
          [] l.body[i] > 10 /\ l.kind # "heading" /\ Bounded(l, i) ->
                 [gone |-> acc.gone \cup span[1]..(span[2] - 1), strip |-> span[2]]
          [] OTHER -> acc

Kept(l) ==
    IF l.kind = "page" THEN {}
    ELSE DOMAIN l.body \ FoldLeft(LAMBDA acc, i : StripUnit(acc, l, i), [gone |-> {}, strip |-> 1], [i \in DOMAIN l.body |-> i]).gone

\* Characters of the projection, the ends of lines included.
ProjectedLength(lines) == FoldLeft(LAMBDA sum, l : sum + Cardinality(Kept(l)) + 1, -1, lines)
-----------------------------------------------------------------------------
Foci == {"notes", "outline", "marks", "pages"}

Alphabet(focus) ==
    CASE focus = "notes" ->
             {Text(<<1, 2, 1>>), Marginal(1, <<1>>), Definition(1), Definition(2), Continuation, PageLine(1),
              Heading(1, "none", <<1>>)}
      [] focus = "outline" ->
             {Heading(1, "none", <<Word>>), Heading(1, "toc", <<Word>>), Heading(2, "par1", <<Word>>),
              Heading(2, "par2", <<Word>>), Heading(3, "none", <<Word>>), Line("text", 0, "author", <<Word>>), PageLine(1)}
      [] focus = "marks" ->
             {Heading(1, "none", <<Word>>), Heading(2, "par1", <<Word>>), Heading(3, "none", <<Word>>),
              Marginal(1, <<Word>>), Marginal(2, <<Word>>)}
      [] focus = "pages" ->
             {PageLine(1), PageLine(2), Blank, Text(<<Word, Space, Marker(1), Space, Word>>), Text(<<Marker(2), Space, Word>>),
              Text(<<Escape, Word, Space, Marker(2)>>), Text(<<Word, Marker(1)>>), Line("quote", 0, "none", <<Marker(2), Space, Word>>),
              Line("table", 0, "none", <<Word>>), Heading(1, "none", <<Word, Space, Marker(2)>>)}

DmdInit(foci) ==
    /\ dmdFocus \in foci
    /\ dmdLines = <<>>
    /\ dmdParser = NewParser
    /\ dmdParsed = FinishParse(NewParser)

ReadNextLine(l) ==
    /\ Len(dmdLines) < IF dmdFocus \in {"pages", "outline"} THEN MaxDmdLines - 1 ELSE MaxDmdLines
    /\ dmdLines' = Append(dmdLines, l)
    /\ dmdParser' = ReadLine(dmdParser, l)
    /\ dmdParsed' = FinishParse(dmdParser')
    /\ UNCHANGED dmdFocus

DmdNext == \E l \in Alphabet(dmdFocus) : ReadNextLine(l)
-----------------------------------------------------------------------------
(* What a document is, said of its lines and offsets rather than of the    *)
(* parser's way through them.                                              *)

PageAt(d, at) == Cardinality({i \in DOMAIN d.pages : d.pages[i].start <= at})
SectionAt(d, at) == Max({0} \cup {s \in DOMAIN d.sections : d.sections[s].start <= at /\ at < d.sections[s].end})

\* The marginal number in force: the last one since the last heading.
MarkAt(d, at) ==
    LET last == Max({0} \cup {b \in DOMAIN d.blocks : d.blocks[b].start <= at /\ (d.blocks[b].anchor > 0 \/ d.blocks[b].kind = "heading")})
    IN  IF last = 0 THEN 0 ELSE d.blocks[last].anchor

\* Where each line begins.
Offsets(lines) == FoldLeft(LAMBDA offs, l : Append(offs, Last(offs) + LineLength(l) + 1), <<0>>, lines)

\* Every definition is bound to the nearest ref of its label before it that no earlier definition has, and to none
\* only when there is none; the note is on the page, in the section and at the marginal number of that ref.
NotesFindTheirRefs(d) ==
    /\ \A k \in DOMAIN d.notes :
           LET note == d.notes[k]
               free == {r \in DOMAIN d.refs : d.refs[r].label = note.label /\ d.refs[r].at < note.start /\ d.refs[r].note \notin 1..(k - 1)}
           IN  IF free = {} THEN note.refAt < 0 /\ note.page = PageAt(d, note.start) /\ note.section = SectionAt(d, note.start)
               ELSE LET ref == d.refs[Max(free)]
                    IN  /\ ref.note = k /\ note.refAt = ref.at
                        /\ note.page = PageAt(d, ref.at) /\ note.section = SectionAt(d, ref.at) /\ note.anchor = MarkAt(d, ref.at)
    /\ \A r \in DOMAIN d.refs : d.refs[r].note > 0 => d.notes[d.refs[r].note].refAt = d.refs[r].at

\* A note's text ends before anything that is not its own begins: continuations stay in its block, on its page.
NotesStayWhole(d) ==
    \A k \in DOMAIN d.notes : \E b \in DOMAIN d.blocks :
        /\ d.blocks[b].kind = "fndefs"
        /\ d.blocks[b].start <= d.notes[k].start /\ d.notes[k].end <= d.blocks[b].end

\* Sections nest by level. Each ends with the last content before the heading that closes it, and every block - page
\* markers behind that content too - is in the innermost section that holds it.
OutlineIsNested(d) ==
    /\ \A s \in DOMAIN d.sections :
           LET sec == d.sections[s]
               closing == {t \in DOMAIN d.sections : t > s /\ d.sections[t].level <= sec.level}
               inside == {b \in DOMAIN d.blocks : /\ d.blocks[b].kind # "page" /\ d.blocks[b].start >= sec.start
                                                  /\ closing = {} \/ d.blocks[b].start < d.sections[Min(closing)].start}
           IN  /\ sec.parent = Max({0} \cup {t \in 1..(s - 1) : d.sections[t].level < sec.level})
               /\ sec.end = Max({d.blocks[b].end : b \in inside})
               /\ sec.pageFrom = PageAt(d, sec.start) /\ sec.pageTo = PageAt(d, sec.end - 1)
               /\ sec.indexed <=> (sec.kind # "toc" /\ (sec.parent = 0 \/ d.sections[sec.parent].indexed))
    /\ \A b \in DOMAIN d.blocks : d.blocks[b].section = SectionAt(d, d.blocks[b].start)

\* The author a section names stands in its first content block and nowhere else.
AuthorsAreTheirs(d, lines, offs) ==
    \A s \in DOMAIN d.sections :
        LET under == {b \in DOMAIN d.blocks : d.blocks[b].kind \in {"para", "quote", "table"} /\ d.blocks[b].start > d.sections[s].start
                                              /\ (s < Len(d.sections) => d.blocks[b].start < d.sections[s + 1].start)}
        IN  d.sections[s].author <=> (under # {} /\ \E i \in DOMAIN lines : offs[i] = d.blocks[Min(under)].start /\ lines[i].of = "author")

\* Every line that is not blank lies in exactly one block, and blocks do not overlap.
BlocksHoldTheLines(d, lines, offs) ==
    /\ \A i \in DOMAIN lines : lines[i].kind # "blank" =>
           Cardinality({b \in DOMAIN d.blocks : d.blocks[b].start <= offs[i] /\ offs[i] + LineLength(lines[i]) <= d.blocks[b].end}) = 1
    /\ \A b \in 1..(Len(d.blocks) - 1) : d.blocks[b].end < d.blocks[b + 1].start

\* A page called blank has no word on it, and the document is paged from its first line or not at all. A block is on
\* the page its line begins on; a marker at the very start of the line opens the page behind that.
PagesHoldTheirText(d, lines, offs) ==
    /\ \A i \in DOMAIN lines, u \in 1..6 :
           (u \in DOMAIN lines[i].body /\ lines[i].body[u] = Word) =>
               LET page == PageAt(d, offs[i] + Prefix(lines[i]) + u - 1) IN page > 0 => ~d.pages[page].blank
    /\ d.paged <=> d.pages # <<>>
    /\ d.paged => \A b \in DOMAIN d.blocks :
           d.blocks[b].page = Cardinality({i \in DOMAIN d.pages : \/ d.pages[i].start < d.blocks[b].start
                                                                \/ (d.blocks[b].kind = "page" /\ d.pages[i].start = d.blocks[b].start)})

\* A marginal number is reported exactly when it does not rise above the one before it in its scope.
MarksRiseOrAreReported(d) ==
    LET Scope(b) == LET chain == IF d.blocks[b].section = 0 THEN <<>> ELSE d.sections[d.blocks[b].section].chain
                        pars == SelectSeq(chain, LAMBDA s : d.sections[s].kind \in {"par1", "par2"})
                    IN  IF pars # <<>> THEN Last(pars) ELSE IF chain # <<>> THEN chain[1] ELSE 0
        marked == {b \in DOMAIN d.blocks : d.blocks[b].anchor > 0}
    IN  \A b \in marked :
            LET before == Max({0} \cup {c \in marked : c < b /\ Scope(c) = Scope(b)})
            IN  Problem("mn_sequence", d.blocks[b].start) \in d.problems
                    <=> (before > 0 /\ d.blocks[before].anchor >= d.blocks[b].anchor)

\* What an upload is billed for is the length of what search sees of it.
CountedIsProjected(d, lines) == (d.paged /\ lines # <<>>) => d.counted = ProjectedLength(lines)

(* The structure found in a text is the one its lines have: notes are      *)
(* bound, sections nested, blocks, pages and marginal numbers placed as    *)
(* the text around them says, and the billed length is the projection's.   *)
StructureIsFound ==
    LET offs == Offsets(dmdLines)
    IN  dmdLines # <<>> =>
        /\ NotesFindTheirRefs(dmdParsed) /\ NotesStayWhole(dmdParsed)
        /\ OutlineIsNested(dmdParsed) /\ AuthorsAreTheirs(dmdParsed, dmdLines, offs)
        /\ BlocksHoldTheLines(dmdParsed, dmdLines, offs) /\ PagesHoldTheirText(dmdParsed, dmdLines, offs)
        /\ MarksRiseOrAreReported(dmdParsed) /\ CountedIsProjected(dmdParsed, dmdLines)
=============================================================================
