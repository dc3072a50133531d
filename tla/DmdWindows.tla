----------------------------- MODULE DmdWindows -----------------------------
(***************************************************************************)
(* What the windows of a document show (renderRange,                       *)
(* src/src/files/dmd/render.ts, as files_get_document calls it): the text  *)
(* between two offsets, each footnote under the paragraph that cites it.   *)
(* A note whose ref is in the window and whose definition lies behind it   *)
(* is appended, as far as it was loaded, and the window that holds the     *)
(* definition leaves it out.                                               *)
(*                                                                         *)
(* A text is read as in DmdParse, then window after window from a chosen   *)
(* place. Content is told apart by offset: the words and refs of a line.   *)
(***************************************************************************)
EXTENDS DmdParse

CONSTANT TailReach    \* TAIL_REACH: how far behind a window its notes are loaded

ASSUME WindowsAssumption == TailReach \in Nat

VARIABLES winMode,    \* "none" before the first window; "after" or "omit": what is asked of footnotes
          winStart,   \* where the first window begins
          winFrom,    \* where the next one does
          winShown,   \* content shown so far
          winAgain,   \* content shown more than once
          winOmitted, \* notes counted as left out
          winDropped, \* notes left out, and said to be, because the answer was too long
          winUnread   \* notes a window names but does not show: their text was not loaded

winVars == <<winMode, winStart, winFrom, winShown, winAgain, winOmitted, winDropped, winUnread>>

ContentIn(lines, from, to) ==
    LET offs == Offsets(lines)
    IN  UNION {{at \in {offs[i] + Prefix(lines[i]) + u - 1 : u \in {v \in DOMAIN lines[i].body : lines[i].body[v] \in Refs \cup {Word}}} :
                from <= at /\ at < to} : i \in DOMAIN lines}
-----------------------------------------------------------------------------
\* The footnotes a window is given: their definition overlaps it, or their ref lies in it.
loadFootnotes(d, from, to) ==
    {k \in DOMAIN d.notes : \/ d.notes[k].start < to /\ d.notes[k].end > from
                            \/ from <= d.notes[k].refAt /\ d.notes[k].refAt < to}

\* Notes cited in the window and printed behind it.
TailNotes(d, from, to) ==
    {k \in DOMAIN d.notes : from <= d.notes[k].refAt /\ d.notes[k].refAt < to /\ d.notes[k].start >= to}

\* Of these, those of which the text that was loaded does not hold all.
NotLoaded(d, to) == {k \in DOMAIN d.notes : d.notes[k].end > to + TailReach}

\* The line of a definition with the indented lines that continue it, blank lines between them included.
GroupOf(lines, offs, i, to) ==
    {i} \cup {j \in i + 1..Len(lines) : /\ lines[j].kind = "indented" /\ offs[j] < to
                                        /\ \A k \in i + 1..j : lines[k].kind \in {"indented", "blank"}}

\* A definition in the window that an earlier window has shown, under the paragraph with its ref.
ShownBefore(d, notes, at, from) == \E k \in notes : d.notes[k].start = at /\ 0 <= d.notes[k].refAt /\ d.notes[k].refAt < from

\* What a window shows, how many notes it says are left out, and which it only names.
renderRange(lines, d, from, to, notes, mode) ==
    LET offs == Offsets(lines)
        defs == {i \in DOMAIN lines : lines[i].kind = "fndef" /\ from <= offs[i] /\ offs[i] < to}
        fresh == {i \in defs : ~ShownBefore(d, notes, offs[i] + Prefix(lines[i]), from)}
        LineSpans(S) == UNION {ContentIn(lines, Max({from, offs[j]}), Min({to, offs[j] + LineLength(lines[j])})) : j \in S}
        grouped == UNION {GroupOf(lines, offs, i, to) : i \in defs}
        tail == TailNotes(d, from, to) \cap notes
        named == tail \cap NotLoaded(d, to)
    IN  [shown |-> LineSpans({i \in DOMAIN lines : offs[i] < to /\ offs[i] + LineLength(lines[i]) > from} \ grouped)
             \cup (IF mode = "omit" THEN {}
                   ELSE LineSpans(UNION {GroupOf(lines, offs, i, to) : i \in fresh})
                        \cup UNION {ContentIn(lines, d.notes[k].start, d.notes[k].end) : k \in tail \ named}),
         omitted |-> IF mode = "omit" THEN Cardinality(fresh) + Cardinality(tail) ELSE 0,
         unread |-> IF mode = "omit" THEN {} ELSE named]

\* Where a window may end: a page begins, or a line that does not continue a footnote. The code prefers a line behind a
\* blank one.
Boundaries(lines, d) ==
    LET offs == Offsets(lines)
    IN  {d.pages[i].start : i \in DOMAIN d.pages} \cup {d.n}
        \cup {offs[i] : i \in {j \in DOMAIN lines : lines[j].kind \notin {"blank", "indented"}}}
-----------------------------------------------------------------------------
WindowAlphabet ==
    {PageLine(1), Text(<<1>>), Text(<<Word, 1, Space, Marker(2), Space, 1>>), Definition(1), Continuation, Blank}

WinInit ==
    /\ winMode = "none" /\ winStart = 0 /\ winFrom = 0
    /\ winShown = {} /\ winAgain = {} /\ winOmitted = 0 /\ winDropped = {}
    /\ winUnread = {}

WinReadLine ==
    /\ winMode = "none"
    /\ \E l \in IF dmdLines = <<>> THEN {PageLine(1)} ELSE WindowAlphabet : ReadNextLine(l)
    /\ UNCHANGED winVars

StartReading(from, mode) ==
    /\ winMode = "none" /\ Len(dmdLines) = MaxDmdLines
    /\ from \in {0} \cup {dmdParsed.pages[i].start : i \in DOMAIN dmdParsed.pages}
    /\ winMode' = mode /\ winStart' = from /\ winFrom' = from
    /\ UNCHANGED <<dmdVars, winShown, winAgain, winOmitted, winDropped, winUnread>>

\* The notes printed behind the window are left out when they make the answer too long.
ReadWindow(to, tooLong) ==
    LET dropped == IF tooLong THEN TailNotes(dmdParsed, winFrom, to) ELSE {}
        window == renderRange(dmdLines, dmdParsed, winFrom, to, loadFootnotes(dmdParsed, winFrom, to) \ dropped, winMode)
    IN  /\ winMode # "none" /\ winFrom < to /\ to \in Boundaries(dmdLines, dmdParsed)
        /\ tooLong => dropped # {}
        /\ winShown' = winShown \cup window.shown
        /\ winAgain' = winAgain \cup (winShown \cap window.shown)
        /\ winOmitted' = winOmitted + window.omitted
        /\ winDropped' = winDropped \cup dropped
        /\ winUnread' = winUnread \cup window.unread
        /\ winFrom' = to
        /\ UNCHANGED <<dmdVars, winMode, winStart>>

WinNext ==
    \/ WinReadLine
    \/ \E from \in 0..dmdParsed.n, mode \in {"after", "omit"} : StartReading(from, mode)
    \/ \E to \in 1..dmdParsed.n, tooLong \in BOOLEAN : ReadWindow(to, tooLong)
-----------------------------------------------------------------------------
(* Reading on to the end of a document shows all of its text once, however *)
(* the windows fall between a ref and its definition; and each footnote is *)
(* shown by one window, or the window that cites it says that it is left   *)
(* out: because the answer was too long, or, by its label, because its     *)
(* definition ends more than TAIL_REACH behind the window (no later window *)
(* shows it then, render.ts:144). What is asked without footnotes leaves   *)
(* out every note and counts it once. Only notes cited before the first    *)
(* window are not shown.                                                   *)
WindowsShowOnce ==
    winMode # "none" =>
        LET d == dmdParsed
            mine == {k \in DOMAIN d.notes : d.notes[k].start >= winStart /\ (d.notes[k].refAt < 0 \/ d.notes[k].refAt >= winStart)}
            NoteContent(S) == UNION {ContentIn(dmdLines, d.notes[k].start, d.notes[k].end) : k \in S}
            text == ContentIn(dmdLines, winStart, d.n) \ NoteContent(DOMAIN d.notes)
        IN  /\ winAgain = {}
            /\ winFrom = d.n =>
                   /\ winMode = "after" => winShown = text \cup NoteContent(mine \ (winDropped \cup winUnread))
                   /\ winMode = "omit" => winShown = text /\ winOmitted = Cardinality(mine \ winDropped)
=============================================================================
