------------------------------ MODULE ZoteroText ------------------------------
(***************************************************************************)
(* zotero_get_text of one attachment (src/mcp/tools/zotero.ts): Zotero's   *)
(* index when it is whole, else the stored PDF, converted in chunks of     *)
(* LIMITS.maxPdfPages that are kept for a while (pdfWindow, pdfChunk), else *)
(* a partial index, else the reason.                                       *)
(*                                                                         *)
(* A chunk is known by the text pages (DOC_PAGE_CHARS) it gives and by     *)
(* whether its PDF pages have a text layer.  One iteration of pdfWindow's  *)
(* loop is one action.  The file's version is part of every key, so one    *)
(* version is modelled; find, excerpts and the wording are left out.       *)
(***************************************************************************)
EXTENDS Integers, FiniteSets, Functions

CONSTANTS
    Chunks,          \* how many chunks the PDF has
    ChunkPages,      \* the most text pages a chunk gives
    TextEntries,     \* how many texts are kept (the capacity of pdfTexts)
    MaxConversions   \* MAX_CONVERSIONS_PER_CALL

ASSUME TextAssumption ==
    Chunks \in Nat \ {0} /\ ChunkPages \in Nat \ {0} /\ TextEntries \in Nat \ {0} /\ MaxConversions \in Nat \ {0}

VARIABLES
    pdf,         \* chunk -> the text pages it gives, 0 for pages without a text layer
    index,       \* Zotero's full-text index of it: "none", "partial" or "whole"
    pdfTexts,    \* the chunks whose text is kept
    pdfMeta,     \* the chunks whose page count is kept
    pdfFailed,   \* pdfFailures holds the file
    call,        \* the call under way
    refusals     \* history: calls answered "once more" since a page count was last lost

textVars == <<pdf, index, pdfTexts, pdfMeta, pdfFailed, call, refusals>>

ChunkIds == 1 .. Chunks
NoCall == [st |-> "none", page |-> 0, k |-> 0, offset |-> 0, conversions |-> 0, total |-> 0]
Files == {f \in [ChunkIds -> 0 .. ChunkPages] : Cardinality({k \in ChunkIds : f[k] = 0}) <= 1}

TextInit ==
    /\ pdf \in Files
    /\ index \in {"none", "partial", "whole"}
    /\ pdfTexts = {} /\ pdfMeta = {} /\ pdfFailed = FALSE
    /\ call = NoCall /\ refusals = 0

Walking == call.st = "walking"
Ends(how) == call' = [call EXCEPT !.st = how]

\* (1) A whole index is the text; (2) a stored PDF is read otherwise.
GetText(page) ==
    /\ call.st \notin {"walking", "converting"}
    /\ call' = [NoCall EXCEPT !.st = IF index = "whole" THEN "index" ELSE "walking", !.page = page, !.k = 1]
    /\ UNCHANGED <<pdf, index, pdfTexts, pdfMeta, pdfFailed, refusals>>

Skips_onTheLastPage(k) == k \in pdfMeta /\ call.page >= call.offset + pdf[k] /\ k # Chunks /\ k \notin pdfTexts

\* A chunk before the page is skipped by its page count alone.
Skips(k) == k \in pdfMeta /\ call.page > call.offset + pdf[k] /\ k # Chunks /\ k \notin pdfTexts

SkipChunk ==
    /\ Walking /\ Skips(call.k)
    /\ call' = [call EXCEPT !.offset = @ + pdf[call.k], !.k = @ + 1]
    /\ UNCHANGED <<pdf, index, pdfTexts, pdfMeta, pdfFailed, refusals>>

\* What the text of chunk k gives: the page, the end, or the next chunk.
Reads(k) ==
    call' = IF call.page <= call.offset + pdf[k]
            THEN [call EXCEPT !.st = "page", !.k = k, !.total = IF k = Chunks THEN call.offset + pdf[k] ELSE 0]
            ELSE IF k = Chunks THEN [call EXCEPT !.st = "pastEnd", !.total = call.offset + pdf[k]]
            ELSE [call EXCEPT !.st = "walking", !.offset = @ + pdf[k], !.k = k + 1]

KeptChunk ==
    /\ Walking /\ call.k \in pdfTexts
    /\ Reads(call.k)
    /\ UNCHANGED <<pdf, index, pdfTexts, pdfMeta, pdfFailed, refusals>>

\* (3) Without the PDF's text a partial index is answered, with a warning; (4) else the reason.
Unavailable == Ends(IF index = "partial" THEN "partial" ELSE "unavailable")

\* A chunk that is not kept is converted, at most MaxConversions of them in a
\* call, unless the file is known to be unreadable.
MissingChunk ==
    /\ Walking /\ call.k \notin pdfTexts /\ ~Skips(call.k)
    /\ IF call.conversions = MaxConversions
       THEN Ends("onceMore") /\ refusals' = refusals + 1
       ELSE /\ refusals' = refusals
            /\ IF pdfFailed THEN Unavailable
               ELSE call' = [call EXCEPT !.st = "converting", !.conversions = @ + 1]
    /\ UNCHANGED <<pdf, index, pdfTexts, pdfMeta, pdfFailed>>

\* A text is big: only TextEntries of them are kept, an older one making room.
KeepsText(k) ==
    IF Cardinality(pdfTexts) < TextEntries THEN pdfTexts' = pdfTexts \cup {k}
    ELSE \E j \in pdfTexts : pdfTexts' = (pdfTexts \ {j}) \cup {k}

Keeps_textOnly(k) == KeepsText(k) /\ UNCHANGED pdfMeta

\* Its page count stays longer, so that later calls pass over it.
Keeps(k) == KeepsText(k) /\ pdfMeta' = pdfMeta \cup {k}

Converted ==
    /\ call.st = "converting" /\ pdf[call.k] > 0
    /\ Keeps(call.k) /\ Reads(call.k)
    /\ UNCHANGED <<pdf, index, pdfFailed, refusals>>

\* Pages without a text layer: the whole file is remembered as unreadable.
Scanned ==
    /\ call.st = "converting" /\ pdf[call.k] = 0
    /\ pdfFailed' = TRUE /\ Unavailable
    /\ UNCHANGED <<pdf, index, pdfTexts, pdfMeta, refusals>>

\* The download or the conversion fails for this time only.
FailsOnce ==
    /\ call.st = "converting"
    /\ Unavailable
    /\ UNCHANGED <<pdf, index, pdfTexts, pdfMeta, pdfFailed, refusals>>

\* What is kept expires after CACHE_TTL_MS.text; a text goes when other files
\* need the room, and never after its page count.
Forgets ==
    /\ \/ \E k \in pdfTexts : pdfTexts' = pdfTexts \ {k} /\ UNCHANGED <<pdfMeta, pdfFailed, refusals>>
       \/ \E k \in pdfMeta : /\ pdfMeta' = pdfMeta \ {k} /\ pdfTexts' = pdfTexts \ {k} /\ refusals' = 0
                             /\ UNCHANGED pdfFailed
       \/ pdfFailed /\ pdfFailed' = FALSE /\ UNCHANGED <<pdfTexts, pdfMeta, refusals>>
    /\ UNCHANGED <<pdf, index, call>>

TextNext ==
    \/ \E page \in 1 .. Chunks * ChunkPages : GetText(page)
    \/ SkipChunk \/ KeptChunk \/ MissingChunk \/ Converted \/ Scanned \/ FailsOnce \/ Forgets

TextSpec == TextInit /\ [][TextNext]_textVars

-----------------------------------------------------------------------------
(* Properties.                                                             *)

PagesBefore(k) == FoldFunctionOnSet(+, 0, pdf, 1 .. k - 1)

\* Whatever is kept of the chunks, the page given is the page asked for: the
\* chunk holds it, counted over the text of all chunks before it; and "past
\* the end" is said only beyond the last page.
WindowHoldsThePage ==
    /\ call.st = "page" =>
          /\ call.offset = PagesBefore(call.k)
          /\ call.page - call.offset \in 1 .. pdf[call.k]
          /\ call.total \in {0, PagesBefore(Chunks + 1)}
    /\ call.st = "pastEnd" => call.page > PagesBefore(Chunks + 1)

\* "Call the same once more" is told the truth: while no page count is lost,
\* the calls that are sent back convert every chunk in the end, MaxConversions
\* of them each time (one more call if a count was lost under it).
OnceMoreGetsThere == (refusals - 1) * MaxConversions <= Chunks - 1

\* pdfFailures names PDFs that cannot be read; one of which a part was read is
\* not among them.
FailureMeansUnreadable == pdfFailed => \A k \in ChunkIds : pdf[k] = 0

=============================================================================
