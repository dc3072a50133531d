---------------------------- MODULE EsbirkaSection ----------------------------
(***************************************************************************)
(* One § or one article of an act in e-Sbírka (src/sources/esbirka.ts).    *)
(* The text comes in fragment pages; getSection looks for the § by the     *)
(* designation of every fragment, jumping to where its number predicts,    *)
(* while the open-data SPARQL endpoint is raced alongside.  getArticle     *)
(* collects an article by its designation, or cuts it out of the text.     *)
(*                                                                         *)
(* A fragment is a § or an article heading, or a line under one; pages are *)
(* numbered from 0 as in the source.  Requests, channels and the cache of  *)
(* pages are left out: a read gives its pages or fails.                    *)
(***************************************************************************)
EXTENDS Integers, Sequences, FiniteSets, SequencesExt, FiniteSetsExt

CONSTANTS
    ScanCap,      \* SECTION_SCAN_MAX_PAGES
    ScanBatch,    \* SECTION_SCAN_BATCH
    ArticleCap,   \* ARTICLE_SCAN_MAX_PAGES
    ArticleBatch  \* FRAGMENT_PAGE_BATCH

ASSUME SectionAssumption ==
    /\ ScanCap \in Nat \ {0} /\ ScanBatch \in Nat \ {0}
    /\ ArticleCap \in Nat \ {0} /\ ArticleBatch \in Nat \ {0}

VARIABLES
    act,           \* the pages of the act read, each a sequence of fragments
    target,        \* the § wanted
    scan,          \* getSectionViaScan: what it does, the pages read and asked for, where it stands
    sparql,        \* the SPARQL answer: "not asked", "asked", "text", "empty", "failed"
    sparqlBlocked, \* now < sparqlBlockedUntil
    served,        \* what the reader got, and the fragments of it
    article        \* getArticle, of the same act

sectionVars == <<act, target, scan, sparql, sparqlBlocked, served, article>>

totalPages == Len(act)
Fragments(u) == act[u + 1]
PageNumbers == 0 .. totalPages - 1

(* A § number as a sortable key: 1 is § 1, 2 is § 1a, 3 is § 2, ...; 0 no §. *)
num(key) == (key + 1) \div 2

-----------------------------------------------------------------------------
(* scanPage: what one page says about the §.                               *)

hits(u) == {i \in DOMAIN Fragments(u) : Fragments(u)[i].key = target}
cited(u) == {i \in DOMAIN Fragments(u) : Fragments(u)[i].key # 0}
keysOn(u) == {Fragments(u)[i].key : i \in cited(u)}
parts(u) == {Fragments(u)[i].part : i \in cited(u)} \ {"none"}
ordered(u) == \A i, j \in cited(u) : i < j => Fragments(u)[i].key <= Fragments(u)[j].key

\* Fragments of another §: a heading, or a citation that names another one.
foreign(u) == {i \in DOMAIN Fragments(u) : Fragments(u)[i].key # target /\ (Fragments(u)[i].key # 0 \/ Fragments(u)[i].heading)}

interleaved(u) == \E i \in foreign(u) : Min(hits(u)) < i /\ i < Max(hits(u))

ends(u) == hits(u) # {} /\ ~interleaved(u) /\ \E i \in foreign(u) : i > Max(hits(u))

mayBeginBefore_never(u) == FALSE
mayBeginBefore(u) == hits(u) # {} /\ (interleaved(u) \/ ~\E i \in foreign(u) : i < Min(hits(u)))

(* placeAmong: the pages where the § can still be, judged from those read; *)
(* none at all if it cannot exist, and -1 if their §§ are not in order.    *)
keyed(read) == {u \in read : cited(u) # {}}
below(read) == {u \in keyed(read) : Max(keysOn(u)) < target}
above(read) == {u \in keyed(read) : Min(keysOn(u)) > target}

inOrder(read) ==
    /\ \A u \in keyed(read) : ordered(u)
    /\ \A u, v \in keyed(read) : u < v => Max(keysOn(u)) <= Min(keysOn(v))

placeAmong(read) ==
    IF ~inOrder(read) \/ below(read) = {} THEN {-1}
    ELSE IF keyed(read) # below(read) \cup above(read) THEN {}
    ELSE (Max(below(read)) + 1 .. Min(above(read) \cup {totalPages}) - 1) \ read

\* spread: up to ScanBatch of the pages, evenly.
spread(pages) ==
    IF Cardinality(pages) <= ScanBatch THEN pages
    ELSE LET list == SetToSortSeq(pages, <)
         IN  {list[(i * Len(list)) \div (ScanBatch + 1) + 1] : i \in 1 .. ScanBatch}

-----------------------------------------------------------------------------
(* getSectionViaScan: one round of reads per step, and what it decides.    *)

ScanAnew == [phase |-> "zero", read |-> {}, wanted |-> {0}, end |-> 1, anchor |-> -1, from |-> -1, to |-> -1]

Ask(s, phase, pages) == [s EXCEPT !.phase = phase, !.wanted = (pages \cap (1 .. totalPages - 1)) \ s.read]

lowestHit_ofAll(s, limit) == {u \in s.read : hits(u) # {}}
lowestHit(s, limit) == {u \in s.read : u < limit /\ hits(u) # {}}

\* Forward from `to`, until the § visibly ends or a page holds none of it.
ForwardFrom_onePage(s, to) == [s EXCEPT !.to = to, !.phase = "done", !.wanted = {}]
ForwardFrom(s, to) ==
    IF to = totalPages - 1 \/ ends(to)
    THEN [s EXCEPT !.to = to, !.phase = "done", !.wanted = {}]
    ELSE Ask([s EXCEPT !.to = to], "forward", {to + 1})

\* Back from `from`, while it may have begun on the page before.
BackFrom(s, from) ==
    IF from = 0 \/ (from - 1 \notin s.read /\ ~mayBeginBefore(from))
    THEN ForwardFrom([s EXCEPT !.from = from], s.anchor)
    ELSE Ask([s EXCEPT !.from = from], "back", {from - 1})

Around(s, anchor) == BackFrom([s EXCEPT !.anchor = anchor], anchor)

\* The linear scan, from page `start`: the first page holding the § in page order.
Linear(s, start) ==
    LET end == Min({start + ScanBatch, ScanCap, totalPages})
    IN  IF start >= Min({ScanCap, totalPages}) THEN [s EXCEPT !.phase = "done", !.wanted = {}]
        ELSE Ask([s EXCEPT !.end = end], "linear", start .. end - 1)

\* Page 0's §§ run in order, in one part of the act, and end below the one wanted.
mayJump ==
    /\ totalPages > 1 /\ ordered(0) /\ cited(0) # {}
    /\ Cardinality(parts(0)) <= 1
    /\ target > Max(keysOn(0))

guess == Min({totalPages - 1, Max({1, (2 * num(target) + num(Max(keysOn(0)))) \div (2 * num(Max(keysOn(0))))})})

sameBody_unasked(s) == TRUE
sameBody(s) == parts(0) = {} \/ \A u \in s.read : parts(u) \subseteq parts(0)

\* One turn of the jump: the § found, shown missing, still to be looked for, or the scan.
Jump(s) ==
    IF ~sameBody(s) THEN Linear(s, 1)
    ELSE IF lowestHit(s, totalPages) # {} THEN Around(s, Min(lowestHit(s, totalPages)))
    ELSE IF placeAmong(s.read) = {-1} THEN Linear(s, 1)
    ELSE IF placeAmong(s.read) = {} THEN [s EXCEPT !.phase = "done", !.wanted = {}]
    ELSE Ask(s, "jump", spread(placeAmong(s.read)))

AfterRead(s) ==
    CASE s.phase = "zero" ->
            IF hits(0) # {} THEN Around(s, 0)
            ELSE IF mayJump THEN Ask(s, "jump", {guess - 1, guess, guess + 1, totalPages - 1})
            ELSE Linear(s, 1)
      [] s.phase = "jump" -> Jump(s)
      [] s.phase = "linear" ->
            IF lowestHit(s, s.end) # {} THEN Around(s, Min(lowestHit(s, s.end))) ELSE Linear(s, s.end)
      [] s.phase = "back" ->
            IF hits(s.from - 1) # {} THEN BackFrom(s, s.from - 1) ELSE ForwardFrom(s, s.anchor)
      [] s.phase = "forward" ->
            IF hits(s.to + 1) # {} THEN ForwardFrom(s, s.to + 1) ELSE [s EXCEPT !.phase = "done"]

Scanning == scan.phase \in {"zero", "jump", "linear", "back", "forward"}

ScanReads ==
    /\ Scanning
    /\ scan' = AfterRead([scan EXCEPT !.read = @ \cup scan.wanted, !.wanted = {}])
    /\ UNCHANGED <<act, target, sparql, sparqlBlocked, served, article>>

ScanFails ==
    /\ Scanning /\ scan.wanted # {}
    /\ scan' = [scan EXCEPT !.phase = "failed"]
    /\ UNCHANGED <<act, target, sparql, sparqlBlocked, served, article>>

\* The fragments the scan found, each <<page, position>>.
Found == IF scan.anchor = -1 THEN {} ELSE UNION {{u} \X hits(u) : u \in scan.from .. scan.to}

-----------------------------------------------------------------------------
(* getSection: the race.                                                   *)

Held == \E u \in PageNumbers : \E i \in hits(u) : Fragments(u)[i].part # "prilohy"

NoAnswer == [via |-> "none", text |-> {}]

\* getSectionViaSparql: an answer of the version asked for, nothing, or no answer.
SparqlAnswers ==
    /\ sparql = "asked"
    /\ \E to \in {"empty", "failed"} \cup (IF Held THEN {"text"} ELSE {}) :
          /\ sparql' = to
          /\ sparqlBlocked' = (sparqlBlocked \/ to = "failed" \/ (to = "empty" /\ served.via = "scan"))
    /\ UNCHANGED <<act, target, scan, served, article>>

ServedBySparql ==
    /\ served = NoAnswer /\ sparql = "text"
    /\ served' = [via |-> "sparql", text |-> {}]
    /\ UNCHANGED <<act, target, scan, sparql, sparqlBlocked, article>>

ServedByScan ==
    /\ served = NoAnswer /\ scan.phase = "done" /\ scan.anchor # -1
    /\ served' = [via |-> "scan", text |-> Found]
    /\ sparqlBlocked' = (sparqlBlocked \/ sparql = "empty")
    /\ UNCHANGED <<act, target, scan, sparql, article>>

SparqlHasNone_orNotYet == sparql # "text"
SparqlHasNone == sparql \in {"not asked", "empty", "failed"}

NotServed ==
    /\ served = NoAnswer /\ SparqlHasNone
    /\ scan.phase = "failed" \/ (scan.phase = "done" /\ scan.anchor = -1)
    /\ served' = [via |-> IF scan.phase = "failed" THEN "error" ELSE "not found", text |-> {}]
    /\ UNCHANGED <<act, target, scan, sparql, sparqlBlocked, article>>

-----------------------------------------------------------------------------
(* getArticle: a fragment has the article it is designated to, under a     *)
(* part of the act, and a line: a heading "Čl. N", another heading (9) or  *)
(* plain text (0).                                                         *)

NoArticle == [pages |-> <<>>, label |-> 0, st |-> "idle", next |-> 0, hits |-> {}, above |-> "none",
              runsOn |-> FALSE, designated |-> FALSE, closed |-> FALSE]

articlePages(a) == Min({Len(a.pages), ArticleCap})
Fragment(a, at) == a.pages[at[1] + 1][at[2]]

\* isHit: the first fragment found fixes the part the article sits in.
aboveOn(a, u) ==
    LET named == {i \in DOMAIN a.pages[u + 1] : a.pages[u + 1][i].segment = a.label}
    IN  IF a.above # "none" \/ named = {} THEN a.above ELSE a.pages[u + 1][Min(named)].above

articleHits_inAnyPart(a, u) == {u} \X {i \in DOMAIN a.pages[u + 1] : a.pages[u + 1][i].segment = a.label}
articleHits(a, u) ==
    {u} \X {i \in DOMAIN a.pages[u + 1] :
               a.pages[u + 1][i].segment = a.label /\ a.pages[u + 1][i].above = aboveOn(a, u)}

\* extractArticle, of the first n pages: the lines from its heading to the next heading.
extractArticle(a, n) ==
    LET lines == FlattenSeq([u \in 1 .. n |-> [i \in DOMAIN a.pages[u] |-> <<u - 1, i>>]])
        starts == {k \in DOMAIN lines : Fragment(a, lines[k]).line = a.label}
        after == IF starts = {} THEN {}
                 ELSE {k \in DOMAIN lines : k > Min(starts) /\ Fragment(a, lines[k]).line # 0}
    IN  [text |-> IF starts = {} THEN {}
                  ELSE {lines[k] : k \in Min(starts) .. Min(after \cup {Len(lines) + 1}) - 1},
         closed |-> after # {}]

TakePage(a, u) ==
    LET found == articleHits(a, u)
    IN  IF a.st # "reading" \/ (a.hits # {} /\ found = {}) THEN [a EXCEPT !.st = "done"]
        ELSE [a EXCEPT !.above = aboveOn(a, u), !.hits = @ \cup found,
                       !.runsOn = found # {} /\ <<u, Len(a.pages[u + 1])>> \in found,
                       !.designated = @ \/ \E i \in DOMAIN a.pages[u + 1] : a.pages[u + 1][i].segment # 0]

batchSize(a) == IF a.next = 0 \/ (a.hits # {} /\ ~a.runsOn) THEN 1 ELSE ArticleBatch

\* The end of the round: with nothing designated so far, the text may already hold it all.
closedInText_evenOpen(a) ==
    a.hits = {} /\ ~a.designated /\ extractArticle(a, a.next).text # {}
closedInText(a) == a.hits = {} /\ ~a.designated /\ extractArticle(a, a.next).closed

RoundEnds(a) ==
    IF a.next = articlePages(a) \/ closedInText(a) THEN [a EXCEPT !.st = "done", !.closed = closedInText(a)] ELSE a

ArticleReads ==
    /\ article.st = "reading"
    /\ LET upto == Min({articlePages(article), article.next + batchSize(article)})
           read == FoldLeft(TakePage, article, [k \in 1 .. upto - article.next |-> article.next + k - 1])
       IN  article' = RoundEnds([read EXCEPT !.next = upto])
    /\ UNCHANGED <<act, target, scan, sparql, sparqlBlocked, served>>

ArticleFails ==
    /\ article.st = "reading"
    /\ article' = [article EXCEPT !.st = "failed"]
    /\ UNCHANGED <<act, target, scan, sparql, sparqlBlocked, served>>

articleText(a) == IF a.hits # {} THEN a.hits ELSE extractArticle(a, a.next).text

-----------------------------------------------------------------------------
(* The acts read: §§ of so many fragments each, perhaps one missing, in    *)
(* pages of two; perhaps out of order; perhaps with an annex that numbers  *)
(* its own §§ from the first again.                                        *)
Paged(list, size) ==
    [u \in 1 .. (Len(list) + size - 1) \div size |-> SubSeq(list, (u - 1) * size + 1, Min({u * size, Len(list)}))]

Body(lengths, order) ==
    FlattenSeq([k \in DOMAIN order |->
        [i \in 1 .. lengths[order[k]] |-> [key |-> order[k], part |-> "norma", heading |-> i = 1]]])

Annex == [k \in 1 .. 5 |-> [key |-> k, part |-> "prilohy", heading |-> TRUE]]

Chapter == <<[key |-> 0, part |-> "norma", heading |-> FALSE]>>

SectionActs ==
    {Paged(Chapter \o Body(lengths, order) \o annex, 2) :
        lengths \in [1 .. 5 -> {0, 1, 3}], order \in {<<1, 2, 3, 4, 5>>, <<1, 4, 2, 3, 5>>}, annex \in {<<>>, Annex}}

ArticleActs ==
    {Paged([k \in DOMAIN s |-> [above |-> IF k <= split THEN "novela" ELSE "prilohy", segment |-> s[k], line |-> 0]], size) :
        s \in [1 .. 6 -> {1, 2}], split \in {3, 6}, size \in {1, 2}}
    \cup
    {Paged([k \in DOMAIN s |-> [above |-> "none", segment |-> 0, line |-> s[k]]], size) :
        s \in [1 .. 5 -> {0, 1, 9}], size \in {1, 2}}
    \cup
    {Paged(<<[above |-> "none", segment |-> 0, line |-> 0]>> \o
           [k \in DOMAIN s |-> [above |-> "novela", segment |-> s[k], line |-> 0]], 2) : s \in [1 .. 3 -> {1, 2}]}

SectionRests ==
    /\ act = <<<<>>>> /\ target = 1
    /\ scan = [ScanAnew EXCEPT !.phase = "done"] /\ served = [NoAnswer EXCEPT !.via = "rests"]
    /\ sparql = "not asked" /\ sparqlBlocked = TRUE

SectionInit ==
    \/ /\ act \in SectionActs \ {<<>>} /\ target \in 1 .. 5
       /\ scan = ScanAnew /\ served = NoAnswer /\ article = NoArticle
       /\ \/ sparql = "asked" /\ sparqlBlocked = FALSE
          \/ sparql = "not asked" /\ sparqlBlocked = TRUE
    \/ /\ SectionRests
       /\ \E pages \in ArticleActs : article = [NoArticle EXCEPT !.pages = pages, !.label = 1, !.st = "reading"]

SectionNext ==
    \/ ScanReads \/ ScanFails \/ SparqlAnswers \/ ServedBySparql \/ ServedByScan \/ NotServed
    \/ ArticleReads \/ ArticleFails

SectionSpec == SectionInit /\ [][SectionNext]_sectionVars

-----------------------------------------------------------------------------
(* Properties.                                                             *)

BodyHits == UNION {{u} \X {i \in hits(u) : Fragments(u)[i].part = "norma"} : u \in PageNumbers}
AnnexHits == UNION {{u} \X {i \in hits(u) : Fragments(u)[i].part = "prilohy"} : u \in PageNumbers}
pagesWith(text) == {at[1] : at \in text}

BodyInOrder ==
    \A u, v \in PageNumbers : \A i \in cited(u), j \in cited(v) :
        (u < v \/ (u = v /\ i < j)) /\ Fragments(v)[j].part = "norma" => Fragments(u)[i].key <= Fragments(v)[j].key

\* The fragments of the § in the body stand together, wherever the act has it.
BodyTogether ==
    \A u, v, w \in PageNumbers : \A i \in hits(u), j \in hits(v), k \in DOMAIN Fragments(w) :
        /\ Fragments(u)[i].part = "norma" /\ Fragments(v)[j].part = "norma"
        /\ u < w \/ (u = w /\ i < k)
        /\ w < v \/ (w = v /\ k < j)
        => Fragments(w)[k].key = target

\* Another § follows on the page where it ends, and no annex's § of its number shares its pages.
VisiblyEnds ==
    /\ pagesWith(BodyHits) \cap pagesWith(AnnexHits) = {}
    /\ \E i \in foreign(Max(pagesWith(BodyHits))) : i > Max(hits(Max(pagesWith(BodyHits))))

\* A § the scan serves is the body's, whole, on however many pages it is, however
\* the scan came to it and whether or not the act's §§ run in order ("no part of
\* it is left behind, whichever way the page was found"), with nothing of an annex's
\* § of the same number if another § follows it. "Not found" is said only of a §
\* the body does not have, that starts past the pages a scan may read, or that the
\* act has out of order on a page left unread, where the pages read look in order
\* (the comment at esbirka.ts:1045 has "anything out of order" fall back to reading
\* page by page); and never when SPARQL had it. An error is told only when the scan
\* failed and SPARQL could not serve either.
SectionIsWhole ==
    /\ (served.via = "scan" /\ BodyTogether /\ BodyHits # {}) =>
          /\ BodyHits \subseteq served.text
          /\ VisiblyEnds => served.text = BodyHits
    /\ served.via = "not found" =>
          /\ sparql # "text"
          /\ BodyTogether => \A u \in pagesWith(BodyHits) :
                \/ u >= ScanCap
                \/ ~BodyInOrder /\ inOrder(scan.read) /\ u \notin scan.read
    /\ served.via = "error" => scan.phase = "failed" /\ sparql # "text"

\* An article is all the fragments designated to it in the first part that has
\* one, though other articles' come in between, as long as no page in between is
\* without any; never those of another part. In an act without designations it is
\* the text from its heading to the next one.
ArticleIsWhole ==
    article.st = "done" =>
        LET all == UNION {{u} \X DOMAIN article.pages[u + 1] : u \in 0 .. articlePages(article) - 1}
            named == {at \in all : Fragment(article, at).segment = article.label}
            first == CHOOSE at \in named : \A b \in named : at[1] < b[1] \/ (at[1] = b[1] /\ at[2] <= b[2])
            mine == {at \in named : Fragment(article, at).above = Fragment(article, first).above}
        IN  IF named = {} THEN articleText(article) = extractArticle(article, articlePages(article)).text
            ELSE /\ articleText(article) \subseteq mine
                 /\ (\A u \in Min(pagesWith(mine)) .. Max(pagesWith(mine)) : u \in pagesWith(mine)) =>
                        articleText(article) = mine

=============================================================================
