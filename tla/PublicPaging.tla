---------------------------- MODULE PublicPaging ----------------------------
(***************************************************************************)
(* The pages of the search tools over the public sources: us_search,       *)
(* nss_search, ns_search, sdeu_search, doctrine_search and psp_search      *)
(* (src/mcp/tools). A call searches one or several variants of a query;    *)
(* with several, a page is a slice of the merged lists, read anew for      *)
(* every page from as much of each list as the page needs.                 *)
(*                                                                         *)
(* A call is what the source would list for each variant, the variants     *)
(* that fail, the page size asked for, and, for each tool, what else its   *)
(* pages depend on. Sizes are scaled: NALUS and the NSS page by one hit    *)
(* instead of 20.                                                          *)
(***************************************************************************)
EXTENDS Naturals, FiniteSets, Sequences, SequencesExt


CONSTANTS
    NsWindow,      \* 900: as far as the NS pages
    CuriaCap,      \* MULTI_PREFIX_CAP: cases of a merged page
    PrimoPage,     \* PRIMO_PAGE_SIZE: records of a page of the catalogue
    PrimoCap,      \* PRIMO_MAX_RESULTS: records a guest reaches
    PspRows,       \* RESULTS_PER_PAGE: rows of a listing
    PspPages,      \* MAX_LISTING_PAGES: listings read for a call
    PagedHits,     \* a bound: hits of all variants
    PagedLimits    \* page sizes a caller asks for

Most(S) == IF S = {} THEN 0 ELSE CHOOSE n \in S : \A m \in S : m <= n
Lower(a, b) == IF a < b THEN a ELSE b
CeilDiv(n, k) == (n + k - 1) \div k
Items(list) == {list[i] : i \in DOMAIN list}
Slice(list, from, to) == SubSeq(list, from + 1, Lower(to, Len(list)))   \* Array.slice

\* Rank 1 of every list, then rank 2 and so on; the first occurrence wins.
interleave_concatenates(lists) ==
    FoldLeft(LAMBDA out, item : IF item \in Items(out) THEN out ELSE Append(out, item),
             <<>>, FlattenSeq(lists))

interleave(lists) ==
    LET n == Len(lists)
        longest == Most({Len(lists[i]) : i \in 1..n})
        Take(out, k) ==
            LET list == lists[(k % n) + 1]
                rank == (k \div n) + 1
            IN  IF rank > Len(list) \/ list[rank] \in Items(out) THEN out ELSE Append(out, list[rank])
    IN  FoldLeft(Take, <<>>, [k \in 1..(longest * n) |-> k - 1])

(* The variants that answer. When none does the call fails: it has no page. *)
Fulfilled(s) == SelectSeq([i \in DOMAIN s.lists |-> [list |-> s.lists[i], ok |-> i \notin s.failed]], LAMBDA v : v.ok)
ListsOf(s) == [i \in DOMAIN Fulfilled(s) |-> Fulfilled(s)[i].list]
Multi(s) == Len(s.lists) > 1
maxTotal(s) == Most({Len(list) : list \in Items(ListsOf(s))})

ToolPage(hits, more, says, last) == [hits |-> hits, more |-> more, says |-> says, last |-> last]
-----------------------------------------------------------------------------
(* us_search: pages 0, 1, ...; a variant is read in pages of 20, 40 or 80  *)
(* rows, never past a total that an earlier search of it reported.         *)
variantRows_wholePages(s, list, page) ==
    LET need == IF s.known THEN Lower(page + 1, Len(list)) ELSE page + 1
    IN  Slice(list, 0, IF need <= 2 THEN need ELSE 4 * (need \div 4))

variantRows(s, list, page) ==
    LET need == IF s.known THEN Lower(page + 1, Len(list)) ELSE page + 1
    IN  Slice(list, 0, IF need <= 2 THEN need ELSE 4 * CeilDiv(need, 4))

NalusPage(s, page) ==
    LET lists == ListsOf(s)
        read == [i \in DOMAIN lists |-> variantRows(s, lists[i], page)]
        merged == interleave(read)
        hits == IF Multi(s) THEN Slice(merged, page, page + 1) ELSE Slice(lists[1], page, page + 1)
        more == IF Multi(s)
                THEN Len(merged) > page + 1 \/ \E i \in DOMAIN lists : Len(lists[i]) > Len(read[i])
                ELSE page + 1 < maxTotal(s)
        listed == IF Multi(s) THEN Len(merged) ELSE maxTotal(s)
    IN  CASE hits # <<>> -> ToolPage(hits, more, "hits", 0)
          [] hits = <<>> /\ maxTotal(s) = 0 -> ToolPage(hits, more, "nothing", 0)
          [] hits = <<>> /\ maxTotal(s) > 0 -> ToolPage(hits, more, "past the end", IF listed = 0 THEN 0 ELSE listed - 1)

(* nss_search: the first page has 40 hits, the others 20.                  *)
lastPage_ofTwenty(s, count) == count
lastPage(s, count) == IF count <= 2 THEN 1 ELSE 1 + (count - 2)

NssPage(s, page) ==
    LET lists == ListsOf(s)
        start == IF page = 1 THEN 0 ELSE 2 + (page - 2)
        end == IF page = 1 THEN 2 ELSE start + 1
        read == [i \in DOMAIN lists |-> Slice(lists[i], 0, end)]
        merged == IF Multi(s) THEN interleave(read) ELSE Slice(lists[1], start, end)
        hits == IF Multi(s) THEN Slice(merged, start, end) ELSE merged
        more == IF Multi(s)
                THEN Len(merged) > end \/ \E i \in DOMAIN lists : Len(lists[i]) > Len(read[i])
                ELSE end < maxTotal(s)
        listed == IF Multi(s) THEN Len(merged) ELSE maxTotal(s)
    IN  CASE hits # <<>> -> ToolPage(hits, more, "hits", 0)
          [] hits = <<>> /\ (page = 1 \/ listed = 0) -> ToolPage(hits, more, "nothing", 0)
          [] hits = <<>> /\ page > 1 /\ listed > 0 -> ToolPage(hits, more, "past the end", lastPage(s, listed))

(* ns_search: an offset and a limit within the first 900. It does not say  *)
(* whether there is more: the reader goes on until a page is empty.        *)
NsPage(s, page) ==
    LET lists == ListsOf(s)
        offset == page * s.limit
        window == Lower(offset + s.limit, NsWindow)
        hits == IF Multi(s)
                THEN Slice(interleave([i \in DOMAIN lists |-> Slice(lists[i], 0, window)]), offset, offset + s.limit)
                ELSE Slice(lists[1], offset, window)
    IN  ToolPage(hits, hits # <<>> /\ offset + s.limit < NsWindow,
             IF hits = <<>> /\ maxTotal(s) = 0 THEN "nothing" ELSE "hits", 0)
-----------------------------------------------------------------------------
(* sdeu_search: by cases. The filters the index does not know are applied  *)
(* to what was read: a case all of whose documents they hide is dropped.   *)
CuriaPage(s, page) ==
    LET lists == ListsOf(s)
        prefix == (page + 1) * s.limit
        read == [i \in DOMAIN lists |->
                    IF Multi(s) THEN Slice(lists[i], 0, prefix) ELSE Slice(lists[i], page * s.limit, prefix)]
        kept == [i \in DOMAIN read |-> SelectSeq(read[i], LAMBDA case : case \notin s.hidden)]
        merged == interleave(kept)
        affairs == IF Multi(s) THEN Slice(merged, page * s.limit, prefix) ELSE kept[1]
        total == maxTotal(s)
        filtered == kept # read
        more == IF Multi(s)
                THEN Len(merged) > prefix \/ \E i \in DOMAIN lists : Len(lists[i]) > prefix
                ELSE prefix < total
        past == IF Multi(s)
                THEN ~more /\ Len(merged) > 0 /\ Len(merged) <= page * s.limit
                ELSE page * s.limit >= total
        known == IF Multi(s) THEN Len(merged) ELSE total
    IN  CASE Multi(s) /\ prefix > CuriaCap -> ToolPage(<<>>, FALSE, "refused", 0)
          [] ~(Multi(s) /\ prefix > CuriaCap) /\ affairs # <<>> -> ToolPage(affairs, more, "hits", 0)
          [] ~(Multi(s) /\ prefix > CuriaCap) /\ affairs = <<>> ->
                CASE total = 0 -> ToolPage(<<>>, more, "nothing", 0)
                  [] total > 0 /\ past -> ToolPage(<<>>, more, "past the end", CeilDiv(known, s.limit) - 1)
                  [] total > 0 /\ ~past /\ filtered -> ToolPage(<<>>, more, "hidden", 0)
                  [] total > 0 /\ ~past /\ ~filtered -> ToolPage(<<>>, more, "unscored", 0)
-----------------------------------------------------------------------------
(* doctrine_search: a variant owns a share of every page and is walked in  *)
(* step; the catalogue has fixed pages and an end.                         *)
VariantShare(s, i) ==
    LET n == Len(s.lists)
    IN  (s.limit \div n) + (IF i - 1 < s.limit % n THEN 1 ELSE 0)

\* The catalogue pages, from 0, under a window, without those past its end.
pageWindow_floor(start, end) == (start \div PrimoPage)..((end \div PrimoPage) - 1)
pageWindow(start, end) == (start \div PrimoPage)..(CeilDiv(end, PrimoPage) - 1)
Reachable(s, i, page) ==
    IF VariantShare(s, i) = 0 THEN {}
    ELSE {p \in pageWindow((page - 1) * VariantShare(s, i), page * VariantShare(s, i)) : p * PrimoPage < PrimoCap}

Window(s, i, page) ==
    LET pages == Reachable(s, i, page)
        firstOffset == (((page - 1) * VariantShare(s, i)) \div PrimoPage) * PrimoPage
        fetched == Slice(s.lists[i], firstOffset, (Most(pages) + 1) * PrimoPage)
    IN  IF pages = {} THEN <<>>
        ELSE Slice(fetched, (page - 1) * VariantShare(s, i) - firstOffset, page * VariantShare(s, i) - firstOffset)

DoctrinePage(s, page) ==
    LET ok == {i \in DOMAIN s.lists : i \notin s.failed /\ Reachable(s, i, page) # {}}
        shown == interleave([i \in DOMAIN s.lists |-> IF i \in ok THEN Window(s, i, page) ELSE <<>>])
        more == /\ shown # <<>>
                /\ \E i \in ok : page * VariantShare(s, i) < Lower(Len(s.lists[i]), PrimoCap)
    IN  ToolPage(shown, more, IF shown = <<>> THEN "no records here" ELSE "hits", 0)

(* psp_search: the listing of one electoral period, or of both of an       *)
(* election year, read in pages until there are enough rows.               *)
\* As many rows as are needed, in whole listings; what the site cuts off is said.
searchPsp(list, needed) ==
    LET pages == Lower(PspPages, Most({1, CeilDiv(needed, PspRows)}))
    IN  Slice(list, 0, pages * PspRows)

pspSearchText(hits, offset, shown, truncated) ==
    CASE shown # <<>> -> IF truncated THEN "truncated" ELSE "hits"
      [] shown = <<>> /\ offset > 0 /\ hits # <<>> -> "past the end"
      [] shown = <<>> /\ (offset = 0 \/ hits = <<>>) -> "nothing"

PspPage_exactly(s, page) ==
    LET read == [i \in DOMAIN s.lists |-> searchPsp(s.lists[i], page * s.limit)]
        merged == interleave_concatenates(read)
        hits == SelectSeq(merged, LAMBDA tisk : tisk \notin s.hidden)
        shown == Slice(hits, (page - 1) * s.limit, page * s.limit)
    IN  ToolPage(shown, Len(hits) > page * s.limit, IF shown = <<>> THEN "nothing" ELSE "hits", 0)

PspPage(s, page) ==
    LET read == [i \in DOMAIN s.lists |-> searchPsp(s.lists[i], page * s.limit + 1)]
        merged == interleave_concatenates(read)
        hits == SelectSeq(merged, LAMBDA tisk : tisk \notin s.hidden)
        offset == (page - 1) * s.limit
        shown == Slice(hits, offset, offset + s.limit)
        truncated == \E i \in DOMAIN read : Len(read[i]) < Len(s.lists[i])
    IN  ToolPage(shown, Len(hits) > offset + s.limit, pspSearchText(hits, offset, shown, truncated),
             CeilDiv(Len(hits), s.limit))
-----------------------------------------------------------------------------
StartPage(s) == IF s.tool \in {"nalus", "ns", "curia"} THEN 0 ELSE 1
PageOf(s, page) ==
    CASE s.tool = "nalus" -> NalusPage(s, page)
      [] s.tool = "nss" -> NssPage(s, page)
      [] s.tool = "ns" -> NsPage(s, page)
      [] s.tool = "curia" -> CuriaPage(s, page)
      [] s.tool = "doctrine" -> DoctrinePage(s, page)
      [] s.tool = "psp" -> PspPage(s, page)

\* Enough pages to leave every list behind.
PagesOf(s) == [p \in StartPage(s)..(StartPage(s) + Most({Len(l) : l \in Items(s.lists)}) * Len(s.lists) + 1)
                  |-> PageOf(s, p)]
\* The pages a reader sees who follows what each says of the next.
Followed(pages, first) ==
    {p \in DOMAIN pages : \A q \in first..(p - 1) : pages[q].more}
Read(pages, first) ==
    LET walk == Followed(pages, first)
    IN  FoldLeft(LAMBDA out, p : out \o pages[p].hits, <<>>, [i \in 1..Cardinality(walk) |-> first + i - 1])

(* What the tool answers from, as one list: the merge of the whole lists,  *)
(* as far as the source or the tool lets a reader go.                      *)
Expected(s) ==
    LET lists == ListsOf(s)
        kept(list) == SelectSeq(list, LAMBDA item : item \notin s.hidden)
    IN  CASE s.tool \in {"nalus", "nss"} -> interleave(lists)
          [] s.tool = "ns" ->
                Slice(interleave([i \in DOMAIN lists |-> Slice(lists[i], 0, NsWindow)]),
                      0, CeilDiv(NsWindow, s.limit) * s.limit)
          [] s.tool = "curia" ->
                IF Multi(s) THEN Slice(interleave(lists), 0, (CuriaCap \div s.limit) * s.limit)
                ELSE kept(lists[1])
          [] s.tool = "psp" -> kept(interleave_concatenates(lists))

(* Whoever follows the pages of a search reads what it found: every hit of *)
(* every variant that answered, each once and in the order of the merge,   *)
(* although each page merges longer lists than the one before, and a hit   *)
(* of rank r of one of n variants among the first n * r; of the catalogue, *)
(* every record within reach of a variant with a share. Not sdeu_search    *)
(* with several variants and a filter: each page filters what it read      *)
(* before it merges (curia.ts:574), so a case may be the first of a later  *)
(* page's merge and lie before that page: shown by none, or by two.        *)
NothingFallsBetween(s, pages) ==
    LET first == StartPage(s)
    IN  IF s.tool = "doctrine"
        THEN \A i \in DOMAIN s.lists \ s.failed : VariantShare(s, i) > 0 =>
                /\ \A rank \in 1..Lower(Len(s.lists[i]), PrimoCap) :
                       s.lists[i][rank] \in Items(pages[CeilDiv(rank, VariantShare(s, i))].hits)
                /\ Items(Slice(s.lists[i], 0, PrimoCap)) \subseteq Items(Read(pages, first))
        ELSE LET lists == ListsOf(s)
                 read == Read(pages, first)
             IN  \/ Multi(s) /\ s.tool = "curia" /\ s.hidden # {}
                 \/ /\ read = Expected(s)
                    /\ s.tool \in {"nalus", "nss"} =>
                          \A i \in DOMAIN lists : \A rank \in DOMAIN lists[i] :
                             lists[i][rank] \in Items(Slice(read, 0, rank * Len(lists)))

(* "Nothing matched" is said where no page has a hit; the page named as    *)
(* the last is the last; nothing follows a page of hidden documents that   *)
(* says so; and a further page that is promised has hits, or says why not. *)
EmptyPagesAreHonest(s, pages) ==
    \A p \in DOMAIN pages :
        LET later == {q \in DOMAIN pages : q > p /\ pages[q].hits # <<>>}
        IN  /\ pages[p].says = "nothing" => \A q \in DOMAIN pages : pages[q].hits = <<>>
            /\ pages[p].says = "past the end" =>
                  /\ pages[p].last < p
                  /\ \A q \in DOMAIN pages : q > pages[p].last => pages[q].hits = <<>>
                  /\ \/ pages[pages[p].last].hits # <<>>
                     \/ pages[pages[p].last].says = "hidden"
            /\ ~pages[p].more /\ pages[p].says # "refused" /\ s.tool # "ns" => later = {}
            /\ (pages[p].more /\ s.tool \in {"nalus", "nss", "doctrine", "psp"} /\ p + 1 \in DOMAIN pages)
                  => pages[p + 1].hits # <<>>

PagesAreWhole(s) ==
    LET pages == PagesOf(s)
    IN  NothingFallsBetween(s, pages) /\ EmptyPagesAreHonest(s, pages)

(* The calls: one variant, two that share hits in any order, three short   *)
(* ones, or two long ones. What only one tool looks at stays fixed for the others.     *)
Rankings(n) == UNION {{f \in [1..k -> 1..n] : \A i, j \in 1..k : f[i] = f[j] => i = j} : k \in 0..n}
Ordered(n) == [i \in 1..n |-> i]
VariantLists ==
    {<<Ordered(n)>> : n \in 0..(PagedHits + 1)}
    \cup {<<Ordered(n), list>> : n \in 0..PagedHits, list \in Rankings(PagedHits)}
    \cup {<<Ordered(n), list, other>> : n \in 0..2, list \in Rankings(2), other \in Rankings(2)}
    \cup {<<Ordered(n), [i \in 1..7 |-> IF step THEN 8 - i ELSE i + 5]>> : n \in {2, 7}, step \in BOOLEAN}
PagingSamples ==
    {s \in [tool : {"nalus", "nss", "ns", "curia", "doctrine", "psp"}, lists : VariantLists,
            failed : {{}, {2}}, limit : PagedLimits, known : BOOLEAN, hidden : {{}, {1}}] :
        /\ s.failed \subseteq DOMAIN s.lists /\ (Len(s.lists) = 1 => s.failed = {})
        /\ s.known => s.tool = "nalus"
        /\ s.hidden # {} => s.tool \in {"curia", "psp"}
        /\ s.tool \in {"nalus", "nss"} => s.limit = 1
        \* Two periods of psp.cz have no tisk in common, and a search that another period
        \* answers fits one listing.
        /\ s.tool = "psp" => /\ s.failed = {} /\ Len(s.lists) <= 2
                             /\ Len(s.lists) = 2 => Items(s.lists[1]) \cap Items(s.lists[2]) = {}
                             /\ s.hidden # {} => \A i \in DOMAIN s.lists : Len(s.lists[i]) <= PspRows}
=============================================================================
