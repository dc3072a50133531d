------------------------------ MODULE EsbirkaActs ------------------------------
(***************************************************************************)
(* The two channels of e-Sbírka, and a whole act read page by page         *)
(* (src/sources/esbirka.ts, src/mcp/tools/esbirka.ts).                     *)
(*                                                                         *)
(* esbirkaFetch asks the registered API with its key, unless that failed   *)
(* as a channel in the last KEYED_BREAKER_MS, and then the keyless         *)
(* gateway.  getActText cuts the fragment pages of an act into pages a     *)
(* client accepts; esbirka_get_text names the next one.                    *)
(***************************************************************************)
EXTENDS Integers, Sequences, FiniteSets, SequencesExt, FiniteSetsExt

CONSTANTS
    Fetches,      \* requests to e-Sbírka
    DownTime,     \* KEYED_BREAKER_MS, in ticks
    MaxChanges,   \* bound: times a host goes down or comes back
    PageChars     \* DOC_PAGE_CHARS

ASSUME ActsAssumption ==
    /\ DownTime \in Nat \ {0} /\ MaxChanges \in Nat /\ PageChars \in Nat \ {0}

VARIABLES
    fetching,     \* request -> what it asks, where it is, what it got
    keyedDown,    \* ticks until keyedDownUntil
    up,           \* host -> it works
    changes,      \* bound
    blamed,       \* history: the keyed channel failed otherwise than by an answer about the request,
                  \* since it was last open
    actReader     \* an act being read page after page

actsVars == <<fetching, keyedDown, up, changes, blamed, actReader>>

Channels == {"keyed", "gateway"}

-----------------------------------------------------------------------------
(* esbirkaFetch.  What a request asks is there, missing (404), rejected    *)
(* (another 4xx, "chyby"), breaks the service (HTTP 500) or is over the    *)
(* size fetchUpstream accepts; a search (POST) is never missing.           *)

Asked == {[post |-> FALSE, fate |-> f] : f \in {"there", "missing", "rejected", "breaks", "oversized"}}
         \cup {[post |-> TRUE, fate |-> f] : f \in {"there", "rejected", "breaks", "oversized"}}

IdleFetch == [asked |-> [post |-> FALSE, fate |-> "there"], at |-> "idle", got |-> "nothing", tried |-> {}]

\* What a host may fail one request with although it works: no answer or no
\* whole body in time, HTTP 5xx or 429.  One that is down may also refuse the
\* key, redirect or answer with a page.
Hiccups == {"unreachable", "outage"}
Outages == Hiccups \cup {"refused", "not JSON"}

HostAnswers(host, asked) == IF up[host] THEN {asked.fate} \cup Hiccups ELSE Outages

\* What closes the key's channel: UPSTREAM_ERROR only when a GET meets it.
channelFailed_everyOutage(asked, got) == got \in Outages \cup {"breaks", "oversized"}
channelFailed(asked, got) ==
    got \in {"refused", "unreachable", "not JSON"} \/ (got \in {"outage", "breaks", "oversized"} /\ ~asked.post)

\* An answer about the request alone: its result, its 404, its rejection, and
\* whatever a search does to the service.
AboutTheRequest(asked, got) ==
    got \in {"there", "missing", "rejected"} \/ (asked.post /\ got \in {"outage", "breaks", "oversized"})

FetchStarts(r) ==
    /\ fetching[r].at = "idle"
    /\ \E asked \in Asked :
          fetching' = [fetching EXCEPT ![r] = [asked |-> asked, got |-> "nothing", tried |-> {},
                                             at |-> IF keyedDown = 0 THEN "keyed" ELSE "gateway"]]
    /\ UNCHANGED <<keyedDown, up, changes, blamed, actReader>>

\* An answer that ends the request whichever channel gave it.
Terminal_evenAnOutage(got) == got \in {"there", "missing", "outage"}
Terminal(got) == got \in {"there", "missing"}

KeyedAnswers(r) ==
    /\ fetching[r].at = "keyed"
    /\ \E got \in HostAnswers("keyed", fetching[r].asked) :
          /\ fetching' = [fetching EXCEPT ![r].at = IF Terminal(got) THEN "done" ELSE "gateway",
                                          ![r].got = got, ![r].tried = {"keyed"}]
          /\ keyedDown' = IF channelFailed(fetching[r].asked, got) THEN DownTime ELSE keyedDown
          /\ blamed' = (blamed \/ ~AboutTheRequest(fetching[r].asked, got))
    /\ UNCHANGED <<up, changes, actReader>>

GatewayAnswers(r) ==
    /\ fetching[r].at = "gateway"
    /\ \E got \in HostAnswers("gateway", fetching[r].asked) :
          fetching' = [fetching EXCEPT ![r].at = "done", ![r].got = got, ![r].tried = @ \cup {"gateway"}]
    /\ UNCHANGED <<keyedDown, up, changes, blamed, actReader>>

FetchSettles(r) ==
    /\ fetching[r].at = "done"
    /\ fetching' = [fetching EXCEPT ![r] = IdleFetch]
    /\ UNCHANGED <<keyedDown, up, changes, blamed, actReader>>

HostChanges(host) ==
    /\ changes < MaxChanges
    /\ up' = [up EXCEPT ![host] = ~@] /\ changes' = changes + 1
    /\ UNCHANGED <<fetching, keyedDown, blamed, actReader>>

KeyedTicks ==
    /\ keyedDown > 0 /\ keyedDown' = keyedDown - 1
    /\ blamed' = (blamed /\ keyedDown > 1)
    /\ UNCHANGED <<fetching, up, changes, actReader>>

-----------------------------------------------------------------------------
(* searchActs: rows `offset` .. `offset + limit - 1` of a ranking the API  *)
(* serves in pages of `limit` rows.                                        *)
upstreamRows(ranking, index, limit) ==
    SubSeq(ranking, index * limit + 1, Min({Len(ranking), (index + 1) * limit}))

searchActs_onePage(ranking, offset, limit) ==
    LET rows == upstreamRows(ranking, offset \div limit, limit)
    IN  SubSeq(rows, (offset % limit) + 1, Min({Len(rows), (offset % limit) + limit}))

searchActs(ranking, offset, limit) ==
    LET first == offset \div limit
        skip == offset % limit
        rows == upstreamRows(ranking, first, limit) \o upstreamRows(ranking, first + 1, limit)
    IN  IF skip = 0 THEN upstreamRows(ranking, first, limit)
        ELSE SubSeq(rows, skip + 1, Min({Len(rows), skip + limit}))

-----------------------------------------------------------------------------
(* chunkFragments: the pieces of a fragment page, given by their lengths,  *)
(* cut into chunks of at most PageChars; a chunk is a sequence of          *)
(* <<piece, part>>, and only a piece longer than a chunk has more parts.   *)
Emptied == [chunks |-> <<>>, current |-> <<>>, length |-> 0]

Flush(c) == [Emptied EXCEPT !.chunks = IF c.current = <<>> THEN c.chunks ELSE Append(c.chunks, c.current)]

partsOf(length) == (length + PageChars - 1) \div PageChars

AddPiece_unflushed(c, p, length) ==
    IF length > PageChars
    THEN [c EXCEPT !.chunks = @ \o [k \in 1 .. partsOf(length) |-> <<<<p, k>>>>]]
    ELSE LET d == IF c.current # <<>> /\ c.length + 1 + length > PageChars THEN Flush(c) ELSE c
         IN  [d EXCEPT !.current = Append(@, <<p, 1>>), !.length = IF d.current = <<>> THEN length ELSE @ + 1 + length]

AddPiece(c, p, length) ==
    IF length > PageChars
    THEN [Flush(c) EXCEPT !.chunks = @ \o [k \in 1 .. partsOf(length) |-> <<<<p, k>>>>]]
    ELSE LET d == IF c.current # <<>> /\ c.length + 1 + length > PageChars THEN Flush(c) ELSE c
         IN  [d EXCEPT !.current = Append(@, <<p, 1>>), !.length = IF d.current = <<>> THEN length ELSE @ + 1 + length]

chunkFragments(pieces) ==
    LET cut == Flush(FoldLeft(LAMBDA c, p : AddPiece(c, p, pieces[p]), Emptied, [p \in DOMAIN pieces |-> p]))
    IN  IF cut.chunks = <<>> THEN <<<<>>>> ELSE cut.chunks

\* getActText: page `page` of an act cut into `cut` (one list of chunks per
\* fragment page), its number, and what it says of the rest.
before(cut, u) == FoldLeft(LAMBDA n, chunks : n + Len(chunks), 0, SubSeq(cut, 1, u - 1))

upstreamOf(cut, page) ==
    Min({u \in DOMAIN cut : page <= before(cut, u) + Len(cut[u])} \cup {Len(cut)})

getActText_perUpstream(cut, page) ==
    LET u == upstreamOf(cut, page)
        index == Min({page - before(cut, u), Len(cut[u])})
    IN  [text |-> [k \in DOMAIN cut[u][index] |-> <<u, cut[u][index][k]>>], page |-> before(cut, u) + index,
         total |-> before(cut, u) + Len(cut[u]), exact |-> u = Len(cut),
         more |-> index < Len(cut[u])]

getActText(cut, page) ==
    LET u == upstreamOf(cut, page)
        index == Min({page - before(cut, u), Len(cut[u])})
        known == before(cut, u) + Len(cut[u])
    IN  [text |-> [k \in DOMAIN cut[u][index] |-> <<u, cut[u][index][k]>>], page |-> before(cut, u) + index,
         total |-> IF u = Len(cut) THEN known ELSE Max({known + 1, (2 * known * Len(cut) + u) \div (2 * u)}),
         exact |-> u = Len(cut),
         more |-> index < Len(cut[u]) \/ u # Len(cut)]

-----------------------------------------------------------------------------
(* esbirka_get_text: the whole act, each answer naming the next one.  The  *)
(* version is settled first: the one in force on the date, or today; a     *)
(* detail that does not answer leaves the plain staleUrl, with the date.   *)
NoActReader == [cut |-> <<>>, lengths |-> <<>>, date |-> "none", page |-> 0, seen |-> <<>>, versions |-> {},
             last |-> [page |-> 0, total |-> 0, exact |-> FALSE], st |-> "idle"]

\* What the service serves for a staleUrl: without a date, the version in force today.
versionServed(date) == IF date = "none" THEN "today's" ELSE date

staleUrlOf_undatedDetail(date, described) == IF described THEN versionServed(date) ELSE versionServed("none")
staleUrlOf(date, described) == versionServed(date)

ReaderReads ==
    /\ actReader.st = "reading"
    /\ \E described \in BOOLEAN :
          LET shown == getActText(actReader.cut, actReader.page)
          IN  actReader' = [actReader EXCEPT !.seen = Append(@, shown.text),
                                       !.versions = @ \cup {staleUrlOf(actReader.date, described)},
                                       !.last = [page |-> shown.page, total |-> shown.total, exact |-> shown.exact],
                                       !.page = shown.page + 1,
                                       !.st = IF shown.more THEN "reading" ELSE "read"]
    /\ UNCHANGED <<fetching, keyedDown, up, changes, blamed>>

\* A page past the end is the last one.
ReaderAsksPast ==
    /\ actReader.st = "read"
    /\ actReader' = [actReader EXCEPT !.st = "past", !.seen = Append(@, getActText(actReader.cut, actReader.page + 1).text)]
    /\ UNCHANGED <<fetching, keyedDown, up, changes, blamed>>

ReadAct(pages, date) ==
    [NoActReader EXCEPT !.lengths = pages, !.cut = [u \in DOMAIN pages |-> chunkFragments(pages[u])],
                     !.date = date, !.page = 1, !.st = "reading"]

\* Fragment pages without text, of short pieces, of pieces that fill a page or do not fit one.
PieceLists == {<<>>, <<1>>, <<2, 1, 3>>, <<4>>, <<1, 6>>, <<9, 1>>, <<3, 3, 3>>}

FetchRests ==
    /\ fetching = [r \in Fetches |-> IdleFetch] /\ keyedDown = 0
    /\ up = [host \in Channels |-> TRUE] /\ changes = 0 /\ blamed = FALSE

ActsInit ==
    /\ FetchRests
    /\ actReader \in {NoActReader} \cup
                   {ReadAct(pages, date) : pages \in UNION {[1 .. n -> PieceLists] : n \in 1 .. 3}, date \in {"none", "past"}}

ActsNext ==
    \/ /\ actReader.st = "idle"
       /\ \/ \E r \in Fetches : FetchStarts(r) \/ KeyedAnswers(r) \/ GatewayAnswers(r) \/ FetchSettles(r)
          \/ \E host \in Channels : HostChanges(host)
          \/ KeyedTicks
    \/ ReaderReads \/ ReaderAsksPast

ActsSpec == ActsInit /\ [][ActsNext]_actsVars

-----------------------------------------------------------------------------
(* Properties.                                                             *)

\* The key's channel is closed only after it failed otherwise than by an answer
\* about a request: a 404, a rejection or a search that breaks the service closes
\* it for nobody (a GET that times out, breaks the service or is too large does,
\* for everybody).  Whatever the channels do, a document is never called missing,
\* or a request rejected, unless it is, and a failure is told only once the
\* gateway was tried too.
OneRequestsFateIsItsOwn ==
    /\ keyedDown > 0 => blamed
    /\ \A r \in Fetches : fetching[r].at = "done" =>
          /\ fetching[r].got \notin Outages => fetching[r].got = fetching[r].asked.fate
          /\ fetching[r].got \notin {"there", "missing"} => "gateway" \in fetching[r].tried

\* Page after page the whole act is read, each piece of it once and in order,
\* all of the same version; the last page is named as such, with its number,
\* and a page past the end is the last one again.
ActIsWhole ==
    actReader.st \in {"read", "past"} =>
        LET shown == IF actReader.st = "past" THEN Front(actReader.seen) ELSE actReader.seen
            whole == FlattenSeq([u \in DOMAIN actReader.lengths |-> FlattenSeq([p \in DOMAIN actReader.lengths[u] |->
                        [k \in 1 .. partsOf(actReader.lengths[u][p]) |-> <<u, <<p, k>>>>]])])
        IN  /\ FlattenSeq(shown) = whole
            /\ actReader.last = [page |-> Len(shown), total |-> Len(shown), exact |-> TRUE]
            /\ Cardinality(actReader.versions) = 1
            /\ actReader.st = "past" => Last(actReader.seen) = Last(shown)
            /\ \A i \in DOMAIN shown :
                  LET size(at) == Min({PageChars, actReader.lengths[at[1]][at[2][1]]})
                  IN  FoldLeft(LAMBDA n, at : n + 1 + size(at), -1, shown[i]) <= PageChars

\* A window of the ranking is that window, whatever the pages the API serves.
RowsAreTheWindow ==
    actReader.st = "idle" /\ (\A r \in Fetches : fetching[r] = IdleFetch) /\ changes = 0 =>
        \A n \in 0 .. 7, limit \in 1 .. 3, offset \in 0 .. 8 :
            LET ranking == [i \in 1 .. n |-> i]
            IN  searchActs(ranking, offset, limit) = SubSeq(ranking, offset + 1, Min({n, offset + limit}))

=============================================================================
