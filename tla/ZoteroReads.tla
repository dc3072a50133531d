----------------------------- MODULE ZoteroReads -----------------------------
(***************************************************************************)
(* How one instance reads a Zotero library (src/zotero/client.ts): loads   *)
(* shared while in flight by the calls of one key, the case scan kept and  *)
(* revalidated with If-Modified-Since-Version, and the search pages kept   *)
(* the same way, while the library changes and callers give up.            *)
(*                                                                         *)
(* A page is known by the library version it was read at; what a version   *)
(* holds is fixed at the start (`size`: its pages of case items).  A load  *)
(* is known by the call that started it.  Scans, listings and pages share  *)
(* no state, so a behaviour is of one kind.  The queries, the items and    *)
(* the fields taken from them are left out, as is a scan without a total.  *)
(***************************************************************************)
EXTENDS Naturals, FiniteSets

CONSTANTS
    Readers,       \* the calls, each made once
    NoLoad,
    MaxVersion,    \* bound: the versions the library goes through
    MaxScan        \* the most pages a scan is asked for, and a version has

ASSUME ReadsAssumption ==
    NoLoad \notin Readers /\ MaxVersion \in Nat \ {0} /\ MaxScan \in Nat \ {0}

VARIABLES
    library,   \* its version, and whether its full-text index is whole
    size,      \* version -> pages of case items
    kind,      \* what the calls read: "scan", "list" or "page"
    kept,      \* the scan, the listing and the search page in the caches
    entry,     \* the load found in flights / scanRuns
    load,      \* call -> the load it started
    reader     \* call -> where it stands and what it was answered

readsVars == <<library, size, kind, kept, entry, load, reader>>

Least(a, b) == IF a < b THEN a ELSE b
Versions == 1 .. MaxVersion

\* A scan: the version of its first page, the versions its pages were read at.
Scan(ver, seen, pages, complete) == [ver |-> ver, seen |-> seen, pages |-> pages, complete |-> complete]
NoScan == Scan(0, {}, 0, FALSE)
Page(ver, whole) == [ver |-> ver, whole |-> whole]
NoPage == Page(0, FALSE)

NotLoading == [st |-> "none", max |-> 1, kept |-> NoScan, ver |-> 0, seen |-> {}, left |-> 0, since |-> 0]
NotReading == [st |-> "idle", max |-> 1, of |-> NoLoad, asked |-> NoPage, confirmed |-> FALSE,
               scan |-> NoScan, since |-> 0, page |-> NoPage, now |-> 0]

ReadsTypeOK ==
    /\ library.ver \in Versions /\ library.whole \in BOOLEAN
    /\ kind \in {"scan", "list", "page"} /\ entry \in Readers \cup {NoLoad}
    /\ kept.scan.ver \in 0 .. MaxVersion /\ kept.page.ver \in 0 .. MaxVersion /\ kept.list \in BOOLEAN
    /\ \A c \in Readers : load[c].seen \subseteq Versions /\ reader[c].of \in Readers \cup {NoLoad}

ReadsInit ==
    /\ library = [ver |-> 1, whole |-> TRUE]
    /\ kind \in {"scan", "list", "page"}
    /\ size \in IF kind = "scan" THEN [Versions -> 1 .. MaxScan] ELSE [Versions -> {1}]
    /\ kept = [scan |-> NoScan, list |-> FALSE, page |-> NoPage]
    /\ entry = NoLoad
    /\ load = [c \in Readers |-> NotLoading]
    /\ reader = [c \in Readers |-> NotReading]

Running(c) == load[c].st \in {"first", "rest"}
Waiting(l) == {c \in Readers : reader[c].st = "waiting" /\ reader[c].of = l}
\* The entry of load l is cleared if it is still its own.
Cleared(l) == IF entry = l THEN NoLoad ELSE entry

-----------------------------------------------------------------------------
(* Variants with a plausible bug are named <definition>_<bug>; each breaks  *)
(* a property that the definition it stands before keeps.                  *)

Revalidates_anyKept(max) == kept.scan.ver # 0

\* A kept scan is worth revalidating if it covers as many pages as are asked.
Revalidates(max) == kept.scan.ver # 0 /\ (kept.scan.complete \/ kept.scan.pages >= max)

\* A call joins the load under way, if it covers what the call asks, or starts one.
Join(c, max) ==
    LET joins == entry # NoLoad /\ load[entry].max >= max IN
        /\ reader' = [reader EXCEPT ![c] = [NotReading EXCEPT !.st = "waiting", !.max = max,
                                                              !.of = IF joins THEN entry ELSE c]]
        /\ entry' = IF joins THEN entry ELSE c
        /\ load' = IF joins THEN load
                   ELSE [load EXCEPT ![c] = [NotLoading EXCEPT !.st = "first", !.max = max,
                             !.kept = IF kind = "scan" /\ Revalidates(max) THEN kept.scan ELSE NoScan,
                             !.since = library.ver]]

\* scanCases for a number of pages.
ScanCases(c, max) ==
    /\ kind = "scan" /\ reader[c].st = "idle"
    /\ Join(c, max)
    /\ UNCHANGED <<library, size, kind, kept>>

\* A cached listing (the groups, the collections, the saved searches): the cache, else a shared load.
CachedShared(c) ==
    /\ kind = "list" /\ reader[c].st = "idle"
    /\ IF kept.list THEN reader' = [reader EXCEPT ![c].st = "answered"] /\ UNCHANGED <<entry, load>>
       ELSE Join(c, 1)
    /\ UNCHANGED <<library, size, kind, kept>>

\* The load of l has ended in `scan`: it is kept, found no more, and every call
\* still waiting is answered.
Settles(l, scan, confirmed) ==
    /\ kept' = IF kind = "scan" THEN [kept EXCEPT !.scan = scan] ELSE [kept EXCEPT !.list = TRUE]
    /\ entry' = Cleared(l)
    /\ load' = [load EXCEPT ![l] = NotLoading]
    /\ reader' = [c \in Readers |->
           IF c \notin Waiting(l) THEN reader[c]
           ELSE [reader[c] EXCEPT !.st = "answered", !.of = NoLoad, !.confirmed = confirmed, !.now = library.ver,
                     !.since = load[l].since,
                     !.scan = IF kind = "list" THEN NoScan
                              ELSE [scan EXCEPT !.pages = Least(@, reader[c].max)]]]

ScanRead_lastVersion(l) ==
    Scan(library.ver, load[l].seen \cup {library.ver}, Least(load[l].max, size[load[l].ver]),
         Least(load[l].max, size[load[l].ver]) = size[load[l].ver])

\* The scan a run ends in carries the version of its FIRST page.
ScanRead(l) ==
    Scan(load[l].ver, load[l].seen \cup {library.ver}, Least(load[l].max, size[load[l].ver]),
         Least(load[l].max, size[load[l].ver]) = size[load[l].ver])

\* The first answer: an empty 304 confirms the kept scan, a page fixes how many
\* are read; the others go out together.  A listing is read the same way.
FirstAnswer(l) ==
    /\ load[l].st = "first"
    /\ IF kind = "list" THEN Settles(l, NoScan, FALSE)
       ELSE IF load[l].kept.ver = library.ver THEN Settles(l, load[l].kept, TRUE)
       ELSE IF Least(load[l].max, size[library.ver]) = 1
            THEN Settles(l, Scan(library.ver, {library.ver}, 1, size[library.ver] = 1), FALSE)
       ELSE /\ load' = [load EXCEPT ![l].st = "rest", ![l].ver = library.ver, ![l].seen = {library.ver},
                                    ![l].left = Least(load[l].max, size[library.ver]) - 1]
            /\ UNCHANGED <<kept, entry, reader>>
    /\ UNCHANGED <<library, size, kind>>

NextPage(l) ==
    /\ load[l].st = "rest"
    /\ IF load[l].left = 1 THEN Settles(l, ScanRead(l), FALSE)
       ELSE /\ load' = [load EXCEPT ![l].left = @ - 1, ![l].seen = @ \cup {library.ver}]
            /\ UNCHANGED <<kept, entry, reader>>
    /\ UNCHANGED <<library, size, kind>>

\* A request of the load fails: every joined call fails, and nothing is kept.
LoadFails(l) ==
    /\ Running(l)
    /\ entry' = Cleared(l)
    /\ load' = [load EXCEPT ![l] = NotLoading]
    /\ reader' = [c \in Readers |-> IF c \in Waiting(l) THEN [reader[c] EXCEPT !.st = "failed", !.of = NoLoad] ELSE reader[c]]
    /\ UNCHANGED <<library, size, kind, kept>>

Leave_abortsInPlace(c) ==
    LET l == reader[c].of  last == Waiting(l) = {c} IN
    /\ UNCHANGED entry
    /\ load' = IF last THEN [load EXCEPT ![l].st = "aborted"] ELSE load

\* The last call to give up detaches the load and aborts it.
Leave(c) ==
    LET l == reader[c].of  last == Waiting(l) = {c} IN
    /\ entry' = IF last THEN Cleared(l) ELSE entry
    /\ load' = IF last THEN [load EXCEPT ![l].st = "aborted"] ELSE load

\* A call's budget runs out while it waits.
GivesUp(c) ==
    /\ reader[c].st = "waiting" /\ reader[c].of # NoLoad
    /\ Leave(c)
    /\ reader' = [reader EXCEPT ![c] = [NotReading EXCEPT !.st = "cancelled"]]
    /\ UNCHANGED <<library, size, kind, kept>>

AbortedSettles_clearsAny(l) ==
    /\ load[l].st = "aborted"
    /\ entry' = NoLoad
    /\ load' = [load EXCEPT ![l] = NotLoading]
    /\ UNCHANGED <<library, size, kind, kept, reader>>

\* An aborted load ends later, when another one may be under way (done).
AbortedSettles(l) ==
    /\ load[l].st = "aborted"
    /\ entry' = Cleared(l)
    /\ load' = [load EXCEPT ![l] = NotLoading]
    /\ UNCHANGED <<library, size, kind, kept, reader>>

-----------------------------------------------------------------------------
(* searchItems: one page, sent with the version of the page kept of it.    *)

AskPage(c) ==
    /\ kind = "page" /\ reader[c].st = "idle"
    /\ reader' = [reader EXCEPT ![c] = [NotReading EXCEPT !.st = "waiting", !.asked = kept.page]]
    /\ UNCHANGED <<library, size, kind, kept, entry, load>>

KeepPage_whileReindexing(page) == page

\* A page of a full-text index being rebuilt is not kept: its version would go
\* on confirming a page that misses matches.
KeepPage(page) == IF page.whole THEN page ELSE NoPage

PageAnswer(c) ==
    /\ kind = "page" /\ reader[c].st = "waiting"
    /\ LET confirmed == reader[c].asked.ver = library.ver
           page == IF confirmed THEN reader[c].asked ELSE Page(library.ver, library.whole)
       IN  /\ kept' = [kept EXCEPT !.page = IF confirmed THEN page ELSE KeepPage(page)]
           /\ reader' = [reader EXCEPT ![c].st = "answered", ![c].asked = NoPage, ![c].confirmed = confirmed,
                                       ![c].page = page, ![c].now = library.ver]
    /\ UNCHANGED <<library, size, kind, entry, load>>

-----------------------------------------------------------------------------
(* zotero.org and time.                                                    *)

LibraryChanges ==
    /\ library.ver < MaxVersion
    /\ library' = [library EXCEPT !.ver = @ + 1]
    /\ UNCHANGED <<size, kind, kept, entry, load, reader>>

\* The full-text index is rebuilt, without a new version of the library.
IndexChanges ==
    /\ kind = "page"
    /\ library' = [library EXCEPT !.whole = ~@]
    /\ UNCHANGED <<size, kind, kept, entry, load, reader>>

\* What is kept is dropped: its time is over, or newer entries need the room.
Expires ==
    /\ kept' \in {[kept EXCEPT !.scan = NoScan], [kept EXCEPT !.list = FALSE], [kept EXCEPT !.page = NoPage]}
    /\ UNCHANGED <<library, size, kind, entry, load, reader>>

ReadsNext ==
    \/ \E c \in Readers : \/ \E max \in 1 .. MaxScan : ScanCases(c, max)
                          \/ CachedShared(c) \/ GivesUp(c) \/ AskPage(c) \/ PageAnswer(c)
                          \/ FirstAnswer(c) \/ NextPage(c) \/ LoadFails(c) \/ AbortedSettles(c)
    \/ LibraryChanges \/ IndexChanges \/ Expires

ReadsSpec == ReadsInit /\ [][ReadsNext]_readsVars

-----------------------------------------------------------------------------
(* Properties.                                                             *)

\* An answer confirmed by a 304 is what the library would answer now, read at
\* one version throughout and with every text match; one that was read covers
\* the pages asked for, none of them read before its load began.
AnswersAreCurrent ==
    \A c \in Readers : reader[c].st = "answered" =>
        LET r == reader[c] IN
        CASE kind = "scan" -> /\ r.scan.pages = Least(r.max, size[r.scan.ver])
                                /\ IF r.confirmed THEN r.scan.seen = {r.now} /\ r.scan.ver = r.now
                                   ELSE \A v \in r.scan.seen : v \in r.since .. r.now
          [] kind = "page" -> r.page.ver = r.now /\ (r.confirmed => r.page.whole)
          [] kind = "list" -> TRUE

\* A load runs exactly as long as a call waits for it: no call's budget cuts
\* off another, no call joins a load that is aborted, and nothing runs on once
\* nobody waits (shared, join).  A listing is never loaded twice at the same
\* time, even when a load that was given up ends late.
LoadsAreWatched ==
    /\ \A l \in Readers : Running(l) => Waiting(l) # {}
    /\ \A c \in Readers : reader[c].st = "waiting" /\ kind # "page" => Running(reader[c].of)
    /\ kind = "list" => Cardinality({l \in Readers : Running(l)}) <= 1

=============================================================================
