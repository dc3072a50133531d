--------------------------- MODULE ServicesProofs ---------------------------
(***************************************************************************)
(* What MCServices promises of the parts below holds for any number of     *)
(* calls, any bound and every step of the part: what calls that share a    *)
(* load are answered (SharedReadsAreSound), one item for one reference     *)
(* (OneItemHonestly), what the operator decides (OperatorIsObeyed), what   *)
(* searches share of a slow source (SourcesAreShared), which window of a   *)
(* PDF's text a call gets (PdfTextIsReached), what "nothing found" may     *)
(* mean of a scan of libraries and of a text of the EU (SearchIsHonest),   *)
(* what the next page of such a text costs (of PagingIsWhole, the part of  *)
(* the EU) and how the answers of several courts are merged                *)
(* (FanOutIsHonest).  Each part has an inductive invariant of its own;     *)
(* then a behaviour follows one part and leaves the others as they are.    *)
(* The last section takes what LifecycleProofs proves of a library's end   *)
(* over to MCServices.                                                     *)
(***************************************************************************)
EXTENDS MCServices, DataTheorems, TLAPS

-----------------------------------------------------------------------------
(* Shared reads of a Zotero library (ZoteroReads).                         *)

Scans == [ver : Nat, seen : SUBSET Nat, pages : Nat, complete : BOOLEAN]
PagesRead == [ver : Nat, whole : BOOLEAN]
InCaches == [scan : Scans, list : BOOLEAN, page : PagesRead]
LoadRows == [st : {"none", "first", "rest", "aborted"}, max : Nat, kept : Scans, ver : Nat, seen : SUBSET Nat,
             left : Int, since : Nat]
ReadRows == [st : {"idle", "waiting", "answered", "failed", "cancelled"}, max : Nat, of : Readers \cup {NoLoad},
             asked : PagesRead, confirmed : BOOLEAN, scan : Scans, since : Nat, page : PagesRead, now : Nat]

\* Pages read from the version of the first on: as many as the version has, if complete.
ScanOK(s, sizes, now) ==
    /\ s \in Scans
    /\ s.ver # 0 =>
          /\ s.ver \in Versions /\ s.ver \in s.seen /\ s.seen \subseteq s.ver .. now
          /\ s.pages <= sizes[s.ver] /\ (s.complete => s.pages = sizes[s.ver])
Covers(s, max) == s.complete \/ s.pages >= max

LoadOK(row, sizes, now) ==
    /\ row \in LoadRows /\ row.since <= now /\ row.max >= 1
    /\ row.st = "first" => ScanOK(row.kept, sizes, now) /\ (row.kept.ver # 0 => Covers(row.kept, row.max))
    /\ row.st = "rest" =>
          row.ver \in Versions /\ row.since <= row.ver /\ row.ver \in row.seen /\ row.seen \subseteq row.ver .. now

Current(r, what, sizes) ==
    /\ what = "scan" =>
          /\ r.scan.pages = Least(r.max, sizes[r.scan.ver])
          /\ IF r.confirmed THEN r.scan.seen = {r.now} /\ r.scan.ver = r.now
             ELSE \A v \in r.scan.seen : v \in r.since .. r.now
    /\ what = "page" => r.page.ver = r.now /\ (r.confirmed => r.page.whole)

ReaderOK(row, what, sizes) ==
    /\ row \in ReadRows
    /\ row.asked.ver # 0 => row.asked.whole
    /\ row.st = "answered" => Current(row, what, sizes)

Live(row) == row.st \in {"first", "rest"}

\* A load found under way runs, a call waits for a load that runs and covers it.
ReadsInv ==
    /\ library \in [ver : Versions, whole : BOOLEAN] /\ size \in [Versions -> Nat \ {0}]
    /\ kind \in {"scan", "list", "page"}
    /\ kept \in InCaches /\ ScanOK(kept.scan, size, library.ver) /\ (kept.page.ver # 0 => kept.page.whole)
    /\ DOMAIN load = Readers /\ \A l \in Readers : LoadOK(load[l], size, library.ver)
    /\ DOMAIN reader = Readers /\ \A c \in Readers : ReaderOK(reader[c], kind, size)
    /\ entry # NoLoad => entry \in Readers /\ Live(load[entry])
    /\ \A l \in Readers : Live(load[l]) => \E c \in Readers : reader[c].st = "waiting" /\ reader[c].of = l
    /\ \A c \in Readers : reader[c].st = "idle" => load[c].st = "none"
    /\ \A c \in Readers : reader[c].st = "waiting" /\ kind # "page" =>
          reader[c].of \in Readers /\ Live(load[reader[c].of]) /\ reader[c].max <= load[reader[c].of].max
    /\ kind = "page" => \A c \in Readers : load[c].st = "none" /\ (reader[c].st = "waiting" => reader[c].of = NoLoad)
    /\ kind = "list" => \A l \in Readers : Live(load[l]) => l = entry

LEMMA ReadsTypes ==
    /\ NoScan \in Scans /\ NoScan.ver = 0 /\ NoPage \in PagesRead /\ NoPage.ver = 0
    /\ NotLoading \in LoadRows /\ NotLoading.st = "none" /\ NotLoading.since = 0 /\ NotLoading.max = 1
    /\ NotReading \in ReadRows /\ NotReading.st = "idle" /\ NotReading.asked = NoPage
BY DEF NoScan, Scan, Scans, NoPage, Page, PagesRead, NotLoading, LoadRows, NotReading, ReadRows

LEMMA NotLoadingOK == ASSUME NEW sizes, NEW now \in Nat PROVE LoadOK(NotLoading, sizes, now)
BY ReadsTypes DEF LoadOK

LEMMA ReadsStarts == ASSUME ReadsInit PROVE ReadsInv
<1> USE ReadsAssumption
<1>1. library = [ver |-> 1, whole |-> TRUE] /\ library.ver \in Nat /\ size \in [Versions -> Nat \ {0}]
  BY DEF ReadsInit, Versions
<1>2. kept \in InCaches /\ kept.scan = NoScan /\ kept.page = NoPage
  BY ReadsTypes DEF ReadsInit, InCaches
<1>3. \A c \in Readers : load[c] = NotLoading /\ reader[c] = NotReading
  BY DEF ReadsInit
<1>4. \A c \in Readers : LoadOK(load[c], size, library.ver)
  BY <1>1, <1>3, NotLoadingOK
<1>5. \A c \in Readers : ReaderOK(reader[c], kind, size)
  BY <1>3, ReadsTypes DEF ReaderOK
<1>6. ScanOK(kept.scan, size, library.ver) /\ kept.page.ver = 0
  BY <1>2, ReadsTypes DEF ScanOK
<1>7. library \in [ver : Versions, whole : BOOLEAN] /\ DOMAIN load = Readers /\ DOMAIN reader = Readers
      /\ kind \in {"scan", "list", "page"} /\ entry = NoLoad
  BY DEF ReadsInit, Versions
<1>8. \A c \in Readers : ~Live(load[c]) /\ load[c].st = "none" /\ reader[c].st = "idle"
  BY <1>3, ReadsTypes DEF Live
<1> QED
  BY <1>1, <1>2, <1>4, <1>5, <1>6, <1>7, <1>8 DEF ReadsInv

LEMMA ReadsHold == ASSUME ReadsInv PROVE AnswersAreCurrent /\ LoadsAreWatched
<1>1. AnswersAreCurrent
  BY DEF ReadsInv, ReaderOK, Current, AnswersAreCurrent
<1>2. kind = "list" => Cardinality({l \in Readers : Running(l)}) <= 1
  <2> SUFFICES ASSUME kind = "list" PROVE Cardinality({l \in Readers : Running(l)}) <= 1
    OBVIOUS
  <2>1. {l \in Readers : Running(l)} \subseteq {entry}
    BY DEF ReadsInv, Running, Live
  <2>2. IsFiniteSet({entry}) /\ Cardinality({entry}) = 1
    BY FS_Singleton
  <2> QED
    BY <2>1, <2>2, FS_Subset, FS_CardinalityType
<1>3. (\A l \in Readers : Running(l) => Waiting(l) # {})
      /\ (\A c \in Readers : reader[c].st = "waiting" /\ kind # "page" => Running(reader[c].of))
  BY DEF ReadsInv, Waiting, Running, Live
<1> QED
  BY <1>1, <1>2, <1>3 DEF LoadsAreWatched

LEMMA CoverGives ==
    ASSUME NEW sizes \in [Versions -> Nat \ {0}], NEW now \in Nat, NEW s, ScanOK(s, sizes, now), s.ver # 0,
           NEW most \in Nat, NEW asks \in Nat, Covers(s, most), asks <= most
    PROVE  Least(s.pages, asks) = Least(asks, sizes[s.ver])
BY DEF ScanOK, Scans, Covers, Least

LEMMA StillOK ==
    ASSUME NEW sizes, NEW now \in Nat, NEW later \in Nat, now <= later
    PROVE  /\ \A s : ScanOK(s, sizes, now) => ScanOK(s, sizes, later)
           /\ \A row : LoadOK(row, sizes, now) => LoadOK(row, sizes, later)
<1>1. ASSUME NEW s, ScanOK(s, sizes, now) PROVE ScanOK(s, sizes, later)
  BY <1>1 DEF ScanOK, Scans, Versions
<1>2. ASSUME NEW row, LoadOK(row, sizes, now) PROVE LoadOK(row, sizes, later)
  BY <1>1, <1>2 DEF LoadOK, LoadRows, Versions
<1> QED
  BY <1>1, <1>2

LEMMA LibraryTypes == ASSUME ReadsInv PROVE library.ver \in Versions /\ library.ver \in Nat /\ library.ver >= 1
BY ReadsAssumption DEF ReadsInv, Versions

LEMMA JoinTypes ==
    ASSUME NEW max \in Nat \ {0}, NEW of \in Readers \cup {NoLoad}
    PROVE  LET row == [NotReading EXCEPT !.st = "waiting", !.max = max, !.of = of]
           IN  row \in ReadRows /\ row.st = "waiting" /\ row.max = max /\ row.of = of /\ row.asked = NoPage
BY ReadsTypes DEF NotReading, ReadRows

LEMMA JoinSteps ==
    ASSUME ReadsInv, NEW c \in Readers, NEW max \in Nat \ {0}, reader[c].st = "idle", kind # "page",
           kind = "list" => max = 1, Join(c, max), UNCHANGED <<library, size, kind, kept>>
    PROVE  ReadsInv'
<1> DEFINE joins == entry # NoLoad /\ load[entry].max >= max
           whose == IF joins THEN entry ELSE c
           row == [NotReading EXCEPT !.st = "waiting", !.max = max, !.of = whose]
<1>1. reader' = [reader EXCEPT ![c] = row] /\ entry' = whose
  BY DEF Join
<1>2. /\ kind \in {"scan", "list"} /\ whose \in Readers /\ load[c].st = "none" /\ ~Live(load[c])
      /\ \A l \in Readers : LoadOK(load[l], size, library.ver) /\ load[l].max \in Nat /\ load[l].max >= 1
  BY DEF ReadsInv, Live, LoadOK, LoadRows
<1> HIDE DEF whose
<1>3. row \in ReadRows /\ row.st = "waiting" /\ row.max = max /\ row.of = whose /\ row.asked = NoPage
  BY <1>2, JoinTypes
<1>4. ReaderOK(row, kind, size)
  BY <1>3, ReadsTypes DEF ReaderOK
<1> HIDE DEF row
<1>5. /\ DOMAIN reader' = Readers /\ reader'[c] = row
      /\ \A d \in Readers \ {c} : reader'[d] = reader[d]
  BY <1>1 DEF ReadsInv
<1>6. \A d \in Readers : ReaderOK(reader'[d], kind, size)
  BY <1>4, <1>5 DEF ReadsInv
<1>7. CASE joins
  <2>1. load' = load /\ whose = entry /\ Live(load[entry]) /\ max <= load[entry].max
    BY <1>2, <1>7 DEF Join, ReadsInv, whose
  <2>2. \A l \in Readers : Live(load'[l]) <=> Live(load[l])
    BY <2>1 DEF Live
  <2>3. \A l \in Readers : Live(load'[l]) => \E d \in Readers : reader'[d].st = "waiting" /\ reader'[d].of = l
    BY <1>5, <2>2 DEF ReadsInv
  <2>4. \A d \in Readers : reader'[d].st = "waiting" =>
            reader'[d].of \in Readers /\ Live(load'[reader'[d].of]) /\ reader'[d].max <= load'[reader'[d].of].max
    BY <1>2, <1>3, <1>5, <2>1, <2>2 DEF ReadsInv
  <2> HIDE DEF joins
  <2> QED
    BY <1>1, <1>2, <1>3, <1>5, <1>6, <2>1, <2>2, <2>3, <2>4 DEF ReadsInv
<1>8. CASE ~joins
  <2> DEFINE from == IF kind = "scan" /\ Revalidates(max) THEN kept.scan ELSE NoScan
             begun == [NotLoading EXCEPT !.st = "first", !.max = max, !.kept = from, !.since = library.ver]
  <2>1. load' = [load EXCEPT ![c] = begun] /\ whose = c
    BY <1>8 DEF Join, whose
  <2>2. from \in Scans /\ ScanOK(from, size, library.ver) /\ (from.ver # 0 => Covers(from, max))
    BY ReadsTypes DEF ReadsInv, ScanOK, Revalidates, Covers
  <2>3. begun \in LoadRows /\ begun.st = "first" /\ begun.max = max /\ begun.kept = from /\ begun.since = library.ver
    <3> HIDE DEF from
    <3>1. from \in Scans /\ library.ver \in Nat
      BY <2>2, LibraryTypes
    <3>2. begun = [NotLoading EXCEPT !.st = "first", !.max = max, !.kept = from, !.since = library.ver]
      OBVIOUS
    <3> HIDE DEF begun
    <3> QED
      BY <3>1, <3>2, ReadsTypes DEF NotLoading, LoadRows
  <2> HIDE DEF begun, from
  <2>4. LoadOK(begun, size, library.ver)
    BY <2>2, <2>3, LibraryTypes DEF LoadOK
  <2>5. /\ DOMAIN load' = Readers /\ load'[c] = begun
        /\ \A l \in Readers \ {c} : load'[l] = load[l]
    BY <2>1 DEF ReadsInv
  <2>6. Live(load'[c]) /\ \A l \in Readers \ {c} : Live(load'[l]) <=> Live(load[l])
    BY <2>3, <2>5 DEF Live
  <2>7. \A l \in Readers : Live(load'[l]) => \E d \in Readers : reader'[d].st = "waiting" /\ reader'[d].of = l
    <3>1. ASSUME NEW l \in Readers \ {c}, Live(load[l]) PROVE \E d \in Readers \ {c} : reader[d].st = "waiting" /\ reader[d].of = l
      BY <3>1 DEF ReadsInv
    <3> QED
      BY <1>3, <1>5, <2>1, <2>6, <3>1
  <2>8. \A d \in Readers : reader'[d].st = "waiting" =>
            reader'[d].of \in Readers /\ Live(load'[reader'[d].of]) /\ reader'[d].max <= load'[reader'[d].of].max
    <3>1. ASSUME NEW d \in Readers \ {c}, reader[d].st = "waiting"
          PROVE  reader[d].of \in Readers \ {c} /\ Live(load[reader[d].of]) /\ reader[d].max <= load[reader[d].of].max
      BY <1>2, <3>1 DEF ReadsInv
    <3> QED
      BY <1>3, <1>5, <2>1, <2>3, <2>5, <2>6, <3>1
  <2>9. kind = "list" => \A l \in Readers : Live(load'[l]) => l = c
    <3>1. kind = "list" => entry = NoLoad
      BY <1>2, <1>8 DEF ReadsInv
    <3>2. kind = "list" => \A l \in Readers : ~Live(load[l])
      BY <3>1, ReadsAssumption DEF ReadsInv
    <3> QED
      BY <2>6, <3>2
  <2>10. \A l \in Readers : LoadOK(load'[l], size, library.ver)
    BY <1>2, <2>4, <2>5
  <2> HIDE DEF joins
  <2> QED
    BY <1>1, <1>2, <1>3, <1>5, <1>6, <2>1, <2>5, <2>6, <2>7, <2>8, <2>9, <2>10 DEF ReadsInv
<1> QED
  BY <1>7, <1>8

\* A load ends, whoever waited for it no longer does; no other call notices.
LEMMA LoadEnds ==
    ASSUME ReadsInv, NEW l \in Readers, kind # "page", load' = [load EXCEPT ![l] = NotLoading], entry' = Cleared(l),
           UNCHANGED <<library, size, kind>>, DOMAIN reader' = Readers,
           \A c \in Waiting(l) : ReaderOK(reader'[c], kind, size) /\ reader'[c].st \notin {"waiting", "idle"},
           \A c \in Readers \ Waiting(l) : reader'[c] = reader[c],
           kept' \in InCaches, ScanOK(kept'.scan, size, library.ver), kept'.page = kept.page
    PROVE  ReadsInv'
<1>1. /\ DOMAIN load' = Readers /\ load'[l] = NotLoading
      /\ \A k \in Readers \ {l} : load'[k] = load[k]
  BY DEF ReadsInv
<1>2. \A k \in Readers : LoadOK(load'[k], size, library.ver)
  BY <1>1, NotLoadingOK, LibraryTypes DEF ReadsInv
<1>3. ~Live(load'[l])
  BY <1>1, ReadsTypes DEF Live
<1>4. \A c \in Readers : ReaderOK(reader'[c], kind, size)
  BY DEF ReadsInv, Waiting
<1>5. entry' # NoLoad => entry' \in Readers /\ Live(load'[entry'])
  BY <1>1 DEF ReadsInv, Cleared
<1>6. \A k \in Readers : Live(load'[k]) => \E c \in Readers : reader'[c].st = "waiting" /\ reader'[c].of = k
  <2>1. ASSUME NEW k \in Readers, Live(load'[k]) PROVE \E c \in Readers : reader'[c].st = "waiting" /\ reader'[c].of = k
    <3>1. k # l /\ Live(load[k])
      BY <1>1, <1>3, <2>1
    <3>2. PICK c \in Readers : reader[c].st = "waiting" /\ reader[c].of = k
      BY <3>1 DEF ReadsInv
    <3>3. reader'[c] = reader[c]
      BY <3>1, <3>2 DEF Waiting
    <3> QED
      BY <3>2, <3>3
  <2> QED
    BY <2>1
<1>7. \A c \in Readers : reader'[c].st = "idle" => load'[c].st = "none"
  BY <1>1, ReadsTypes DEF ReadsInv
<1>8. \A c \in Readers : reader'[c].st = "waiting" =>
          reader'[c].of \in Readers /\ Live(load'[reader'[c].of]) /\ reader'[c].max <= load'[reader'[c].of].max
  <2>1. ASSUME NEW c \in Readers, reader'[c].st = "waiting"
        PROVE  reader'[c].of \in Readers /\ Live(load'[reader'[c].of]) /\ reader'[c].max <= load'[reader'[c].of].max
    <3>1. c \notin Waiting(l) /\ reader'[c] = reader[c]
      BY <2>1
    <3>2. reader[c].of \in Readers /\ Live(load[reader[c].of]) /\ reader[c].max <= load[reader[c].of].max
      BY <2>1, <3>1 DEF ReadsInv
    <3>3. reader[c].of # l
      BY <2>1, <3>1 DEF Waiting
    <3> QED
      BY <1>1, <3>1, <3>2, <3>3
  <2> QED
    BY <2>1
<1>9. kind = "list" => \A k \in Readers : Live(load'[k]) => k = entry'
  BY <1>1, <1>3 DEF ReadsInv, Cleared
<1> QED
  BY <1>1, <1>2, <1>4, <1>5, <1>6, <1>7, <1>8, <1>9 DEF ReadsInv

LEMMA SettleSteps ==
    ASSUME ReadsInv, NEW l \in Readers, Live(load[l]), NEW came \in Scans, NEW confirmed \in BOOLEAN,
           kind = "scan" =>
              /\ ScanOK(came, size, library.ver) /\ came.ver # 0 /\ Covers(came, load[l].max)
              /\ confirmed => came.ver = library.ver
              /\ ~confirmed => load[l].since <= came.ver,
           Settles(l, came, confirmed), UNCHANGED <<library, size, kind>>
    PROVE  ReadsInv'
<1>1. /\ kind \in {"scan", "list"} /\ library.ver \in Nat /\ size \in [Versions -> Nat \ {0}]
      /\ load[l].max \in Nat /\ load[l].since \in Nat
  BY LibraryTypes DEF ReadsInv, Live, LoadOK, LoadRows
<1> DEFINE shown(c) == IF kind = "list" THEN NoScan ELSE [came EXCEPT !.pages = Least(@, reader[c].max)]
           over(c) == [reader[c] EXCEPT !.st = "answered", !.of = NoLoad, !.confirmed = confirmed, !.now = library.ver,
                                        !.since = load[l].since, !.scan = shown(c)]
<1>2. reader' = [c \in Readers |-> IF c \notin Waiting(l) THEN reader[c] ELSE over(c)]
  BY DEF Settles
<1>3. ASSUME NEW c \in Waiting(l) PROVE ReaderOK(over(c), kind, size) /\ over(c).st = "answered"
  <2>1. c \in Readers /\ reader[c] \in ReadRows /\ (reader[c].asked.ver # 0 => reader[c].asked.whole)
        /\ reader[c].max \in Nat /\ reader[c].max <= load[l].max
    BY <1>1 DEF Waiting, ReadsInv, ReaderOK, ReadRows
  <2>2. shown(c) \in Scans
    BY <2>1, ReadsTypes DEF Scans, Least
  <2>3. /\ over(c) \in ReadRows /\ over(c).st = "answered" /\ over(c).asked = reader[c].asked
        /\ over(c).max = reader[c].max /\ over(c).confirmed = confirmed /\ over(c).now = library.ver
        /\ over(c).since = load[l].since /\ over(c).scan = shown(c)
    <3> HIDE DEF shown
    <3> QED
      BY <1>1, <2>1, <2>2 DEF ReadRows
  <2>4. CASE kind = "list"
    BY <2>1, <2>3, <2>4 DEF ReaderOK, Current
  <2>5. CASE kind = "scan"
    <3>1. /\ shown(c).ver = came.ver /\ shown(c).seen = came.seen
          /\ shown(c).pages = Least(came.pages, reader[c].max)
      BY <2>5 DEF Scans
    <3>2. Least(came.pages, reader[c].max) = Least(reader[c].max, size[came.ver])
      BY <1>1, <2>1, <2>5, CoverGives
    <3> HIDE DEF over, shown
    <3>3. /\ confirmed => came.seen = {library.ver}
          /\ ~confirmed => \A v \in came.seen : v \in load[l].since .. library.ver
      BY <1>1, <2>5 DEF ScanOK, Versions
    <3>4. Current(over(c), kind, size)
      BY <2>3, <2>5, <3>1, <3>2, <3>3 DEF Current
    <3> QED
      BY <2>1, <2>3, <3>4 DEF ReaderOK
  <2> QED
    BY <1>1, <2>4, <2>5
<1> HIDE DEF over, shown
<1>4. /\ DOMAIN reader' = Readers /\ \A c \in Waiting(l) : reader'[c] = over(c)
      /\ \A c \in Readers \ Waiting(l) : reader'[c] = reader[c]
  BY <1>2 DEF Waiting
<1>5. kept' \in InCaches /\ ScanOK(kept'.scan, size, library.ver) /\ kept'.page = kept.page
  BY <1>1 DEF Settles, ReadsInv, InCaches
<1>6. \A c \in Waiting(l) : ReaderOK(reader'[c], kind, size) /\ reader'[c].st \notin {"waiting", "idle"}
  BY <1>3, <1>4
<1>7. load' = [load EXCEPT ![l] = NotLoading] /\ entry' = Cleared(l)
  BY DEF Settles
<1> QED
  BY <1>1, <1>4, <1>5, <1>6, <1>7, LoadEnds

LEMMA ScanReadOK ==
    ASSUME NEW sizes \in [Versions -> Nat \ {0}], NEW now \in Nat, NEW ver \in Versions, NEW seen \in SUBSET Nat,
           ver \in seen, seen \subseteq ver .. now, NEW max \in Nat, max >= 1
    PROVE  LET pages == Least(max, sizes[ver])
               read == Scan(ver, seen, pages, pages = sizes[ver])
           IN  read \in Scans /\ read.ver = ver /\ ver # 0 /\ ScanOK(read, sizes, now) /\ Covers(read, max)
<1> DEFINE pages == Least(max, sizes[ver])
           whole == pages = sizes[ver]
           read == Scan(ver, seen, pages, whole)
<1>1. sizes[ver] \in Nat \ {0} /\ ver \in Nat /\ ver # 0
  BY DEF Versions
<1>2. pages \in Nat /\ pages <= sizes[ver] /\ (whole \/ pages >= max)
  BY <1>1 DEF Least
<1>3. whole \in BOOLEAN /\ (whole => pages = sizes[ver])
  OBVIOUS
<1> HIDE DEF pages, whole
<1>4. read \in Scans /\ read.ver = ver /\ read.seen = seen /\ read.pages = pages /\ (read.complete <=> whole)
  BY <1>1, <1>2, <1>3 DEF Scan, Scans
<1> HIDE DEF read
<1>5. ScanOK(read, sizes, now) /\ Covers(read, max)
  BY <1>1, <1>2, <1>3, <1>4 DEF ScanOK, Covers
<1> QED
  BY <1>1, <1>4, <1>5 DEF read, pages, whole

\* A load that reads on: nobody notices.
LEMMA ReadsOn ==
    ASSUME ReadsInv, NEW l \in Readers, Live(load[l]), NEW row, load' = [load EXCEPT ![l] = row],
           Live(row), row.max = load[l].max, LoadOK(row, size, library.ver),
           UNCHANGED <<library, size, kind, kept, entry, reader>>
    PROVE  ReadsInv'
<1>1. /\ DOMAIN load' = Readers /\ load'[l] = row
      /\ \A k \in Readers \ {l} : load'[k] = load[k]
  BY DEF ReadsInv
<1>2. \A k \in Readers : LoadOK(load'[k], size, library.ver)
  BY <1>1 DEF ReadsInv
<1>3. \A k \in Readers : load'[k].max = load[k].max /\ (Live(load'[k]) <=> Live(load[k]))
  BY <1>1
<1>4. kind # "page" /\ \A c \in Readers : reader[c].st = "idle" => c # l
  BY DEF ReadsInv, Live
<1>5. \A c \in Readers : reader[c].st = "idle" => load'[c].st = "none"
  BY <1>1, <1>4 DEF ReadsInv
<1> QED
  BY <1>1, <1>2, <1>3, <1>4, <1>5 DEF ReadsInv

LEMMA LoadSteps ==
    ASSUME ReadsInv, NEW l \in Readers, FirstAnswer(l) \/ NextPage(l)
    PROVE  ReadsInv'
<1>1. /\ LoadOK(load[l], size, library.ver) /\ load[l] \in LoadRows /\ load[l].max \in Nat /\ load[l].max >= 1
      /\ load[l].since \in Nat /\ load[l].since <= library.ver /\ size \in [Versions -> Nat \ {0}]
      /\ library.ver \in Versions /\ library.ver \in Nat /\ library.ver # 0
  BY LibraryTypes DEF ReadsInv, LoadOK, LoadRows
<1>2. ASSUME FirstAnswer(l) PROVE ReadsInv'
  <2>0. load[l].st = "first" /\ Live(load[l]) /\ UNCHANGED <<library, size, kind>>
    BY <1>2 DEF FirstAnswer, Live
  <2>1. CASE kind = "list"
    <3>1. Settles(l, NoScan, FALSE)
      BY <1>2, <2>1 DEF FirstAnswer
    <3> QED
      BY <2>0, <2>1, <3>1, ReadsTypes, SettleSteps
  <2>2. CASE kind # "list" /\ load[l].kept.ver = library.ver
    <3>1. Settles(l, load[l].kept, TRUE)
      BY <1>2, <2>2 DEF FirstAnswer
    <3>2. load[l].kept \in Scans /\ ScanOK(load[l].kept, size, library.ver) /\ Covers(load[l].kept, load[l].max)
      BY <1>1, <2>0, <2>2 DEF LoadOK, ScanOK
    <3> QED
      BY <1>1, <2>0, <2>2, <3>1, <3>2, SettleSteps
  <2>3. CASE kind # "list" /\ load[l].kept.ver # library.ver /\ Least(load[l].max, size[library.ver]) = 1
    <3> DEFINE pages == Least(load[l].max, size[library.ver])
               read == Scan(library.ver, {library.ver}, pages, pages = size[library.ver])
    <3>1. Settles(l, read, FALSE)
      BY <1>2, <2>3 DEF FirstAnswer
    <3>2. read \in Scans /\ read.ver = library.ver /\ ScanOK(read, size, library.ver) /\ Covers(read, load[l].max)
      <4> DEFINE seen == {library.ver}
      <4>1. seen \in SUBSET Nat /\ library.ver \in seen /\ seen \subseteq library.ver .. library.ver
        BY <1>1
      <4> HIDE DEF seen
      <4>2. LET one == Scan(library.ver, seen, pages, pages = size[library.ver])
            IN  one \in Scans /\ one.ver = library.ver /\ ScanOK(one, size, library.ver) /\ Covers(one, load[l].max)
        BY <1>1, <4>1, ScanReadOK
      <4> QED
        BY <4>2 DEF seen
    <3> HIDE DEF read
    <3> QED
      BY <1>1, <2>0, <3>1, <3>2, SettleSteps
  <2>4. CASE kind # "list" /\ load[l].kept.ver # library.ver /\ Least(load[l].max, size[library.ver]) # 1
    <3> DEFINE left == Least(load[l].max, size[library.ver]) - 1
               row == [load[l] EXCEPT !.st = "rest", !.ver = library.ver, !.seen = {library.ver}, !.left = left]
    <3>1. load' = [load EXCEPT ![l] = row] /\ UNCHANGED <<kept, entry, reader>>
      BY <1>2, <2>4 DEF FirstAnswer, ReadsInv
    <3>2. left \in Int
      BY <1>1 DEF Least
    <3> HIDE DEF left
    <3>3. /\ row \in LoadRows /\ row.st = "rest" /\ row.ver = library.ver /\ row.seen = {library.ver}
          /\ row.max = load[l].max /\ row.since = load[l].since
      BY <1>1, <3>2 DEF LoadRows
    <3> HIDE DEF row
    <3>4. LoadOK(row, size, library.ver) /\ Live(row)
      BY <1>1, <3>3 DEF LoadOK, Live
    <3> QED
      BY <2>0, <3>1, <3>3, <3>4, ReadsOn
  <2> QED
    BY <2>1, <2>2, <2>3, <2>4
<1>3. ASSUME NextPage(l) PROVE ReadsInv'
  <2>0. /\ load[l].st = "rest" /\ Live(load[l]) /\ UNCHANGED <<library, size, kind>>
        /\ load[l].ver \in Versions /\ load[l].since <= load[l].ver /\ load[l].ver \in load[l].seen
        /\ load[l].seen \subseteq load[l].ver .. library.ver /\ load[l].left \in Int
    BY <1>1, <1>3 DEF NextPage, Live, LoadOK, LoadRows
  <2>5. load[l].ver \in Nat /\ load[l].ver <= library.ver
    BY <1>1, <2>0 DEF Versions
  <2> DEFINE seen == load[l].seen \cup {library.ver}
  <2>1. seen \in SUBSET Nat /\ load[l].ver \in seen /\ seen \subseteq load[l].ver .. library.ver
    BY <1>1, <2>0, <2>5
  <2>2. CASE load[l].left = 1
    <3> DEFINE pages == Least(load[l].max, size[load[l].ver])
               read == Scan(load[l].ver, seen, pages, pages = size[load[l].ver])
    <3>1. Settles(l, read, FALSE)
      BY <1>3, <2>2 DEF NextPage, ScanRead
    <3>2. read \in Scans /\ read.ver = load[l].ver /\ read.ver # 0 /\ ScanOK(read, size, library.ver) /\ Covers(read, load[l].max)
      <4> HIDE DEF seen
      <4>1. /\ size \in [Versions -> Nat \ {0}] /\ library.ver \in Nat /\ load[l].ver \in Versions
            /\ seen \in SUBSET Nat /\ load[l].ver \in seen /\ seen \subseteq load[l].ver .. library.ver
            /\ load[l].max \in Nat /\ load[l].max >= 1
        BY <1>1, <2>0, <2>1
      <4> QED
        BY <4>1, ScanReadOK
    <3> HIDE DEF read
    <3> QED
      BY <2>0, <3>1, <3>2, SettleSteps
  <2>3. CASE load[l].left # 1
    <3> DEFINE left == load[l].left - 1
               row == [load[l] EXCEPT !.left = left, !.seen = seen]
    <3>0. /\ load' = [load EXCEPT ![l].left = left, ![l].seen = seen]
          /\ UNCHANGED <<kept, entry, reader>>
      BY <1>3, <2>3 DEF NextPage
    <3>1. load' = [load EXCEPT ![l] = row] /\ UNCHANGED <<kept, entry, reader>>
      <4> HIDE DEF left, seen
      <4> QED
        BY <1>1, <3>0 DEF LoadRows
    <3>2. left \in Int
      BY <2>0
    <3> HIDE DEF left, seen
    <3>3. /\ row \in LoadRows /\ row.st = "rest" /\ row.ver = load[l].ver /\ row.seen = seen
          /\ row.max = load[l].max /\ row.since = load[l].since
      BY <1>1, <2>0, <2>1, <3>2 DEF LoadRows
    <3> HIDE DEF row
    <3>4. LoadOK(row, size, library.ver) /\ Live(row)
      BY <1>1, <2>0, <2>1, <3>3 DEF LoadOK, Live
    <3> QED
      BY <2>0, <3>1, <3>3, <3>4, ReadsOn
  <2> QED
    BY <2>2, <2>3
<1> QED
  BY <1>2, <1>3

LEMMA FailureTypes ==
    ASSUME NEW row \in ReadRows
    PROVE  LET over == [row EXCEPT !.st = "failed", !.of = NoLoad]
           IN  over \in ReadRows /\ over.st = "failed" /\ over.asked = row.asked
BY DEF ReadRows

LEMMA FailSteps == ASSUME ReadsInv, NEW l \in Readers, LoadFails(l) PROVE ReadsInv'
<1> DEFINE over(c) == [reader[c] EXCEPT !.st = "failed", !.of = NoLoad]
<1>1. reader' = [c \in Readers |-> IF c \in Waiting(l) THEN over(c) ELSE reader[c]]
  BY DEF LoadFails
<1>2. ASSUME NEW c \in Waiting(l) PROVE ReaderOK(over(c), kind, size) /\ over(c).st = "failed"
  <2>1. c \in Readers /\ ReaderOK(reader[c], kind, size) /\ reader[c] \in ReadRows
    BY DEF Waiting, ReadsInv, ReaderOK
  <2>2. over(c) \in ReadRows /\ over(c).st = "failed" /\ over(c).asked = reader[c].asked
    BY <2>1, FailureTypes
  <2> HIDE DEF over
  <2> QED
    BY <2>1, <2>2 DEF ReaderOK
<1> HIDE DEF over
<1>3. /\ DOMAIN reader' = Readers /\ \A c \in Waiting(l) : reader'[c] = over(c)
      /\ \A c \in Readers \ Waiting(l) : reader'[c] = reader[c]
  BY <1>1 DEF Waiting
<1>4. \A c \in Waiting(l) : ReaderOK(reader'[c], kind, size) /\ reader'[c].st \notin {"waiting", "idle"}
  BY <1>2, <1>3
<1>5. /\ load' = [load EXCEPT ![l] = NotLoading] /\ entry' = Cleared(l) /\ UNCHANGED <<library, size, kind, kept>>
      /\ kind # "page"
  BY DEF LoadFails, ReadsInv, Running
<1>6. kept' \in InCaches /\ ScanOK(kept'.scan, size, library.ver) /\ kept'.page = kept.page
  BY <1>5 DEF ReadsInv
<1> QED
  BY <1>3, <1>4, <1>5, <1>6, LoadEnds

\* Nobody waits for a load that was aborted.
LEMMA AbortedSteps == ASSUME ReadsInv, NEW l \in Readers, AbortedSettles(l) PROVE ReadsInv'
<1>1. /\ load' = [load EXCEPT ![l] = NotLoading] /\ entry' = Cleared(l) /\ load[l].st = "aborted"
      /\ UNCHANGED <<library, size, kind, kept, reader>>
  BY DEF AbortedSettles
<1>2. kind # "page" /\ Waiting(l) = {} /\ DOMAIN reader' = Readers
  BY <1>1 DEF ReadsInv, Waiting, Live
<1>3. kept' \in InCaches /\ ScanOK(kept'.scan, size, library.ver) /\ kept'.page = kept.page
  BY <1>1 DEF ReadsInv
<1> QED
  BY <1>1, <1>2, <1>3, LoadEnds

LEMMA CancelledTypes ==
    LET row == [NotReading EXCEPT !.st = "cancelled"]
    IN  row \in ReadRows /\ row.st = "cancelled" /\ row.asked = NoPage
BY ReadsTypes DEF ReadRows

\* The last to leave aborts the load; before, it goes on for the others.
LEMMA GiveUpSteps == ASSUME ReadsInv, NEW c \in Readers, GivesUp(c) PROVE ReadsInv'
<1> DEFINE l == reader[c].of
           row == [NotReading EXCEPT !.st = "cancelled"]
<1>1. /\ reader[c].st = "waiting" /\ l # NoLoad /\ reader' = [reader EXCEPT ![c] = row] /\ Leave(c)
      /\ UNCHANGED <<library, size, kind, kept>>
  BY DEF GivesUp
<1>2. kind # "page" /\ l \in Readers /\ Live(load[l]) /\ c \in Waiting(l)
  BY <1>1 DEF ReadsInv, Waiting
<1>3. row \in ReadRows /\ row.st = "cancelled" /\ row.asked = NoPage
  BY CancelledTypes
<1>4. ReaderOK(row, kind, size)
  BY <1>3, ReadsTypes DEF ReaderOK
<1> HIDE DEF row
<1>5. /\ DOMAIN reader' = Readers /\ reader'[c] = row
      /\ \A d \in Readers \ {c} : reader'[d] = reader[d]
  BY <1>1 DEF ReadsInv
<1>6. \A d \in Readers : ReaderOK(reader'[d], kind, size)
  BY <1>4, <1>5 DEF ReadsInv
<1>7. CASE Waiting(l) = {c}
  <2> DEFINE gone == [load[l] EXCEPT !.st = "aborted"]
  <2>1. entry' = Cleared(l) /\ load' = [load EXCEPT ![l] = gone]
    BY <1>1, <1>2, <1>7 DEF Leave, ReadsInv
  <2>2. LoadOK(gone, size, library.ver) /\ gone.st = "aborted" /\ ~Live(gone)
    <3>1. LoadOK(load[l], size, library.ver) /\ load[l] \in LoadRows
      BY <1>2 DEF ReadsInv, LoadOK
    <3>2. gone \in LoadRows /\ gone.st = "aborted" /\ gone.since = load[l].since /\ gone.max = load[l].max
      BY <3>1 DEF LoadRows
    <3> HIDE DEF gone
    <3> QED
      BY <3>1, <3>2 DEF LoadOK, Live
  <2> HIDE DEF gone
  <2>3. /\ DOMAIN load' = Readers /\ load'[l] = gone
        /\ \A k \in Readers \ {l} : load'[k] = load[k]
    BY <1>2, <2>1 DEF ReadsInv
  <2>4. \A k \in Readers : LoadOK(load'[k], size, library.ver)
    BY <2>2, <2>3 DEF ReadsInv
  <2>5. entry' # NoLoad => entry' \in Readers /\ Live(load'[entry'])
    BY <2>1, <2>3 DEF ReadsInv, Cleared
  <2>6. \A k \in Readers : Live(load'[k]) => \E d \in Readers : reader'[d].st = "waiting" /\ reader'[d].of = k
    <3>1. ASSUME NEW k \in Readers, Live(load'[k]) PROVE \E d \in Readers : reader'[d].st = "waiting" /\ reader'[d].of = k
      <4>1. k # l /\ Live(load[k])
        BY <2>2, <2>3, <3>1
      <4>2. PICK d \in Readers : reader[d].st = "waiting" /\ reader[d].of = k
        BY <4>1 DEF ReadsInv
      <4> QED
        BY <1>5, <4>1, <4>2
    <3> QED
      BY <3>1
  <2>7. \A d \in Readers : reader'[d].st = "idle" => load'[d].st = "none"
    BY <1>2, <1>3, <1>5, <2>3 DEF ReadsInv, Live
  <2>8. \A d \in Readers : reader'[d].st = "waiting" =>
            reader'[d].of \in Readers /\ Live(load'[reader'[d].of]) /\ reader'[d].max <= load'[reader'[d].of].max
    <3>1. ASSUME NEW d \in Readers, reader'[d].st = "waiting"
          PROVE  reader'[d].of \in Readers /\ Live(load'[reader'[d].of]) /\ reader'[d].max <= load'[reader'[d].of].max
      <4>1. d # c /\ reader'[d] = reader[d] /\ reader[d].of # l
        BY <1>3, <1>5, <1>7, <3>1 DEF Waiting
      <4>2. reader[d].of \in Readers /\ Live(load[reader[d].of]) /\ reader[d].max <= load[reader[d].of].max
        BY <1>2, <3>1, <4>1 DEF ReadsInv
      <4> QED
        BY <2>3, <4>1, <4>2
    <3> QED
      BY <3>1
  <2>9. kind = "list" => \A k \in Readers : Live(load'[k]) => k = entry'
    BY <2>1, <2>2, <2>3 DEF ReadsInv, Cleared
  <2> HIDE DEF l
  <2> QED
    BY <1>1, <1>2, <1>6, <1>5, <2>3, <2>4, <2>5, <2>6, <2>7, <2>8, <2>9 DEF ReadsInv
<1>8. CASE Waiting(l) # {c}
  <2>1. entry' = entry /\ load' = load
    BY <1>1, <1>8 DEF Leave
  <2>2. \A k \in Readers : Live(load[k]) => \E d \in Readers : reader'[d].st = "waiting" /\ reader'[d].of = k
    <3>1. ASSUME NEW k \in Readers, Live(load[k]) PROVE \E d \in Readers : reader'[d].st = "waiting" /\ reader'[d].of = k
      <4>1. PICK d \in Readers \ {c} : reader[d].st = "waiting" /\ reader[d].of = k
        BY <1>2, <1>8, <3>1 DEF ReadsInv, Waiting
      <4> QED
        BY <1>5, <4>1
    <3> QED
      BY <3>1
  <2>3. \A d \in Readers : reader'[d].st = "idle" => load[d].st = "none"
    BY <1>3, <1>5 DEF ReadsInv
  <2>4. \A d \in Readers : reader'[d].st = "waiting" =>
            reader'[d].of \in Readers /\ Live(load[reader'[d].of]) /\ reader'[d].max <= load[reader'[d].of].max
    BY <1>2, <1>3, <1>5 DEF ReadsInv
  <2> HIDE DEF l
  <2> QED
    BY <1>1, <1>2, <1>5, <1>6, <2>1, <2>2, <2>3, <2>4 DEF ReadsInv
<1> QED
  BY <1>7, <1>8

\* A call moves that waits for no load.
LEMMA OneReader ==
    ASSUME ReadsInv, NEW c \in Readers, NEW row, reader' = [reader EXCEPT ![c] = row], ReaderOK(row, kind, size),
           row.st # "idle",
           kind = "page" \/ (reader[c].st # "waiting" /\ row.st # "waiting"),
           row.st = "waiting" => row.of = NoLoad,
           kept' \in InCaches, kept'.scan = kept.scan, kept'.page.ver # 0 => kept'.page.whole,
           UNCHANGED <<library, size, kind, entry, load>>
    PROVE  ReadsInv'
<1>1. /\ DOMAIN reader' = Readers /\ reader'[c] = row
      /\ \A d \in Readers \ {c} : reader'[d] = reader[d]
  BY DEF ReadsInv
<1>2. \A d \in Readers : ReaderOK(reader'[d], kind, size)
  BY <1>1 DEF ReadsInv
<1>3. \A k \in Readers : Live(load[k]) => \E d \in Readers : reader'[d].st = "waiting" /\ reader'[d].of = k
  <2>1. kind # "page" => \A k \in Readers : Live(load[k]) => \E d \in Readers \ {c} : reader[d].st = "waiting" /\ reader[d].of = k
    BY DEF ReadsInv
  <2>2. kind = "page" => \A k \in Readers : ~Live(load[k])
    BY DEF ReadsInv, Live
  <2> QED
    BY <1>1, <2>1, <2>2
<1>4. \A d \in Readers : reader'[d].st = "idle" => load[d].st = "none"
  BY <1>1 DEF ReadsInv
<1>5. \A d \in Readers : reader'[d].st = "waiting" /\ kind # "page" =>
          reader'[d].of \in Readers /\ Live(load[reader'[d].of]) /\ reader'[d].max <= load[reader'[d].of].max
  BY <1>1 DEF ReadsInv
<1>6. kind = "page" => \A d \in Readers : load[d].st = "none" /\ (reader'[d].st = "waiting" => reader'[d].of = NoLoad)
  BY <1>1 DEF ReadsInv
<1> QED
  BY <1>1, <1>2, <1>3, <1>4, <1>5, <1>6 DEF ReadsInv

LEMMA CachedSteps == ASSUME ReadsInv, NEW c \in Readers, CachedShared(c) PROVE ReadsInv'
<1>1. kind = "list" /\ reader[c].st = "idle" /\ UNCHANGED <<library, size, kind, kept>>
  BY DEF CachedShared
<1>2. CASE kept.list
  <2> DEFINE row == [reader[c] EXCEPT !.st = "answered"]
  <2>1. reader' = [reader EXCEPT ![c] = row] /\ UNCHANGED <<entry, load>>
    BY <1>2 DEF CachedShared, ReadsInv
  <2>2. reader[c] \in ReadRows /\ (reader[c].asked.ver # 0 => reader[c].asked.whole)
    BY DEF ReadsInv, ReaderOK
  <2>3. row \in ReadRows /\ row.st = "answered" /\ row.asked = reader[c].asked
    BY <2>2 DEF ReadRows
  <2> HIDE DEF row
  <2>4. ReaderOK(row, kind, size)
    BY <1>1, <2>2, <2>3 DEF ReaderOK, Current
  <2>5. kept' \in InCaches /\ kept'.scan = kept.scan /\ (kept'.page.ver # 0 => kept'.page.whole)
    BY <1>1 DEF ReadsInv
  <2> QED
    BY <1>1, <2>1, <2>3, <2>4, <2>5, OneReader
<1>3. CASE ~kept.list
  BY <1>1, <1>3, JoinSteps DEF CachedShared
<1> QED
  BY <1>2, <1>3

LEMMA PageSteps == ASSUME ReadsInv, NEW c \in Readers, AskPage(c) \/ PageAnswer(c) PROVE ReadsInv'
<1>0. /\ kept \in InCaches /\ kept.page \in PagesRead /\ (kept.page.ver # 0 => kept.page.whole)
      /\ reader[c] \in ReadRows /\ reader[c].asked \in PagesRead /\ (reader[c].asked.ver # 0 => reader[c].asked.whole)
      /\ library.ver \in Nat /\ library.ver >= 1 /\ library.whole \in BOOLEAN
  BY LibraryTypes DEF ReadsInv, InCaches, ReaderOK, ReadRows
<1>1. CASE AskPage(c)
  <2> DEFINE row == [NotReading EXCEPT !.st = "waiting", !.asked = kept.page]
  <2>1. kind = "page" /\ reader' = [reader EXCEPT ![c] = row] /\ UNCHANGED <<library, size, kind, kept, entry, load>>
    BY <1>1 DEF AskPage
  <2>2. row \in ReadRows /\ row.st = "waiting" /\ row.of = NoLoad /\ row.asked = kept.page
    BY <1>0, ReadsTypes DEF NotReading, ReadRows
  <2> HIDE DEF row
  <2>3. ReaderOK(row, kind, size)
    BY <1>0, <2>2 DEF ReaderOK
  <2> QED
    BY <1>0, <2>1, <2>2, <2>3, OneReader
<1>2. CASE PageAnswer(c)
  <2> DEFINE asked == reader[c].asked
             confirmed == asked.ver = library.ver
             page == IF confirmed THEN asked ELSE Page(library.ver, library.whole)
             row == [reader[c] EXCEPT !.st = "answered", !.asked = NoPage, !.confirmed = confirmed,
                                      !.page = page, !.now = library.ver]
  <2>0. /\ kind = "page" /\ reader[c].st = "waiting"
        /\ kept' = [kept EXCEPT !.page = IF confirmed THEN page ELSE KeepPage(page)]
        /\ reader' = [reader EXCEPT ![c].st = "answered", ![c].asked = NoPage, ![c].confirmed = confirmed,
                                    ![c].page = page, ![c].now = library.ver]
        /\ UNCHANGED <<library, size, kind, entry, load>>
    BY <1>2 DEF PageAnswer
  <2>1. /\ kind = "page" /\ reader[c].st = "waiting"
        /\ kept' = [kept EXCEPT !.page = IF confirmed THEN page ELSE KeepPage(page)]
        /\ reader' = [reader EXCEPT ![c] = row] /\ UNCHANGED <<library, size, kind, entry, load>>
    <3> HIDE DEF page, confirmed
    <3> QED
      BY <1>0, <2>0 DEF ReadRows
  <2>2. page \in PagesRead /\ page.ver = library.ver /\ (confirmed => page.whole)
    BY <1>0 DEF Page, PagesRead
  <2>3. confirmed \in BOOLEAN
    OBVIOUS
  <2> HIDE DEF page, confirmed, asked
  <2>4. /\ row \in ReadRows /\ row.st = "answered" /\ row.asked = NoPage /\ (row.confirmed <=> confirmed)
        /\ row.page = page /\ row.now = library.ver
    BY <1>0, <2>2, <2>3, ReadsTypes DEF ReadRows
  <2> HIDE DEF row
  <2>5. ReaderOK(row, kind, size)
    BY <2>1, <2>2, <2>4, ReadsTypes DEF ReaderOK, Current
  <2>6. kept' \in InCaches /\ kept'.scan = kept.scan /\ (kept'.page.ver # 0 => kept'.page.whole)
    <3>1. KeepPage(page) \in PagesRead /\ (KeepPage(page).ver # 0 => KeepPage(page).whole)
      BY <2>2, ReadsTypes DEF KeepPage
    <3> DEFINE now == IF confirmed THEN page ELSE KeepPage(page)
    <3>2. now \in PagesRead /\ (now.ver # 0 => now.whole)
      BY <2>2, <3>1
    <3> HIDE DEF now
    <3> QED
      BY <1>0, <2>1, <3>2 DEF InCaches, now
  <2> QED
    BY <2>1, <2>4, <2>5, <2>6, OneReader
<1> QED
  BY <1>1, <1>2

LEMMA LibrarySteps == ASSUME ReadsInv, LibraryChanges \/ IndexChanges PROVE ReadsInv'
<1>1. /\ library' \in [ver : Versions, whole : BOOLEAN] /\ library'.ver >= library.ver /\ library'.ver \in Nat
      /\ UNCHANGED <<size, kind, kept, entry, load, reader>>
  <2>1. CASE LibraryChanges
    <3>1. library.ver + 1 \in Versions
      BY <2>1, LibraryTypes, ReadsAssumption DEF LibraryChanges, Versions
    <3> QED
      BY <2>1, <3>1, LibraryTypes DEF LibraryChanges, ReadsInv
  <2>2. CASE IndexChanges
    <3> DEFINE whole == ~library.whole
    <3>1. whole \in BOOLEAN /\ library' = [library EXCEPT !.whole = whole] /\ UNCHANGED <<size, kind, kept, entry, load, reader>>
      BY <2>2 DEF IndexChanges, ReadsInv
    <3> HIDE DEF whole
    <3> QED
      BY <3>1, LibraryTypes DEF ReadsInv
  <2> QED
    BY <2>1, <2>2
<1>2. ScanOK(kept.scan, size, library'.ver) /\ \A l \in Readers : LoadOK(load[l], size, library'.ver)
  BY <1>1, LibraryTypes, StillOK DEF ReadsInv
<1> QED
  BY <1>1, <1>2 DEF ReadsInv

LEMMA ExpirySteps == ASSUME ReadsInv, Expires PROVE ReadsInv'
<1>1. UNCHANGED <<library, size, kind, entry, load, reader>>
  BY DEF Expires
<1>2. kept' \in InCaches /\ ScanOK(kept'.scan, size, library.ver) /\ (kept'.page.ver # 0 => kept'.page.whole)
  <2>1. ScanOK(NoScan, size, library.ver)
    BY ReadsTypes DEF ScanOK
  <2>2. CASE kept' = [kept EXCEPT !.scan = NoScan]
    BY <2>1, <2>2, ReadsTypes DEF ReadsInv, InCaches
  <2>3. CASE kept' = [kept EXCEPT !.list = FALSE]
    BY <2>3 DEF ReadsInv, InCaches
  <2>4. CASE kept' = [kept EXCEPT !.page = NoPage]
    BY <2>4, ReadsTypes DEF ReadsInv, InCaches
  <2> QED
    BY <2>2, <2>3, <2>4 DEF Expires
<1> QED
  BY <1>1, <1>2 DEF ReadsInv

LEMMA ReadsSteps == ASSUME ReadsInv, ReadsNext PROVE ReadsInv'
<1>1. ASSUME NEW c \in Readers, NEW max \in 1 .. MaxScan, ScanCases(c, max) PROVE ReadsInv'
  <2>1. max \in Nat \ {0}
    BY ReadsAssumption
  <2> QED
    BY <1>1, <2>1, JoinSteps DEF ScanCases
<1> QED
  BY <1>1, CachedSteps, GiveUpSteps, PageSteps, LoadSteps, FailSteps, AbortedSteps, LibrarySteps, ExpirySteps
  DEF ReadsNext

-----------------------------------------------------------------------------
(* Saving a reference (ZoteroSave).  One item is made because one request  *)
(* at most is under way and its token outlives it: what has been sent is   *)
(* one token, `applied` holds no other, and a call that said it saved has  *)
(* seen the item made.                                                     *)

MayCreate == account.mayWrite /\ account.valid

SaveInv ==
    /\ account \in Accounts
    /\ \A n \in DOMAIN sent : sent[n] = 1
    /\ applied \subseteq {1} /\ items = IF 1 \in applied THEN 1 ELSE 0
    /\ saveStage \in {"gate", "access", "body"} => DOMAIN sent = {} /\ applied = {}
    /\ said = "saved" => 1 \in applied
    /\ said \in Denies =>
          /\ saveStage = "over"
          /\ DOMAIN sent = {} \/ ~MayCreate
          /\ applied = {}
    /\ ~MayCreate => applied = {}

LEMMA SaveStarts == ASSUME SaveInit PROVE SaveInv
BY DEF Accounts, SaveInit, SaveInitOf, SaveInv, Denies

LEMMA SaveSteps == ASSUME SaveInv, SaveNext PROVE SaveInv'
<1>0. account' = account /\ (MayCreate' <=> MayCreate)
  BY DEF SaveNext, GateStarts, GateEnds, GateExpires, BodyStarts, Sends, Answered, BodyExpires, ZoteroApplies, MayCreate
<1>1. CASE GateStarts
  BY <1>0, <1>1 DEF GateStarts, Says, SaveInv, Denies
<1>2. CASE GateEnds
  <2>1. Refusal # "saved"
    BY DEF Refusal, SaveInv, Accounts
  <2> QED
    BY <1>0, <1>2, <2>1 DEF GateEnds, Says, SaveInv, Denies
<1>3. CASE GateExpires
  BY <1>0, <1>3 DEF GateExpires, Says, SaveInv, Denies
<1>4. CASE BodyStarts
  BY <1>0, <1>4 DEF BodyStarts, Says, SaveInv, Denies
<1>5. CASE Sends
  BY <1>0, <1>5 DEF Sends, TokenOf, SaveInv, Denies
<1>6. CASE Answered
  <2>1. PICK status \in Statuses : (saveStage' \in {"send", "over"} /\ said' \in {said, "failed"}) \/ Says(AnswerTo(status))
    BY <1>0, <1>6 DEF Answered
  <2>2. UNCHANGED <<account, sent, applied, items>> /\ saveStage = "waiting"
    BY <1>0, <1>6 DEF Answered
  <2>3. /\ AnswerTo(status) = "saved" => 1 \in applied
        /\ AnswerTo(status) \in Denies => ~MayCreate
    BY <2>1 DEF Statuses, AnswerTo, SaveInv, Denies, MayCreate
  <2> QED
    BY <1>0, <2>1, <2>2, <2>3 DEF Says, SaveInv, Denies
<1>7. CASE BodyExpires
  BY <1>0, <1>7 DEF BodyExpires, Says, SaveInv, Denies
<1>8. CASE \E n \in 1 .. Attempts : ZoteroApplies(n)
  <2>1. PICK n \in DOMAIN sent : applied' = applied \cup {sent[n]} /\ sent[n] \notin applied /\ items' = items + 1
    BY <1>8 DEF ZoteroApplies, Applicable
  <2>2. UNCHANGED <<saveStage, sent, said>>
    BY <1>8 DEF ZoteroApplies
  <2>3. MayCreate
    BY <1>8, Zenon DEF ZoteroApplies, Applicable, MayCreate
  <2>4. sent[n] = 1 /\ items = 0 /\ \A x : x \notin applied
    BY <2>1 DEF SaveInv
  <2>5. applied' \subseteq {1} /\ 1 \in applied' /\ items' = 1
    BY <2>1, <2>4
  <2>6. said # "saved" /\ saveStage \notin {"gate", "access", "body"} /\ said \notin Denies
    BY <2>1, <2>3, <2>4 DEF SaveInv
  <2> QED
    BY <1>0, <2>2, <2>3, <2>5, <2>6 DEF SaveInv
<1> QED
  BY <1>1, <1>2, <1>3, <1>4, <1>5, <1>6, <1>7, <1>8 DEF SaveNext

LEMMA SaveHolds == ASSUME SaveInv PROVE OneItemHonestly
<1>1. said \in Denies => \A n \in DOMAIN sent : ~Applicable(n)
  BY DEF SaveInv, Applicable, MayCreate
<1>2. said \in Denies => items = 0
  BY DEF SaveInv
<1>3. items <= 1 /\ (said = "saved" => items = 1)
  BY DEF SaveInv
<1> QED
  BY <1>1, <1>2, <1>3 DEF OneItemHonestly

-----------------------------------------------------------------------------
(* Taking content down (FilesTakedown).  An upload of the text that is not *)
(* on the list of the call that blocked it was under way while that call   *)
(* blocked and listed; the block stops all that come after it.             *)

Takedowns ==
    [st : {"none", "begun", "listed", "deleting", "notFound", "done", "failed"}, by : Uploads \cup {"hash"},
     todo : SUBSET Uploads, racing : SUBSET Uploads]

\* A document is held only by an upload that was stored, which no step touches
\* again.
DownInv ==
    /\ DOMAIN uploads = Uploads /\ takedown \in Takedowns /\ blocked \in BOOLEAN
    /\ held \subseteq {u \in Uploads : uploads[u].st = "stored"}
    /\ blocked \/ spared = Uploads
    /\ Copies \cup UnderWay \subseteq spared
    /\ takedown.st \in {"listed", "deleting"} =>
           Copies \subseteq takedown.todo \cup takedown.racing /\ UnderWay \subseteq takedown.racing
    /\ takedown.st = "deleting" => blocked

LEMMA DownStarts == ASSUME TakedownInit PROVE DownInv
BY DEF TakedownInit, DownInv, NoTakedown, Takedowns, Copies, UnderWay

\* An upload of the reported text that looks at the block while the call is
\* between its list and its commit is under way; once the block is committed it
\* is refused: no step of an upload adds a copy of its own then.
LEMMA UploadSteps ==
    ASSUME DownInv, NEW u \in Uploads, Prechecks(u) \/ LooksAtBlock(u) \/ Stores(u) \/ OwnerDeletes(u)
    PROVE  DownInv'
<1> USE DEF DownInv, UnderWay, Copies
<1>1. CASE Prechecks(u)
  BY <1>1 DEF Prechecks
<1>2. CASE LooksAtBlock(u)
  <2>1. /\ uploads[u].st = "parsed"
        /\ uploads' = [uploads EXCEPT ![u].st = IF Refused(u) THEN "refused" ELSE "open"]
        /\ takedown' = IF takedown.st = "listed" /\ uploads[u].reported /\ ~Refused(u)
                       THEN [takedown EXCEPT !.racing = @ \cup {u}] ELSE takedown
        /\ UNCHANGED <<held, counted, blocked, takedowns, spared>>
    BY <1>2 DEF LooksAtBlock
  <2>2. /\ takedown' \in Takedowns /\ takedown'.st = takedown.st /\ takedown'.todo = takedown.todo
        /\ takedown.racing \subseteq takedown'.racing
        /\ takedown.st = "listed" /\ uploads[u].reported /\ ~Refused(u) => u \in takedown'.racing
    BY <2>1 DEF Takedowns
  <2>3. Copies' = Copies
    BY <2>1
  <2>4. UnderWay' \subseteq UnderWay \cup {u} /\ (u \in UnderWay' => uploads[u].reported /\ ~Refused(u))
    BY <2>1
  <2>5. u \in UnderWay' => ~blocked
    BY <2>4 DEF Refused
  <2> QED
    BY <2>1, <2>2, <2>3, <2>4, <2>5
<1>3. CASE Stores(u)
  BY <1>3 DEF Stores
<1>4. CASE OwnerDeletes(u)
  BY <1>4 DEF OwnerDeletes
<1> QED
  BY <1>1, <1>2, <1>3, <1>4

\* What a step of the operator leaves to be shown: it touches no upload.
LEMMA OperatorKeeps ==
    ASSUME DownInv, UNCHANGED <<uploads, held, spared>>, takedown' \in Takedowns, blocked' \in BOOLEAN,
           blocked => blocked',
           takedown'.st \in {"listed", "deleting"} =>
               Copies \subseteq takedown'.todo \cup takedown'.racing /\ UnderWay \subseteq takedown'.racing,
           takedown'.st = "deleting" => blocked'
    PROVE  DownInv'
<1>1. Copies' = Copies /\ UnderWay' = UnderWay
  BY DEF Copies, UnderWay
<1> QED
  BY <1>1 DEF DownInv

LEMMA OperatorBegins ==
    ASSUME DownInv, NEW aimedAt \in Uploads \cup {"hash"}, Begins(aimedAt)
    PROVE  DownInv'
<1>1. /\ takedown' = [takedown EXCEPT !.st = IF aimedAt = "hash" \/ aimedAt \in Copies THEN "begun" ELSE "notFound",
                                      !.by = aimedAt]
      /\ UNCHANGED <<uploads, held, counted, blocked, spared>>
  BY DEF Begins
<1>2. takedown' \in Takedowns /\ takedown'.st \in {"begun", "notFound"}
  BY <1>1 DEF DownInv, Takedowns
<1> QED
  BY <1>1, <1>2, OperatorKeeps DEF DownInv

LEMMA OperatorSteps ==
    ASSUME DownInv, ListsCopies \/ CommitsBlock \/ DeletesLibrary \/ Reports \/ TakedownFails
    PROVE  DownInv'
<1>1. CASE ListsCopies
  <2>1. /\ takedown' = [takedown EXCEPT !.st = "listed", !.todo = Copies, !.racing = UnderWay]
        /\ UNCHANGED <<uploads, held, blocked, spared>>
    BY <1>1 DEF ListsCopies
  <2>2. Copies \in SUBSET Uploads /\ UnderWay \in SUBSET Uploads
    BY DEF Copies, UnderWay, DownInv
  <2>3. takedown' \in Takedowns /\ takedown'.st = "listed" /\ takedown'.todo = Copies /\ takedown'.racing = UnderWay
    BY <2>1, <2>2 DEF DownInv, Takedowns
  <2> QED
    BY <2>1, <2>3, OperatorKeeps DEF DownInv
<1>2. CASE CommitsBlock
  <2>1. /\ takedown.st = "listed" /\ blocked' = TRUE
        /\ takedown' = [takedown EXCEPT !.st = "deleting"]
        /\ UNCHANGED <<uploads, held, spared>>
    BY <1>2 DEF CommitsBlock
  <2>2. takedown' \in Takedowns /\ takedown'.todo = takedown.todo /\ takedown'.racing = takedown.racing
    BY <2>1 DEF DownInv, Takedowns
  <2> QED
    BY <2>1, <2>2, OperatorKeeps DEF DownInv
<1>3. CASE DeletesLibrary
  <2>1. /\ takedown.st = "deleting"
        /\ takedown' = [takedown EXCEPT !.todo = @ \ DeletedTogether]
        /\ UNCHANGED <<uploads, blocked, spared>>
    BY <1>3 DEF DeletesLibrary
  <2>2. held' = held \ DeletedTogether
    BY <1>3 DEF DeletesLibrary, DeletedTogether
  <2>3. takedown' \in Takedowns /\ takedown'.todo = takedown.todo \ DeletedTogether /\ takedown'.st = takedown.st
        /\ takedown'.racing = takedown.racing
    BY <2>1 DEF DownInv, Takedowns
  <2>4. Copies' = Copies \ DeletedTogether /\ UnderWay' = UnderWay
    BY <2>1, <2>2 DEF Copies, UnderWay
  <2> QED
    BY <2>1, <2>2, <2>3, <2>4 DEF DownInv
<1>4. CASE Reports
  <2>1. /\ takedown.st = "deleting" /\ takedown.todo = {}
        /\ takedown' = [takedown EXCEPT !.st = "done"]
        /\ spared' = spared \cap takedown.racing
        /\ UNCHANGED <<uploads, held, blocked>>
    BY <1>4 DEF Reports
  <2>2. takedown' \in Takedowns /\ takedown'.st = "done"
    BY <2>1 DEF DownInv, Takedowns
  <2>3. Copies' = Copies /\ UnderWay' = UnderWay
    BY <2>1 DEF Copies, UnderWay
  <2>4. blocked /\ Copies \cup UnderWay \subseteq spared \cap takedown.racing
    BY <2>1 DEF DownInv
  <2> QED
    BY <2>1, <2>2, <2>3, <2>4 DEF DownInv
<1>5. CASE TakedownFails
  <2>1. takedown' = [takedown EXCEPT !.st = "failed"] /\ UNCHANGED <<uploads, held, blocked, spared>>
    BY <1>5 DEF TakedownFails
  <2>2. takedown' \in Takedowns /\ takedown'.st = "failed"
    BY <2>1 DEF DownInv, Takedowns
  <2> QED
    BY <2>1, <2>2, OperatorKeeps DEF DownInv
<1> QED
  BY <1>1, <1>2, <1>3, <1>4, <1>5

LEMMA DownSteps == ASSUME DownInv, TakedownNext PROVE DownInv'
<1>1. CASE OperatorTakesDown
  <2>1. PICK aimedAt \in Copies \cup {"hash"} : Begins(aimedAt)
    BY <1>1 DEF OperatorTakesDown
  <2> QED
    BY <2>1, OperatorBegins DEF Copies, DownInv
<1>2. CASE OperatorRetries
  <2>1. Begins(takedown.by)
    BY <1>2 DEF OperatorRetries
  <2>2. takedown.by \in Uploads \cup {"hash"}
    BY DEF DownInv, Takedowns
  <2> QED
    BY <2>1, <2>2, OperatorBegins
<1> QED
  BY <1>1, <1>2, UploadSteps, OperatorSteps DEF TakedownNext

LEMMA DownHolds == ASSUME DownInv PROVE GoneForGood
BY DEF DownInv, GoneForGood

-----------------------------------------------------------------------------
(* Operating modes (FilesGuards).  What an instance decides by was read    *)
(* or measured within its time, and the setting it was read from was in    *)
(* force at some tick of that time: HistoryInv ties the histories to the   *)
(* ticks they stand for.                                                   *)

Settings == [override : Modes, figures : Modes, pro : BOOLEAN]

Measurements == [st : {"none", "asked", "read"}, since : Nat, mode : Modes, computeOff : BOOLEAN]

\* The value v was in force at an instant from `from` on, of those up to `now`.
Seen(history, v, from, now) == \E t \in 0 .. now : t >= from /\ v \in history[t]

\* A mode that counts until the month of s is over.
UntilNextMonth(s, mode, until) == mode = "off" /\ setting.figures = "off" /\ s <= tick /\ until = NextMonth(s)

GuardsTypes ==
    /\ tick \in Nat /\ setting \in Settings /\ ModeTicks \in Nat \ {0}
    /\ measuring \in Measurements
    /\ modeCache \in [until : Nat, mode : Modes]
    /\ accessCache \in [at : Nat, none : BOOLEAN, pro : BOOLEAN]
    /\ DOMAIN inForce = 0 .. tick /\ DOMAIN proDuring = 0 .. tick

HistoryInv ==
    /\ ModeOf(setting) \in inForce[tick] /\ setting.pro \in proDuring[tick]

MeasureInv ==
    /\ measuring.st # "none" => measuring.since <= tick /\ tick <= measuring.since + MeasureTicks
    /\ measuring.st = "read" =>
          /\ Seen(inForce, measuring.mode, measuring.since, tick)
          /\ measuring.computeOff /\ tick < NextMonth(measuring.since) =>
                measuring.mode = "off" /\ setting.figures = "off"

KeptInv ==
    tick < modeCache.until =>
        \/ Seen(inForce, modeCache.mode, modeCache.until - ModeTicks, tick)
        \/ \E s \in Nat : UntilNextMonth(s, modeCache.mode, modeCache.until)

AccessInv == ~accessCache.none => accessCache.at <= tick /\ accessCache.pro \in proDuring[accessCache.at]

DecidedInv ==
    /\ decided.by = "mode" => decided.blind \/ Seen(inForce, decided.mode, tick - (ModeTicks - 1), tick)
    /\ decided.by = "access" => Seen(proDuring, decided.pro, tick - FreshTicks, tick)

GuardsInv == GuardsTypes /\ HistoryInv /\ MeasureInv /\ KeptInv /\ AccessInv /\ DecidedInv

LEMMA GuardsConstants ==
    /\ ModeTicks \in Nat \ {0} /\ MeasureTicks \in Nat /\ FreshTicks \in Nat /\ AccessTicks \in Nat
    /\ MonthTicks \in Nat \ {0}
BY GuardsAssumption

LEMMA GuardsStarts == ASSUME GuardsInit PROVE GuardsInv
<1> USE DEF GuardsInit
<1>1. GuardsTypes
  BY GuardsConstants DEF GuardsTypes, Settings, Modes, Measurements, NotMeasuring
<1>2. HistoryInv
  BY DEF HistoryInv, ModeOf, Stricter, AutoMode, Rank
<1> QED
  BY <1>1, <1>2 DEF GuardsInv, MeasureInv, KeptInv, AccessInv, DecidedInv, NotMeasuring, Undecided

LEMMA StillSeen ==
    ASSUME NEW h, NEW g, NEW v, NEW from \in Int, NEW since \in Int, NEW now \in Nat, NEW later \in Nat,
           now <= later, since <= from, \A t \in 0 .. now : h[t] \subseteq g[t], Seen(h, v, from, now)
    PROVE  Seen(g, v, since, later)
BY DEF Seen

LEMMA MonthIsNotOver ==
    ASSUME NEW s \in Nat, NEW t \in Nat, s <= t, t + 1 < NextMonth(s)
    PROVE  (t + 1) % MonthTicks # 0
<1>1. NextMonth(s) \in Nat
  BY GuardsConstants DEF NextMonth
<1> DEFINE M == MonthTicks
<1> DEFINE q == (t + 1) \div M
<1> DEFINE p == s \div M
<1>2. M \in Nat /\ M > 0 /\ q \in Nat /\ p \in Nat
  BY GuardsConstants
<1>3. t + 1 = M * q + ((t + 1) % M) /\ s = M * p + (s % M) /\ s % M >= 0
  BY <1>2
<1>4. NextMonth(s) = (p + 1) * M
  BY DEF NextMonth
<1> SUFFICES ASSUME (t + 1) % M = 0 PROVE FALSE
  OBVIOUS
<1> HIDE DEF M, q, p
<1>5. M * p < M * q
  BY <1>2, <1>3
<1>6. p < q
  <2>1. CASE q <= p
    <3>1. M * q <= M * p
      BY <1>2, <2>1
    <3> QED
      BY <1>2, <1>5, <3>1
  <2> QED
    BY <1>2, <2>1
<1>7. (p + 1) * M <= M * q
  BY <1>2, <1>6
<1> QED
  BY <1>2, <1>3, <1>4, <1>7

LEMMA ModeTypes ==
    ASSUME NEW s \in Settings
    PROVE  ModeOf(s) \in Modes /\ (s.figures = "off" => ModeOf(s) = "off")
BY DEF ModeOf, Stricter, AutoMode, Rank, Settings, Modes

\* A step that leaves the clock and what is in force alone keeps what was seen.
LEMMA MeasureSteps ==
    ASSUME GuardsInv, MeasureStarts \/ MeasureReads \/ CheckCached \/ MeasureEnds \/ MeasureFails
    PROVE  GuardsInv'
<1> USE GuardsConstants DEF GuardsInv
<1>0. /\ UNCHANGED <<tick, setting, accessCache, inForce, proDuring>>
      /\ HistoryInv' /\ AccessInv'
  BY DEF MeasureStarts, MeasureReads, CheckCached, MeasureEnds, MeasureFails, HistoryInv, AccessInv
<1>1. CASE MeasureStarts
  <2>1. /\ measuring' = [NotMeasuring EXCEPT !.st = "asked", !.since = tick] /\ UNCHANGED <<modeCache, decided>>
    BY <1>1 DEF MeasureStarts
  <2>2. measuring' = [st |-> "asked", since |-> tick, mode |-> "on", computeOff |-> FALSE]
    BY <2>1 DEF NotMeasuring
  <2>a. measuring' \in Measurements
    BY <2>2 DEF GuardsTypes, Measurements, Modes
  <2>3. GuardsTypes'
    BY <1>0, <2>1, <2>a DEF GuardsTypes
  <2>4. MeasureInv' /\ KeptInv' /\ DecidedInv'
    BY <1>0, <2>1, <2>2 DEF MeasureInv, KeptInv, DecidedInv, UntilNextMonth, GuardsTypes
  <2> QED
    BY <1>0, <2>3, <2>4
<1>2. CASE MeasureReads
  <2> DEFINE mode == ModeOf(setting)
  <2>1. /\ measuring.st = "asked" /\ UNCHANGED <<modeCache, decided>>
        /\ measuring' = [measuring EXCEPT !.st = "read", !.mode = mode, !.computeOff = setting.figures = "off"]
    BY <1>2 DEF MeasureReads, AutoMode
  <2>2. mode \in Modes /\ (setting.figures = "off" => mode = "off") /\ mode \in inForce[tick]
    BY ModeTypes DEF GuardsTypes, HistoryInv
  <2> HIDE DEF mode
  <2> DEFINE off == setting.figures = "off"
  <2>a. off \in BOOLEAN
    OBVIOUS
  <2> HIDE DEF off
  <2>b. measuring' = [measuring EXCEPT !.st = "read", !.mode = mode, !.computeOff = off]
    BY <2>1 DEF off
  <2>c. /\ measuring'.st = "read" /\ measuring'.since = measuring.since /\ measuring'.mode = mode
        /\ measuring'.computeOff = off
        /\ measuring' \in Measurements
    BY <2>2, <2>a, <2>b DEF GuardsTypes, Measurements
  <2>3. /\ measuring'.st = "read" /\ measuring'.since = measuring.since /\ measuring'.mode = mode
        /\ measuring'.computeOff <=> setting.figures = "off"
        /\ measuring' \in Measurements
    BY <2>c DEF off
  <2>4. measuring.since <= tick /\ tick <= measuring.since + MeasureTicks
    BY <2>1 DEF MeasureInv
  <2>5. Seen(inForce, mode, measuring.since, tick)
    BY <2>2, <2>4 DEF Seen, GuardsTypes
  <2>6. GuardsTypes'
    BY <1>0, <2>1, <2>3 DEF GuardsTypes
  <2>7. MeasureInv'
    BY <1>0, <2>2, <2>3, <2>4, <2>5 DEF MeasureInv
  <2>8. KeptInv' /\ DecidedInv'
    BY <1>0, <2>1 DEF KeptInv, DecidedInv, UntilNextMonth
  <2> QED
    BY <1>0, <2>6, <2>7, <2>8
<1>3. CASE CheckCached
  <2>1. /\ tick < modeCache.until /\ UNCHANGED <<modeCache, measuring>>
        /\ decided' = [by |-> "mode", mode |-> modeCache.mode, pro |-> TRUE, blind |-> FALSE]
    BY <1>3 DEF CheckCached, Acts
  <2>2. GuardsTypes' /\ MeasureInv' /\ KeptInv'
    BY <1>0, <2>1 DEF GuardsTypes, MeasureInv, KeptInv, UntilNextMonth
  <2>3. Seen(inForce, modeCache.mode, modeCache.until - ModeTicks, tick) =>
            Seen(inForce, modeCache.mode, tick - (ModeTicks - 1), tick)
    BY <2>1 DEF Seen, GuardsTypes
  <2>4. ASSUME NEW s \in Nat, UntilNextMonth(s, modeCache.mode, modeCache.until)
        PROVE  Seen(inForce, modeCache.mode, tick - (ModeTicks - 1), tick)
    <3>1. modeCache.mode \in inForce[tick]
      BY <2>4, ModeTypes DEF UntilNextMonth, HistoryInv, GuardsTypes
    <3> QED
      BY <3>1 DEF Seen, GuardsTypes
  <2>5. Seen(inForce, modeCache.mode, tick - (ModeTicks - 1), tick)
    BY <2>1, <2>3, <2>4 DEF KeptInv
  <2>6. DecidedInv'
    BY <1>0, <2>1, <2>5 DEF DecidedInv
  <2> QED
    BY <1>0, <2>2, <2>6
<1>4. CASE MeasureEnds
  <2>1. /\ measuring.st = "read" /\ measuring' = NotMeasuring
        /\ modeCache' = [until |-> CachedUntil(measuring), mode |-> measuring.mode]
        /\ decided' = [by |-> "mode", mode |-> measuring.mode, pro |-> TRUE, blind |-> FALSE]
    BY <1>4 DEF MeasureEnds, Acts
  <2>2. /\ Seen(inForce, measuring.mode, measuring.since, tick)
        /\ measuring.since <= tick /\ tick <= measuring.since + MeasureTicks /\ measuring.since \in Nat
        /\ measuring.computeOff /\ tick < NextMonth(measuring.since) => measuring.mode = "off" /\ setting.figures = "off"
    BY <2>1 DEF MeasureInv, GuardsTypes, Measurements
  <2>3. NextMonth(measuring.since) \in Nat
    BY <2>2 DEF NextMonth
  <2>4. GuardsTypes'
    BY <1>0, <2>1, <2>2, <2>3 DEF GuardsTypes, Measurements, CachedUntil, NotMeasuring, Modes
  <2>5. Seen(inForce, measuring.mode, tick - (ModeTicks - 1), tick)
    BY <2>2, GuardsAssumption DEF Seen, GuardsTypes
  <2>6. KeptInv'
    <3>1. CASE measuring.computeOff
      BY <1>0, <2>1, <2>2, <3>1 DEF KeptInv, UntilNextMonth, CachedUntil
    <3>2. CASE ~measuring.computeOff
      <4>1. modeCache'.until - ModeTicks = measuring.since
        BY <2>1, <2>2, <3>2 DEF CachedUntil
      <4> QED
        BY <1>0, <2>1, <2>2, <4>1 DEF KeptInv
    <3> QED
      BY <3>1, <3>2
  <2> QED
    BY <1>0, <2>1, <2>4, <2>5, <2>6 DEF MeasureInv, DecidedInv, NotMeasuring
<1>5. CASE MeasureFails
  BY <1>0, <1>5 DEF MeasureFails, Acts, NotMeasuring, Modes, Measurements, GuardsTypes, MeasureInv, KeptInv, DecidedInv, UntilNextMonth
<1> QED
  BY <1>1, <1>2, <1>3, <1>4, <1>5

LEMMA AccessSteps ==
    ASSUME GuardsInv, Browses \/ ChecksAccess
    PROVE  GuardsInv'
<1> USE GuardsConstants DEF GuardsInv
<1>1. PICK young \in BOOLEAN :
        /\ accessCache' = AccessFor(young)
        /\ \/ UNCHANGED decided
           \/ young /\ decided' = [by |-> "access", mode |-> "on", pro |-> AccessFor(young).pro, blind |-> FALSE]
  BY DEF Browses, ChecksAccess, UploadAccess
<1>2. UNCHANGED <<tick, setting, modeCache, measuring, inForce, proDuring>>
  BY DEF Browses, ChecksAccess
<1> DEFINE access == AccessFor(young)
<1>3. /\ access \in [at : Nat, none : BOOLEAN, pro : BOOLEAN]
      /\ access.at <= tick /\ access.pro \in proDuring[access.at]
      /\ young => access.at + FreshTicks >= tick
  BY DEF AccessFor, GuardsTypes, HistoryInv, AccessInv, Settings
<1> HIDE DEF access
<1>4. Seen(proDuring, access.pro, access.at, tick)
  BY <1>3 DEF Seen, GuardsTypes
<1>5. young => Seen(proDuring, access.pro, tick - FreshTicks, tick)
  BY <1>3 DEF Seen, GuardsTypes
<1>6. GuardsTypes'
  BY <1>1, <1>2, <1>3 DEF GuardsTypes, access
<1>7. AccessInv'
  BY <1>1, <1>2, <1>3 DEF AccessInv, access
<1>8. DecidedInv'
  BY <1>1, <1>2, <1>5 DEF DecidedInv, access
<1> QED
  BY <1>2, <1>6, <1>7, <1>8 DEF HistoryInv, MeasureInv, KeptInv, UntilNextMonth

LEMMA SettingSteps ==
    ASSUME GuardsInv, WriteModeOverride \/ FiguresChange \/ ProChanges
    PROVE  GuardsInv'
<1> USE GuardsConstants DEF GuardsInv
<1>1. PICK s \in Settings : Sets(s) /\ (setting.figures = "off" => s.figures = "off")
  <2>1. \A mode \in Modes : [setting EXCEPT !.override = mode] \in Settings
                            /\ [setting EXCEPT !.override = mode].figures = setting.figures
    BY DEF GuardsTypes, Settings
  <2>2. \A figures \in Modes : [setting EXCEPT !.figures = figures] \in Settings
    BY DEF GuardsTypes, Settings
  <2>3. [setting EXCEPT !.pro = ~@] \in Settings /\ [setting EXCEPT !.pro = ~@].figures = setting.figures
    BY DEF GuardsTypes, Settings
  <2> QED
    BY <2>1, <2>2, <2>3 DEF WriteModeOverride, FiguresChange, ProChanges
<1>2. /\ setting' = s
      /\ inForce' = [inForce EXCEPT ![tick] = @ \cup {ModeOf(s)}]
      /\ proDuring' = [proDuring EXCEPT ![tick] = @ \cup {s.pro}]
      /\ UNCHANGED <<tick, modeCache, measuring, accessCache, decided>>
  BY <1>1 DEF Sets
<1>3. GuardsTypes'
  BY <1>1, <1>2 DEF GuardsTypes
<1>4. HistoryInv'
  BY <1>2 DEF HistoryInv, GuardsTypes
<1>5. \A t \in 0 .. tick : inForce[t] \subseteq inForce'[t] /\ proDuring[t] \subseteq proDuring'[t]
  BY <1>2 DEF GuardsTypes
<1>6. tick \in Nat
  BY DEF GuardsTypes
<1>7. ASSUME NEW v, NEW from \in Int
      PROVE  /\ Seen(inForce, v, from, tick) => Seen(inForce', v, from, tick)
             /\ Seen(proDuring, v, from, tick) => Seen(proDuring', v, from, tick)
  BY <1>5, <1>6 DEF Seen
<1>8. MeasureInv'
  <2>1. measuring.st = "read" => measuring.since \in Int
    BY DEF GuardsTypes, Measurements
  <2> QED
    BY <1>1, <1>2, <1>7, <2>1 DEF MeasureInv
<1>9. KeptInv'
  <2>1. modeCache.until - ModeTicks \in Int
    BY DEF GuardsTypes
  <2> QED
    BY <1>1, <1>2, <1>7, <2>1 DEF KeptInv, UntilNextMonth
<1>10. AccessInv'
  BY <1>2, <1>5 DEF AccessInv, GuardsTypes
<1>11. DecidedInv'
  <2>1. tick - (ModeTicks - 1) \in Int /\ tick - FreshTicks \in Int
    BY <1>6
  <2> QED
    BY <1>2, <1>7, <2>1 DEF DecidedInv
<1> QED
  BY <1>3, <1>4, <1>8, <1>9, <1>10, <1>11

LEMMA TickSteps == ASSUME GuardsInv, Tick PROVE GuardsInv'
<1> USE GuardsConstants DEF GuardsInv
<1>1. /\ tick' = tick + 1
      /\ measuring.st = "none" \/ tick < measuring.since + MeasureTicks
      /\ setting' = [setting EXCEPT !.figures = IF (tick + 1) % MonthTicks = 0 THEN "on" ELSE @]
      /\ inForce' = [t \in 0 .. tick + 1 |-> IF t <= tick THEN inForce[t] ELSE {ModeOf(setting')}]
      /\ proDuring' = [t \in 0 .. tick + 1 |-> IF t <= tick THEN proDuring[t] ELSE {setting.pro}]
      /\ decided' = Undecided
      /\ UNCHANGED <<modeCache, measuring, accessCache>>
  BY DEF Tick
<1>2. tick \in Nat
  BY DEF GuardsTypes
<1>3. setting' \in Settings /\ setting'.pro = setting.pro
      /\ ((tick + 1) % MonthTicks # 0 => setting'.figures = setting.figures)
  BY <1>1 DEF GuardsTypes, Settings, Modes
<1>4. GuardsTypes'
  BY <1>1, <1>2, <1>3 DEF GuardsTypes
<1>5. HistoryInv'
  <2> DEFINE now == {ModeOf(setting')}
  <2>2. inForce' = [t \in 0 .. tick + 1 |-> IF t <= tick THEN inForce[t] ELSE now]
    BY <1>1, Zenon
  <2> HIDE DEF now
  <2>3. inForce'[tick + 1] = now
    BY <1>2, <2>2
  <2>4. proDuring'[tick + 1] = {setting.pro}
    BY <1>1, <1>2
  <2>1. inForce'[tick + 1] = {ModeOf(setting')} /\ proDuring'[tick + 1] = {setting.pro}
    BY <2>3, <2>4, Zenon DEF now
  <2> QED
    BY <1>1, <1>3, <2>1, Zenon DEF HistoryInv
<1>6. \A t \in 0 .. tick : inForce[t] \subseteq inForce'[t] /\ proDuring[t] \subseteq proDuring'[t]
  BY <1>1, <1>2
<1>7. ASSUME NEW v, NEW from \in Int
      PROVE  Seen(inForce, v, from, tick) => Seen(inForce', v, from, tick + 1)
  BY <1>2, <1>6, StillSeen
<1>8. MeasureInv'
  <2>1. measuring.since \in Nat
    BY DEF GuardsTypes, Measurements
  <2>2. CASE measuring.st = "none"
    BY <1>1, <2>2 DEF MeasureInv
  <2>3. CASE measuring.st # "none"
    <3>1. tick + 1 < NextMonth(measuring.since) => setting'.figures = setting.figures
      BY <1>2, <1>3, <2>1, <2>3, MonthIsNotOver DEF MeasureInv
    <3>2. measuring.since <= tick + 1 /\ tick + 1 <= measuring.since + MeasureTicks
      BY <1>1, <1>2, <2>1, <2>3 DEF MeasureInv
    <3>3. NextMonth(measuring.since) \in Int
      BY <2>1 DEF NextMonth
    <3>4. tick + 1 < NextMonth(measuring.since) => tick < NextMonth(measuring.since)
      BY <1>2, <3>3
    <3> QED
      BY <1>1, <1>7, <2>1, <3>1, <3>2, <3>4 DEF MeasureInv
  <2> QED
    BY <2>2, <2>3
<1>9. KeptInv'
  <2>1. modeCache.until \in Nat /\ modeCache.until - ModeTicks \in Int
    BY DEF GuardsTypes
  <2>2. ASSUME NEW s \in Nat, UntilNextMonth(s, modeCache.mode, modeCache.until), tick + 1 < modeCache.until
        PROVE  UntilNextMonth(s, modeCache.mode, modeCache.until)'
    BY <1>1, <1>2, <1>3, <2>2, MonthIsNotOver DEF UntilNextMonth
  <2>3. SUFFICES ASSUME tick + 1 < modeCache.until
                 PROVE  \/ Seen(inForce', modeCache.mode, modeCache.until - ModeTicks, tick + 1)
                        \/ \E s \in Nat : UntilNextMonth(s, modeCache.mode, modeCache.until)'
    BY <1>1 DEF KeptInv
  <2>4. tick < modeCache.until
    BY <1>2, <2>1, <2>3
  <2>5. CASE Seen(inForce, modeCache.mode, modeCache.until - ModeTicks, tick)
    BY <1>7, <2>1, <2>5
  <2>6. CASE \E s \in Nat : UntilNextMonth(s, modeCache.mode, modeCache.until)
    BY <2>2, <2>3, <2>6
  <2> QED
    BY <2>4, <2>5, <2>6 DEF KeptInv
<1>10. AccessInv'
  BY <1>1, <1>2, <1>6 DEF AccessInv, GuardsTypes
<1> QED
  BY <1>1, <1>4, <1>5, <1>8, <1>9, <1>10 DEF DecidedInv, Undecided

LEMMA GuardsSteps == ASSUME GuardsInv, GuardsNext PROVE GuardsInv'
BY MeasureSteps, AccessSteps, SettingSteps, TickSteps DEF GuardsNext

LEMMA GuardsHold == ASSUME GuardsInv PROVE DecisionsAreTimely
<1>1. tick \in Nat /\ DOMAIN inForce = 0 .. tick /\ DOMAIN proDuring = 0 .. tick
  BY DEF GuardsInv, GuardsTypes
<1>2. \A v : Seen(inForce, v, tick - (ModeTicks - 1), tick) => v \in During(inForce, ModeTicks - 1)
  BY <1>1, GuardsConstants DEF Seen, During
<1>3. \A v : Seen(proDuring, v, tick - FreshTicks, tick) => v \in During(proDuring, FreshTicks)
  BY <1>1, GuardsConstants DEF Seen, During
<1> QED
  BY <1>2, <1>3 DEF GuardsInv, DecidedInv, DecisionsAreTimely

-----------------------------------------------------------------------------
(* The shared cache (SourceCache).                                         *)

\* Only values the source no longer honours are found dead; the load under way
\* has asked the source since the last of them was.
CacheInv ==
    /\ generation \in Nat /\ generation >= 1
    /\ foundDead \subseteq 1 .. generation - 1
    /\ store \in 0 .. generation /\ store \notin foundDead
    /\ DOMAIN loads = Callers /\ DOMAIN callers = Callers
    /\ \A c \in Callers : loads[c].st = "answered" => loads[c].value \in 1 .. generation
    /\ \A c \in Callers : callers[c].st = "using" => callers[c].value \in 1 .. generation
    /\ \A c \in Callers : pending = c /\ loads[c].st = "answered" => loads[c].value \notin foundDead

LEMMA CacheStarts == ASSUME CacheInit PROVE CacheInv
BY DEF CacheInit, CacheInv, NotAsked, IdleCaller

LEMMA CacheSteps == ASSUME CacheInv, CacheNext PROVE CacheInv'
<1> USE CacheAssumption
<1>1. ASSUME NEW c \in Callers, Through(c) PROVE CacheInv'
  BY <1>1 DEF Through, CacheInv, Using, WaitingFor
<1>2. ASSUME NEW c \in Callers, SourceAnswers(c) PROVE CacheInv'
  BY <1>2 DEF SourceAnswers, CacheInv
<1>3. ASSUME NEW c \in Callers, Lands(c) PROVE CacheInv'
  BY <1>3 DEF Lands, CacheInv, Using, CurrentLoad, NotAsked
<1>4. ASSUME NEW c \in Callers, SharedLoadFails(c) PROVE CacheInv'
  BY <1>4 DEF SharedLoadFails, CacheInv, IdleCaller, NotAsked
<1>5. ASSUME NEW c \in Callers, Uses(c) PROVE CacheInv'
  <2>1. callers[c].value \in 1 .. generation /\ callers' = [callers EXCEPT ![c] = IdleCaller]
        /\ UNCHANGED <<generation, loads>>
    BY <1>5 DEF Uses, CacheInv
  <2>4. DOMAIN callers' = Callers /\ \A k \in Callers : callers'[k].st = "using" => callers'[k] = callers[k]
    BY <2>1 DEF CacheInv, IdleCaller
  <2>5. \A k \in Callers : callers'[k].st = "using" => callers'[k].value \in 1 .. generation
    BY <2>4 DEF CacheInv
  <2>2. CASE callers[c].value = generation
    <3>1. UNCHANGED <<generation, store, pending, loads, foundDead>>
      BY <1>5, <2>1, <2>2 DEF Uses
    <3> QED
      BY <2>4, <2>5, <3>1 DEF CacheInv
  <2>3. CASE callers[c].value # generation
    <3>1. store' = 0 /\ pending' = NoCacheLoad /\ foundDead' = foundDead \cup {callers[c].value}
      BY <1>5, <2>3 DEF Uses
    <3>4. generation \in Nat /\ foundDead \subseteq 1 .. generation - 1
      BY DEF CacheInv
    <3>5. callers[c].value \in 1 .. generation - 1
      BY <2>1, <2>3, <3>4
    <3>2. foundDead' \subseteq 1 .. generation - 1
      BY <3>1, <3>4, <3>5
    <3>3. store' \in 0 .. generation /\ store' \notin foundDead'
      BY <3>1, <3>2 DEF CacheInv
    <3> QED
      BY <2>1, <2>4, <2>5, <3>1, <3>2, <3>3, CacheAssumption DEF CacheInv
  <2> QED
    BY <2>2, <2>3
<1>6. CASE SourceMovesOn
  BY <1>6 DEF SourceMovesOn, CacheInv
<1>7. CASE EntryExpires
  BY <1>7 DEF EntryExpires, CacheInv
<1> QED
  BY <1>1, <1>2, <1>3, <1>4, <1>5, <1>6, <1>7 DEF CacheNext

LEMMA CacheHolds == ASSUME CacheInv PROVE DeadStaysOut
BY DEF CacheInv, DeadStaysOut

-----------------------------------------------------------------------------
(* The handshake of NSS (NssHandshake).                                    *)

Handshakes == [st : {"none", "asked", "opened"}, session : Nat]
SearchRows == [st : {"idle", "waiting", "posting"}, with : Nat, rejected : Nat]

\* What a search knows of the sessions, when `last` is the one kept.
SearchOK(row, last) ==
    /\ row \in SearchRows
    /\ row.rejected <= last
    /\ row.st = "posting" => row.with > row.rejected /\ row.with <= last

\* Sessions are numbered as they are opened: the one kept is older than the one
\* on its way and younger than whatever a search saw rejected; a handshake begun
\* since the last loss leads, or has led, to a session the portal knows.
SessionsInv ==
    /\ opened \in Nat /\ forgotten \in Nat /\ forgotten <= opened
    /\ cachedSession \in Nat /\ cachedSession <= opened /\ gets \in {0, 1}
    /\ pendingSession \in Handshakes
    /\ pendingSession.st = "none" => pendingSession = NoHandshake
    /\ pendingSession.st = "opened" => pendingSession.session = opened /\ cachedSession < opened
    /\ gets = 1 /\ pendingSession.st = "none" => cachedSession > forgotten /\ fresh
    /\ gets = 1 /\ pendingSession.st = "opened" => opened > forgotten

NssInv ==
    /\ SessionsInv
    /\ DOMAIN searches = Searches
    /\ \A s \in Searches : SearchOK(searches[s], cachedSession)

LEMMA HandshakeTypes ==
    /\ NoHandshake \in Handshakes /\ NoHandshake.st = "none"
    /\ [st |-> "asked", session |-> 0] \in Handshakes
    /\ IdleSearch \in SearchRows /\ IdleSearch.st = "idle" /\ IdleSearch.rejected = 0
BY DEF NoHandshake, Handshakes, IdleSearch, SearchRows

LEMMA NssStarts == ASSUME NssInit PROVE NssInv
BY HandshakeTypes DEF NssInit, NssInv, SessionsInv, SearchOK

\* A search takes the session kept or the handshake under way, or begins one.
LEMMA HandshakeSteps ==
    ASSUME NssInv, NEW s \in Searches, NEW stale \in Nat, stale <= cachedSession,
           stale = 0 \/ stale <= forgotten, Handshake(s, stale),
           UNCHANGED <<opened, forgotten, cachedSession, fresh, losses>>
    PROVE  NssInv'
<1>1. CASE Reusable(stale)
  <2> DEFINE row == [st |-> "posting", with |-> cachedSession, rejected |-> stale]
  <2>1. searches' = [searches EXCEPT ![s] = row] /\ UNCHANGED <<pendingSession, gets>>
    BY <1>1 DEF Handshake
  <2>2. SearchOK(row, cachedSession)
    BY <1>1 DEF Reusable, SearchOK, SearchRows, NssInv, SessionsInv
  <2> HIDE DEF row
  <2> QED
    BY <2>1, <2>2 DEF NssInv, SessionsInv
<1>2. CASE ~Reusable(stale)
  <2> DEFINE row == [st |-> "waiting", with |-> 0, rejected |-> stale]
  <2>1. /\ searches' = [searches EXCEPT ![s] = row]
        /\ IF pendingSession = NoHandshake
           THEN pendingSession' = [st |-> "asked", session |-> 0] /\ gets' = gets + 1
           ELSE UNCHANGED <<pendingSession, gets>>
    BY <1>2 DEF Handshake
  <2>2. SearchOK(row, cachedSession)
    BY DEF SearchOK, SearchRows, NssInv, SessionsInv
  <2> HIDE DEF row
  <2>3. DOMAIN searches' = Searches /\ \A t \in Searches : SearchOK(searches'[t], cachedSession)
    BY <2>1, <2>2 DEF NssInv
  <2>4. CASE pendingSession = NoHandshake
    <3>1. gets = 0
      BY <1>2, <2>4, HandshakeTypes DEF Reusable, NssInv, SessionsInv
    <3> QED
      BY <2>1, <2>3, <2>4, <3>1, HandshakeTypes DEF NssInv, SessionsInv
  <2>5. CASE pendingSession # NoHandshake
    BY <2>1, <2>3, <2>5 DEF NssInv, SessionsInv
  <2> QED
    BY <2>4, <2>5
<1> QED
  BY <1>1, <1>2

LEMMA NssSteps == ASSUME NssInv, NssNext PROVE NssInv'
<1>0. opened \in Nat /\ forgotten \in Nat /\ cachedSession \in Nat /\ pendingSession \in Handshakes
  BY DEF NssInv, SessionsInv
<1>1. ASSUME NEW s \in Searches, SearchStarts(s) PROVE NssInv'
  BY <1>0, <1>1, HandshakeSteps DEF SearchStarts
<1>2. ASSUME NEW s \in Searches, Posted(s) PROVE NssInv'
  <2>0. SearchOK(searches[s], cachedSession) /\ UNCHANGED <<opened, forgotten, cachedSession, fresh, losses>>
    BY <1>2 DEF NssInv, Posted
  <2>1. CASE searches[s].with > forgotten \/ searches[s].rejected # 0
    <3>1. searches' = [searches EXCEPT ![s] = IdleSearch] /\ UNCHANGED <<pendingSession, gets>>
      BY <1>2, <2>1 DEF Posted
    <3> QED
      BY <1>0, <2>0, <3>1, HandshakeTypes DEF NssInv, SessionsInv, SearchOK
  <2>2. CASE ~(searches[s].with > forgotten \/ searches[s].rejected # 0)
    <3>1. searches[s].with \in Nat /\ searches[s].with <= cachedSession /\ searches[s].with <= forgotten
      BY <1>0, <1>2, <2>0, <2>2 DEF Posted, SearchOK, SearchRows
    <3>2. Handshake(s, searches[s].with)
      BY <1>2, <2>2 DEF Posted
    <3> QED
      BY <2>0, <3>1, <3>2, HandshakeSteps
  <2> QED
    BY <2>1, <2>2
<1>3. CASE PortalOpens
  <2>1. [st |-> "opened", session |-> opened + 1] \in Handshakes
    BY <1>0 DEF Handshakes
  <2> QED
    BY <1>0, <1>3, <2>1 DEF PortalOpens, NssInv, SessionsInv
<1>4. CASE HandshakeLands
  <2> DEFINE row(s) == [searches[s] EXCEPT !.st = "posting", !.with = pendingSession.session]
  <2>1. /\ pendingSession.st = "opened" /\ cachedSession' = opened /\ cachedSession < opened /\ fresh' = TRUE
        /\ pendingSession' = NoHandshake /\ pendingSession.session = opened
        /\ searches' = [s \in Searches |-> IF searches[s].st = "waiting" THEN row(s) ELSE searches[s]]
        /\ UNCHANGED <<opened, forgotten, losses, gets>>
    BY <1>4 DEF HandshakeLands, NssInv, SessionsInv
  <2>2. ASSUME NEW s \in Searches PROVE SearchOK(row(s), opened) /\ SearchOK(searches[s], opened)
    <3>1. SearchOK(searches[s], cachedSession) /\ searches[s] \in SearchRows
      BY DEF NssInv, SearchOK
    <3>2. row(s) \in SearchRows /\ row(s).with = opened /\ row(s).rejected = searches[s].rejected
      BY <1>0, <2>1, <3>1 DEF SearchRows
    <3>3. searches[s].rejected \in Nat /\ searches[s].with \in Nat
      BY <3>1 DEF SearchRows
    <3> HIDE DEF row
    <3>4. SearchOK(row(s), opened)
      BY <1>0, <2>1, <3>1, <3>2, <3>3 DEF SearchOK
    <3>5. SearchOK(searches[s], opened)
      BY <1>0, <2>1, <3>1, <3>3 DEF SearchOK
    <3> QED
      BY <3>4, <3>5
  <2> HIDE DEF row
  <2>3. DOMAIN searches' = Searches /\ \A s \in Searches : SearchOK(searches'[s], cachedSession')
    BY <2>1, <2>2
  <2>4. SessionsInv'
    BY <1>0, <2>1, HandshakeTypes DEF NssInv, SessionsInv
  <2> QED
    BY <2>3, <2>4 DEF NssInv
<1>5. CASE HandshakeFails
  <2>1. /\ gets' = 0 /\ pendingSession' = NoHandshake
        /\ searches' = [s \in Searches |-> IF searches[s].st = "waiting" THEN IdleSearch ELSE searches[s]]
        /\ UNCHANGED <<opened, forgotten, cachedSession, fresh>>
    BY <1>5 DEF HandshakeFails, Lost
  <2>2. SearchOK(IdleSearch, cachedSession)
    BY <1>0, HandshakeTypes DEF SearchOK
  <2> QED
    BY <2>1, <2>2, HandshakeTypes DEF NssInv, SessionsInv
<1>6. CASE PortalForgets
  BY <1>6 DEF PortalForgets, Lost, NssInv, SessionsInv
<1>7. CASE SessionAges
  BY <1>7 DEF SessionAges, Lost, NssInv, SessionsInv
<1> QED
  BY <1>1, <1>2, <1>3, <1>4, <1>5, <1>6, <1>7 DEF NssNext

LEMMA NssHolds == ASSUME NssInv PROVE ExpiryCostsOneHandshake
BY DEF NssInv, SessionsInv, SearchOK, ExpiryCostsOneHandshake

-----------------------------------------------------------------------------
(* The slots of NS (NsGate).                                               *)

GateRows == [st : {"idle", "queued", "admitted", "sent", "pausing", "answered", "failed"}, attempt : Nat]
Queued == {r \in Requests : requests[r].st = "queued"}

\* The line holds those who are queued, each once; the slots that are taken are
\* those of the requests with one.
GateInv ==
    /\ requests \in [Requests -> GateRows]
    /\ nsWaiting \in Seq(Requests) /\ Once(nsWaiting) /\ Standing(nsWaiting) = Queued
    /\ IsFiniteSet(WithSlot) /\ nsInFlight = Cardinality(WithSlot)
    /\ nsInFlight \in Nat /\ nsInFlight <= NsConcurrency
    /\ nsWaiting # <<>> => nsInFlight = NsConcurrency

LEMMA GateBegins == ASSUME GateInit PROVE GateInv
<1>1. requests \in [Requests -> GateRows] /\ nsWaiting = <<>> /\ nsInFlight = 0
  BY DEF GateInit, GateRows
<1>2. WithSlot = {} /\ Queued = {}
  BY DEF GateInit, WithSlot, Queued
<1>3. <<>> \in Seq(Requests) /\ Once(<<>>) /\ Standing(<<>>) = {}
  BY DEF Once, Standing
<1> QED
  BY <1>1, <1>2, <1>3, FS_EmptySet, GateAssumption DEF GateInv

\* One request changes its stage, and nobody else's.
LEMMA OneMoves ==
    ASSUME GateInv, NEW r \in Requests, NEW row \in GateRows, requests' = [requests EXCEPT ![r] = row]
    PROVE  /\ requests' \in [Requests -> GateRows]
           /\ row.st = "queued" => Queued' = Queued \cup {r}
           /\ row.st # "queued" => Queued' = Queued \ {r}
           /\ row.st # "queued" /\ r \notin Queued => Queued' = Queued
           /\ row.st \in {"admitted", "sent"} => WithSlot' = WithSlot \cup {r}
           /\ row.st \in {"admitted", "sent"} /\ r \in WithSlot => WithSlot' = WithSlot
           /\ row.st \notin {"admitted", "sent"} /\ r \notin WithSlot => WithSlot' = WithSlot
<1>1. requests \in [Requests -> GateRows] /\ requests'[r] = row /\ \A x \in Requests \ {r} : requests'[x] = requests[x]
      /\ requests' \in [Requests -> GateRows]
  BY DEF GateInv
<1>2. row.st = "queued" => Queued' = Queued \cup {r}
  BY <1>1 DEF Queued
<1>3. row.st # "queued" => Queued' = Queued \ {r}
  BY <1>1 DEF Queued
<1>4. row.st \in {"admitted", "sent"} => WithSlot' = WithSlot \cup {r}
  BY <1>1 DEF WithSlot
<1>5. row.st \notin {"admitted", "sent"} /\ r \notin WithSlot => WithSlot' = WithSlot
  BY <1>1 DEF WithSlot
<1>6. (r \notin Queued => Queued \ {r} = Queued) /\ (r \in WithSlot => WithSlot \cup {r} = WithSlot)
  OBVIOUS
<1> QED
  BY <1>1, <1>2, <1>3, <1>4, <1>5, <1>6

\* A slot given up passes to the head of the line, or is free.
LEMMA SlotPasses ==
    ASSUME GateInv, NEW r \in Requests, NEW st \in {"answered", "failed", "pausing"},
           requests[r].st \in {"admitted", "sent"}, Release(r, st)
    PROVE  GateInv'
<1> DEFINE ended == [requests EXCEPT ![r].st = st]
<1>1. requests \in [Requests -> GateRows] /\ IsFiniteSet(WithSlot) /\ nsInFlight = Cardinality(WithSlot) /\ nsInFlight \in Nat
  BY DEF GateInv
<1>2. r \in WithSlot /\ r \notin Queued
  BY DEF WithSlot, Queued
<1>3. /\ ended \in [Requests -> GateRows] /\ ended[r].st = st
      /\ \A x \in Requests \ {r} : ended[x] = requests[x]
  BY <1>1 DEF GateRows
<1>4. IsFiniteSet(WithSlot \ {r}) /\ Cardinality(WithSlot \ {r}) = nsInFlight - 1
  BY <1>1, <1>2, FS_RemoveElement
<1>5. CASE nsWaiting # <<>>
  <2> DEFINE next == Head(nsWaiting)
  <2>1. /\ nsWaiting' = Tail(nsWaiting) /\ nsInFlight' = nsInFlight
        /\ requests' = [ended EXCEPT ![next].st = "admitted"]
    BY <1>5 DEF Release
  <2>2. /\ next \in Requests /\ next \in Queued
        /\ nsWaiting' \in Seq(Requests) /\ Once(nsWaiting') /\ Standing(nsWaiting') = Queued \ {next}
    BY <1>5, <2>1, FrontLeaves DEF GateInv
  <2> HIDE DEF ended, next
  <2>3. next # r /\ next \notin WithSlot
    BY <1>2, <2>2 DEF Queued, WithSlot
  <2>4. /\ requests' \in [Requests -> GateRows] /\ requests'[next].st = "admitted" /\ requests'[r].st = st
        /\ \A x \in Requests \ {r, next} : requests'[x] = requests[x]
    BY <1>3, <2>1, <2>2, <2>3 DEF GateRows
  <2>5. Queued' = Queued \ {next} /\ WithSlot' = (WithSlot \ {r}) \cup {next}
    BY <1>2, <2>2, <2>3, <2>4 DEF Queued, WithSlot
  <2>6. IsFiniteSet(WithSlot') /\ Cardinality(WithSlot') = nsInFlight
    <3> DEFINE rest == WithSlot \ {r}
    <3>1. IsFiniteSet(rest) /\ Cardinality(rest) = nsInFlight - 1 /\ next \notin rest /\ WithSlot' = rest \cup {next}
      BY <1>4, <2>3, <2>5
    <3> HIDE DEF rest
    <3>2. IsFiniteSet(rest \cup {next}) /\ Cardinality(rest \cup {next}) = Cardinality(rest) + 1
      BY <3>1, FS_AddElement
    <3> QED
      BY <1>1, <3>1, <3>2
  <2> QED
    BY <1>5, <2>1, <2>2, <2>4, <2>5, <2>6 DEF GateInv
<1>6. CASE nsWaiting = <<>>
  <2>1. nsInFlight' = nsInFlight - 1 /\ requests' = ended /\ nsWaiting' = nsWaiting
    BY <1>6 DEF Release
  <2> HIDE DEF ended
  <2>2. Queued' = Queued /\ WithSlot' = WithSlot \ {r}
    BY <1>2, <1>3, <2>1 DEF Queued, WithSlot
  <2>3. nsInFlight' \in Nat /\ nsInFlight' <= NsConcurrency
    BY <1>1, <1>2, <1>4, <2>1, FS_CardinalityType, GateAssumption DEF GateInv
  <2> QED
    BY <1>3, <1>4, <1>6, <2>1, <2>2, <2>3 DEF GateInv
<1> QED
  BY <1>5, <1>6

LEMMA GateSteps == ASSUME GateInv, GateNext PROVE GateInv'
<1>0. requests \in [Requests -> GateRows] /\ nsInFlight \in Nat /\ NsConcurrency \in Nat /\ IsFiniteSet(WithSlot)
  BY GateAssumption DEF GateInv
<1>1. ASSUME NEW r \in Requests, Enters(r) PROVE GateInv'
  <2>1. PICK n \in {1, 2} :
            IF nsInFlight < NsConcurrency
            THEN /\ nsInFlight' = nsInFlight + 1
                 /\ requests' = [requests EXCEPT ![r] = [st |-> "admitted", attempt |-> n]]
                 /\ UNCHANGED nsWaiting
            ELSE /\ nsWaiting' = Append(nsWaiting, r)
                 /\ requests' = [requests EXCEPT ![r] = [st |-> "queued", attempt |-> n]]
                 /\ UNCHANGED nsInFlight
    BY <1>1 DEF Enters
  <2>2. r \notin WithSlot /\ r \notin Queued
    BY <1>1 DEF Enters, WithSlot, Queued
  <2> DEFINE admitted == [st |-> "admitted", attempt |-> n]
             queued == [st |-> "queued", attempt |-> n]
  <2>3. /\ admitted \in GateRows /\ admitted.st = "admitted"
        /\ queued \in GateRows /\ queued.st = "queued"
    BY DEF GateRows
  <2> HIDE DEF admitted, queued
  <2>4. CASE nsInFlight < NsConcurrency
    <3>0. requests' = [requests EXCEPT ![r] = admitted]
      BY <2>1, <2>4 DEF admitted
    <3>1. requests' \in [Requests -> GateRows] /\ WithSlot' = WithSlot \cup {r} /\ Queued' = Queued
      BY <2>2, <2>3, <3>0, OneMoves
    <3>2. IsFiniteSet(WithSlot') /\ Cardinality(WithSlot') = nsInFlight + 1
      BY <1>0, <2>2, <3>1, FS_AddElement DEF GateInv
    <3> QED
      BY <1>0, <2>1, <2>4, <3>1, <3>2 DEF GateInv
  <2>5. CASE ~(nsInFlight < NsConcurrency)
    <3>0. requests' = [requests EXCEPT ![r] = queued]
      BY <2>1, <2>5 DEF queued
    <3>1. requests' \in [Requests -> GateRows] /\ Queued' = Queued \cup {r} /\ WithSlot' = WithSlot
      BY <2>2, <2>3, <3>0, OneMoves
    <3>2. nsWaiting' \in Seq(Requests) /\ Once(nsWaiting') /\ Standing(nsWaiting') = Queued \cup {r}
      <4>1. nsWaiting \in Seq(Requests) /\ Once(nsWaiting) /\ Standing(nsWaiting) = Queued
        BY DEF GateInv
      <4>2. nsWaiting' = Append(nsWaiting, r)
        BY <2>1, <2>5
      <4> QED
        BY <2>2, <4>1, <4>2, JoinsLine
    <3> QED
      BY <1>0, <2>1, <2>5, <3>1, <3>2 DEF GateInv
  <2> QED
    BY <2>4, <2>5
<1>2. ASSUME NEW r \in Requests, LeavesLine(r) PROVE GateInv'
  <2> DEFINE k == CHOOSE i \in DOMAIN nsWaiting : nsWaiting[i] = r
  <2>1. r \in Queued /\ r \notin WithSlot
    BY <1>2 DEF LeavesLine, Queued, WithSlot
  <2>2. k \in DOMAIN nsWaiting /\ nsWaiting[k] = r
    BY <2>1 DEF GateInv, Standing
  <2>3. nsWaiting' = SubSeq(nsWaiting, 1, k - 1) \o SubSeq(nsWaiting, k + 1, Len(nsWaiting))
    BY <1>2 DEF LeavesLine, Released, RemoveAt
  <2> HIDE DEF k
  <2>4. nsWaiting' \in Seq(Requests) /\ Once(nsWaiting') /\ Standing(nsWaiting') = Queued \ {r}
    BY <2>2, <2>3, SpliceLine DEF GateInv
  <2> DEFINE row == [requests[r] EXCEPT !.st = "failed"]
  <2>5. row \in GateRows /\ requests' = [requests EXCEPT ![r] = row] /\ row.st = "failed" /\ UNCHANGED nsInFlight
    BY <1>0, <1>2 DEF LeavesLine, GateRows
  <2> HIDE DEF row
  <2>6. requests' \in [Requests -> GateRows] /\ Queued' = Queued \ {r} /\ WithSlot' = WithSlot
    BY <2>1, <2>5, OneMoves
  <2>7. nsWaiting # <<>>
    BY <2>2
  <2> QED
    BY <1>0, <2>4, <2>5, <2>6, <2>7 DEF GateInv
<1>3. ASSUME NEW r \in Requests, RequestSent(r) PROVE GateInv'
  <2>1. r \in WithSlot /\ r \notin Queued
    BY <1>3 DEF RequestSent, Queued, WithSlot
  <2> DEFINE row == [requests[r] EXCEPT !.st = "sent"]
  <2>2. row \in GateRows /\ requests' = [requests EXCEPT ![r] = row] /\ row.st = "sent" /\ UNCHANGED <<nsInFlight, nsWaiting>>
    BY <1>0, <1>3 DEF RequestSent, GateRows
  <2> HIDE DEF row
  <2>3. requests' \in [Requests -> GateRows] /\ Queued' = Queued /\ WithSlot' = WithSlot
    BY <2>1, <2>2, OneMoves
  <2> QED
    BY <2>2, <2>3 DEF GateInv
<1>4. ASSUME NEW r \in Requests, GivesSlotBack(r) PROVE GateInv'
  BY <1>4, SlotPasses DEF GivesSlotBack, TooLate
<1>5. ASSUME NEW r \in Requests, RequestEnds(r) PROVE GateInv'
  BY <1>5, SlotPasses DEF RequestEnds
<1>6. ASSUME NEW r \in Requests, NextCall(r) PROVE GateInv'
  <2>1. r \notin WithSlot /\ r \notin Queued
    BY <1>6 DEF NextCall, Queued, WithSlot
  <2> DEFINE row == [st |-> "idle", attempt |-> 1]
  <2>2. row \in GateRows /\ row.st = "idle" /\ requests' = [requests EXCEPT ![r] = row]
    BY <1>6 DEF GateRows, NextCall
  <2> HIDE DEF row
  <2>3. requests' \in [Requests -> GateRows] /\ Queued' = Queued /\ WithSlot' = WithSlot
    BY <2>1, <2>2, OneMoves
  <2> QED
    BY <1>6, <2>3 DEF NextCall, GateInv
<1>7. ASSUME NEW r \in Requests, TimePasses(r) PROVE GateInv'
  BY <1>7 DEF TimePasses, GateInv, Queued, WithSlot
<1> QED
  BY <1>1, <1>2, <1>3, <1>4, <1>5, <1>6, <1>7 DEF GateNext

LEMMA GateHolds == ASSUME GateInv PROVE SlotsNeverLeak
<1>1. ToSet(nsWaiting) = Standing(nsWaiting)
  BY DEF ToSet, Standing
<1> QED
  BY <1>1 DEF GateInv, SlotsNeverLeak, Queued

-----------------------------------------------------------------------------
(* The channels of e-Sbirka (EsbirkaActs).                                 *)

Fates == {"there", "missing", "rejected", "breaks", "oversized"}

FetchRows ==
    [asked : [post : BOOLEAN, fate : Fates],
     at : {"idle", "keyed", "gateway", "done"},
     got : {"nothing"} \cup Fates \cup Outages,
     tried : SUBSET Channels]

FateIsItsOwn(row) ==
    /\ row \in FetchRows
    /\ row.at = "done" =>
          /\ row.got \notin Outages => row.got = row.asked.fate
          /\ row.got \notin {"there", "missing"} => "gateway" \in row.tried

FetchInv ==
    /\ keyedDown \in Nat /\ (keyedDown > 0 => blamed)
    /\ DOMAIN fetching = Fetches
    /\ \A r \in Fetches : FateIsItsOwn(fetching[r])

LEMMA FetchTypes ==
    /\ IdleFetch \in FetchRows /\ IdleFetch.at = "idle"
    /\ \A asked \in Asked, at \in {"keyed", "gateway"} :
          [asked |-> asked, at |-> at, got |-> "nothing", tried |-> {}] \in FetchRows
<1>1. \A asked \in Asked : asked \in [post : BOOLEAN, fate : Fates]
  <2>1. ASSUME NEW asked \in Asked
        PROVE  \E post \in BOOLEAN, f \in Fates : asked = [post |-> post, fate |-> f]
    BY <2>1, Zenon DEF Asked, Fates
  <2> QED
    BY <2>1
<1>2. ASSUME NEW asked \in Asked, NEW at \in {"keyed", "gateway"}
      PROVE  [asked |-> asked, at |-> at, got |-> "nothing", tried |-> {}] \in FetchRows
  BY <1>1 DEF FetchRows
<1>3. IdleFetch \in FetchRows /\ IdleFetch.at = "idle"
  BY DEF IdleFetch, FetchRows, Fates
<1> QED
  BY <1>2, <1>3

LEMMA ActsStarts == ASSUME ActsInit PROVE FetchInv
<1>1. fetching = [r \in Fetches |-> IdleFetch] /\ keyedDown = 0
  BY DEF ActsInit, FetchRests
<1>2. FateIsItsOwn(IdleFetch)
  BY FetchTypes DEF FateIsItsOwn
<1> QED
  BY <1>1, <1>2 DEF FetchInv

\* A host answers with the request's fate or with a failure of its own; the
\* channel is closed for none of the answers about the request.
LEMMA WhatAHostAnswers ==
    ASSUME NEW row \in FetchRows, NEW host \in Channels, NEW got \in HostAnswers(host, row.asked)
    PROVE  /\ got \in Fates \cup Outages
           /\ got \notin Outages => got = row.asked.fate
           /\ channelFailed(row.asked, got) => ~AboutTheRequest(row.asked, got)
BY DEF HostAnswers, FetchRows, Fates, Hiccups, Outages, channelFailed, AboutTheRequest

LEMMA ActsSteps == ASSUME FetchInv, ActsNext PROVE FetchInv'
<1>0. DownTime \in Nat
  BY ActsAssumption
<1>1. ASSUME NEW r \in Fetches, FetchStarts(r) PROVE FetchInv'
  <2>1. PICK asked \in Asked, at \in {"keyed", "gateway"} :
            fetching' = [fetching EXCEPT ![r] = [asked |-> asked, at |-> at, got |-> "nothing", tried |-> {}]]
    BY <1>1 DEF FetchStarts
  <2> DEFINE row == [asked |-> asked, at |-> at, got |-> "nothing", tried |-> {}]
  <2>2. FateIsItsOwn(row)
    BY FetchTypes DEF FateIsItsOwn
  <2> HIDE DEF row
  <2> QED
    BY <1>1, <2>1, <2>2 DEF FetchStarts, FetchInv, row
<1>2. ASSUME NEW r \in Fetches, KeyedAnswers(r) PROVE FetchInv'
  <2>1. PICK got \in HostAnswers("keyed", fetching[r].asked) :
            /\ fetching' = [fetching EXCEPT ![r].at = IF Terminal(got) THEN "done" ELSE "gateway",
                                            ![r].got = got, ![r].tried = {"keyed"}]
            /\ keyedDown' = IF channelFailed(fetching[r].asked, got) THEN DownTime ELSE keyedDown
            /\ blamed' = (blamed \/ ~AboutTheRequest(fetching[r].asked, got))
    BY <1>2 DEF KeyedAnswers
  <2>2. fetching[r] \in FetchRows /\ DOMAIN fetching = Fetches
    BY DEF FetchInv, FateIsItsOwn
  <2> DEFINE row == [fetching[r] EXCEPT !.at = IF Terminal(got) THEN "done" ELSE "gateway", !.got = got, !.tried = {"keyed"}]
  <2>3. fetching' = [fetching EXCEPT ![r] = row]
    BY <2>1, <2>2
  <2>4. FateIsItsOwn(row)
    BY <2>2, WhatAHostAnswers DEF FateIsItsOwn, FetchRows, Terminal, Channels, Fates, Outages, Hiccups
  <2>5. channelFailed(fetching[r].asked, got) => blamed'
    BY <2>1, <2>2, WhatAHostAnswers DEF Channels
  <2>6. blamed => blamed'
    BY <2>1
  <2> HIDE DEF row
  <2> QED
    BY <1>0, <2>1, <2>2, <2>3, <2>4, <2>5, <2>6 DEF FetchInv
<1>3. ASSUME NEW r \in Fetches, GatewayAnswers(r) PROVE FetchInv'
  <2>1. PICK got \in HostAnswers("gateway", fetching[r].asked) :
            fetching' = [fetching EXCEPT ![r].at = "done", ![r].got = got, ![r].tried = @ \cup {"gateway"}]
    BY <1>3 DEF GatewayAnswers
  <2>2. fetching[r] \in FetchRows /\ DOMAIN fetching = Fetches
    BY DEF FetchInv, FateIsItsOwn
  <2> DEFINE row == [fetching[r] EXCEPT !.at = "done", !.got = got, !.tried = fetching[r].tried \cup {"gateway"}]
  <2>3. fetching' = [fetching EXCEPT ![r] = row]
    BY <2>1, <2>2
  <2>4. FateIsItsOwn(row)
    BY <2>2, WhatAHostAnswers DEF FateIsItsOwn, FetchRows, Channels, Fates, Outages, Hiccups
  <2> HIDE DEF row
  <2> QED
    BY <1>3, <2>2, <2>3, <2>4 DEF FetchInv, GatewayAnswers
<1>4. ASSUME NEW r \in Fetches, FetchSettles(r) PROVE FetchInv'
  BY <1>4, FetchTypes DEF FetchSettles, FetchInv, FateIsItsOwn
<1>5. ASSUME NEW host \in Channels, HostChanges(host) PROVE FetchInv'
  BY <1>5 DEF HostChanges, FetchInv
<1>6. CASE KeyedTicks
  <2>1. keyedDown \in Nat /\ keyedDown > 0 /\ keyedDown' = keyedDown - 1 /\ blamed /\ UNCHANGED fetching
    BY <1>6 DEF KeyedTicks, FetchInv
  <2>2. keyedDown > 1 => blamed'
    BY <1>6, <2>1 DEF KeyedTicks
  <2> QED
    BY <2>1, <2>2 DEF FetchInv
<1>7. CASE ReaderReads \/ ReaderAsksPast
  BY <1>7 DEF ReaderReads, ReaderAsksPast, FetchInv
<1> QED
  BY <1>1, <1>2, <1>3, <1>4, <1>5, <1>6, <1>7 DEF ActsNext

LEMMA ActsHold == ASSUME FetchInv PROVE OneRequestsFateIsItsOwn
BY DEF FetchInv, FateIsItsOwn, OneRequestsFateIsItsOwn

-----------------------------------------------------------------------------
(* NALUS's kept session (CourtSessions).  A session that a search has just *)
(* opened is read by nobody else before it is kept, and so still stands on *)
(* its first page.                                                         *)

Replied == [page : Int, total : Int, hits : BOOLEAN]
KeptRows == [session : Nat, total : Int]
SessionRows == [alive : BOOLEAN, last : Int]
CourtRows == [at : {"idle", "reuse", "form", "results", "done"}, page : Nat, kept : KeptRows, own : Nat, shown : Replied]

PageAsked(row) ==
    /\ row.shown.hits => row.shown.page = row.page
    /\ row.shown.hits <=> row.page * PageSize < row.shown.total

\* A session that a search has opened and not read yet would still serve its
\* first page for a request without a number.
CourtOK(row, open) ==
    /\ row \in CourtRows
    /\ row.at = "reuse" => row.kept.session \in 1 .. Len(open)
    /\ row.at = "results" => row.own \in 1 .. Len(open) /\ open[row.own].last = 0
    /\ row.at = "done" => PageAsked(row)

\* No two calls read the same session before it is kept.
Apart(row, other) ==
    row.at = "results" =>
        /\ other.at = "results" => other.own # row.own
        /\ other.at = "reuse" => other.kept.session # row.own

OwnIsOwn(row, found) == row.at = "results" => found.session # row.own

NalusInv ==
    /\ rows \in Nat
    /\ sessions \in Seq(SessionRows)
    /\ keptSession \in KeptRows /\ (keptSession # NoKept => keptSession.session \in 1 .. Len(sessions))
    /\ DOMAIN calls = CourtCalls
    /\ \A c \in CourtCalls : CourtOK(calls[c], sessions) /\ OwnIsOwn(calls[c], keptSession)
    /\ \A c, d \in CourtCalls : c # d => Apart(calls[c], calls[d])

LEMMA CourtConstants ==
    /\ PageSize \in Nat \ {0} /\ MaxRows \in Nat
    /\ Pages \subseteq Nat
    /\ \A p \in Int : p * PageSize \in Int
<1>1. PageSize \in Nat \ {0} /\ MaxRows \in Nat
  BY SessionsAssumption
<1>2. (MaxRows - 1) \div PageSize \in Int
  BY <1>1
<1> QED
  BY <1>1, <1>2 DEF Pages

LEMMA CourtTypes ==
    /\ NoKept \in KeptRows /\ NoKept.session = 0
    /\ IdleCall \in CourtRows /\ IdleCall.at = "idle" /\ IdleCall.kept = NoKept
    /\ Unreadable \in Replied /\ EmptyBanner \in Replied /\ ~Unreadable.hits /\ ~EmptyBanner.hits
    /\ Unreadable.total = -1 /\ EmptyBanner.total = 0
BY DEF NoKept, KeptRows, IdleCall, CourtRows, Unreadable, EmptyBanner, Replied

LEMMA RenderedTypes ==
    ASSUME NEW p \in Int, rows \in Nat
    PROVE  /\ Rendered(p) \in Replied /\ Rendered(p).page = p /\ Rendered(p).total = rows
           /\ Rendered(p).hits <=> p * PageSize < rows
<1> DEFINE more == p * PageSize < rows
<1>1. more \in BOOLEAN /\ Rendered(p) = [page |-> p, total |-> rows, hits |-> more]
  BY DEF Rendered
<1>2. more <=> p * PageSize < rows
  OBVIOUS
<1> HIDE DEF more
<1> QED
  BY <1>1, <1>2 DEF Replied

LEMMA NalusStarts == ASSUME CourtInit PROVE NalusInv
<1>1. rows \in Nat /\ sessions = <<>> /\ keptSession = NoKept /\ calls = [c \in CourtCalls |-> IdleCall]
  BY CourtConstants DEF CourtInit
<1>2. CourtOK(IdleCall, <<>>) /\ OwnIsOwn(IdleCall, NoKept) /\ Apart(IdleCall, IdleCall)
  BY CourtTypes DEF CourtOK, OwnIsOwn, Apart
<1> QED
  BY <1>1, <1>2, CourtTypes DEF NalusInv

\* One call moves on to `row`; the sessions it leaves behind and the session kept
\* fit it and everybody else.
LEMMA OneCallMoves ==
    ASSUME NalusInv, NEW c \in CourtCalls, NEW row, calls' = [calls EXCEPT ![c] = row], rows' \in Nat,
           sessions' \in Seq(SessionRows), Len(sessions') >= Len(sessions),
           \A s \in 1 .. Len(sessions) :
              sessions'[s] = sessions[s] \/ \A d \in CourtCalls \ {c} : calls[d].at = "results" => calls[d].own # s,
           keptSession' \in KeptRows, keptSession' # NoKept => keptSession'.session \in 1 .. Len(sessions'),
           CourtOK(row, sessions'), OwnIsOwn(row, keptSession'),
           \A d \in CourtCalls \ {c} : OwnIsOwn(calls[d], keptSession') /\ Apart(row, calls[d]) /\ Apart(calls[d], row)
    PROVE  NalusInv'
<1>1. Len(sessions) \in Nat /\ Len(sessions') \in Nat
  BY DEF NalusInv
<1>2. calls'[c] = row /\ DOMAIN calls' = CourtCalls /\ \A d \in CourtCalls \ {c} : calls'[d] = calls[d]
  BY DEF NalusInv
<1>3. ASSUME NEW d \in CourtCalls \ {c} PROVE CourtOK(calls[d], sessions')
  BY <1>1 DEF NalusInv, CourtOK
<1>4. \A d \in CourtCalls : CourtOK(calls'[d], sessions') /\ OwnIsOwn(calls'[d], keptSession')
  BY <1>2, <1>3
<1>5. \A d, e \in CourtCalls : d # e => Apart(calls'[d], calls'[e])
  BY <1>2 DEF NalusInv
<1> QED
  BY <1>2, <1>4, <1>5 DEF NalusInv

\* What a read of a session gives, and what it leaves of the sessions.
LEMMA ReplyTypes ==
    ASSUME NalusInv, NEW reply \in AnyReply
    PROVE  /\ reply \in Replied
           /\ reply.hits => reply.page \in Int /\ reply.page * PageSize < reply.total
BY CourtConstants, CourtTypes, RenderedTypes DEF AnyReply, NalusInv

LEMMA RepliesKeep ==
    ASSUME NalusInv, NEW s \in 1 .. Len(sessions), NEW page \in Nat, NEW reply, Replies(s, page, reply)
    PROVE  /\ sessions' \in Seq(SessionRows) /\ Len(sessions') = Len(sessions)
           /\ \A t \in 1 .. Len(sessions) \ {s} : sessions'[t] = sessions[t]
<1>1. sessions \in Seq(SessionRows) /\ sessions[s] \in SessionRows /\ Len(sessions) \in Nat
  BY DEF NalusInv
<1>2. CASE sessions[s].alive
  <2>1. PICK given \in Served(s, page) : sessions' = [sessions EXCEPT ![s].last = given]
    BY <1>2 DEF Replies
  <2>2. given \in Int
    BY <1>1 DEF Served, SessionRows
  <2>3. [sessions[s] EXCEPT !.last = given] \in SessionRows
    BY <1>1, <2>2 DEF SessionRows
  <2> QED
    BY <1>1, <2>1, <2>3
<1>3. CASE ~sessions[s].alive
  BY <1>1, <1>3 DEF Replies
<1> QED
  BY <1>2, <1>3

LEMMA ShownTypes ==
    ASSUME NalusInv, NEW c \in CourtCalls, NEW reply \in Replied
    PROVE  LET row == [IdleCall EXCEPT !.at = "done", !.page = calls[c].page, !.shown = reply]
           IN  row \in CourtRows /\ row.at = "done" /\ row.page = calls[c].page /\ row.shown = reply
BY CourtTypes DEF NalusInv, CourtOK, CourtRows

LEMMA OpenedTypes ==
    ASSUME NEW called \in CourtRows, NEW n \in Nat
    PROVE  LET row == [called EXCEPT !.at = "results", !.own = n + 1]
           IN  row \in CourtRows /\ row.at = "results" /\ row.own = n + 1
<1> DEFINE going == [called EXCEPT !.at = "results"]
<1>1. going \in CourtRows /\ going.at = "results"
  BY DEF CourtRows
<1> HIDE DEF going
<1>2. LET row == [going EXCEPT !.own = n + 1]
      IN  row \in CourtRows /\ row.at = "results" /\ row.own = n + 1
  BY <1>1 DEF CourtRows
<1> QED
  BY <1>2 DEF going

LEMMA FormTypes ==
    ASSUME NalusInv, NEW c \in CourtCalls
    PROVE  LET row == [IdleCall EXCEPT !.at = "form", !.page = calls[c].page]
           IN  row \in CourtRows /\ row.at = "form"
BY CourtTypes DEF NalusInv, CourtOK, CourtRows

\* A call that is idle, at the form or done meets nobody's session.
LEMMA HarmlessMoves ==
    ASSUME NalusInv, NEW c \in CourtCalls, NEW row \in CourtRows, row.at \in {"idle", "form", "done"},
           row.at = "done" => PageAsked(row), calls' = [calls EXCEPT ![c] = row], rows' \in Nat,
           sessions' \in Seq(SessionRows), Len(sessions') = Len(sessions),
           \A s \in 1 .. Len(sessions) :
              sessions'[s] = sessions[s] \/ \A d \in CourtCalls \ {c} : calls[d].at = "results" => calls[d].own # s,
           keptSession' \in KeptRows, keptSession' # NoKept => keptSession'.session \in 1 .. Len(sessions'),
           \A d \in CourtCalls \ {c} : OwnIsOwn(calls[d], keptSession')
    PROVE  NalusInv'
<1>1. CourtOK(row, sessions') /\ OwnIsOwn(row, keptSession')
  BY DEF CourtOK, OwnIsOwn
<1>2. \A d \in CourtCalls \ {c} : Apart(row, calls[d]) /\ Apart(calls[d], row)
  BY DEF Apart
<1>3. \A d \in CourtCalls \ {c} : OwnIsOwn(calls[d], keptSession') /\ Apart(row, calls[d]) /\ Apart(calls[d], row)
  BY <1>2
<1>4. Len(sessions') >= Len(sessions)
  BY DEF NalusInv
<1> QED
  BY <1>1, <1>3, <1>4, OneCallMoves

LEMMA NalusSteps == ASSUME NalusInv, SearchSteps PROVE NalusInv'
<1>0. /\ NalusInv /\ rows \in Nat /\ sessions \in Seq(SessionRows) /\ Len(sessions) \in Nat /\ keptSession \in KeptRows
      /\ keptSession # NoKept => keptSession.session \in 1 .. Len(sessions)
      /\ DOMAIN calls = CourtCalls
      /\ \A c \in CourtCalls : CourtOK(calls[c], sessions) /\ OwnIsOwn(calls[c], keptSession) /\ calls[c] \in CourtRows
      /\ \A c, d \in CourtCalls : c # d => Apart(calls[c], calls[d])
      /\ \A c \in CourtCalls : OwnIsOwn(calls[c], NoKept)
  <2>1. \A c \in CourtCalls : OwnIsOwn(calls[c], NoKept)
    BY CourtTypes DEF NalusInv, CourtOK, OwnIsOwn
  <2> QED
    BY <2>1 DEF NalusInv, CourtOK
<1>1. ASSUME NEW c \in CourtCalls, NalusAsks(c) PROVE NalusInv'
  <2>1. PICK page \in Pages :
            calls' = [calls EXCEPT ![c] = [IdleCall EXCEPT !.page = page, !.kept = keptSession,
                                               !.at = IF keptSession = NoKept THEN "form" ELSE "reuse"]]
    BY <1>1 DEF NalusAsks
  <2>2. UNCHANGED <<rows, sessions, keptSession>>
    BY <1>1 DEF NalusAsks
  <2> DEFINE row == [IdleCall EXCEPT !.page = page, !.kept = keptSession,
                                     !.at = IF keptSession = NoKept THEN "form" ELSE "reuse"]
  <2>3. row \in CourtRows /\ row.kept = keptSession /\ ((row.at = "reuse" /\ keptSession # NoKept) \/ row.at = "form")
    BY <1>0, CourtTypes, CourtConstants DEF CourtRows
  <2> HIDE DEF row
  <2>4. CourtOK(row, sessions) /\ OwnIsOwn(row, keptSession)
    BY <1>0, <2>3 DEF CourtOK, OwnIsOwn
  <2>5. \A d \in CourtCalls : Apart(row, calls[d]) /\ Apart(calls[d], row)
    BY <1>0, <2>3 DEF Apart, OwnIsOwn
  <2>6. calls' = [calls EXCEPT ![c] = row]
    BY <2>1 DEF row
  <2>7. rows' \in Nat /\ sessions' = sessions /\ keptSession' = keptSession
    BY <1>0, <2>2
  <2>8. CourtOK(row, sessions') /\ OwnIsOwn(row, keptSession')
    BY <2>4, <2>7
  <2>9. \A d \in CourtCalls \ {c} : OwnIsOwn(calls[d], keptSession') /\ Apart(row, calls[d]) /\ Apart(calls[d], row)
    BY <1>0, <2>5, <2>7
  <2>10. keptSession' # NoKept => keptSession'.session \in 1 .. Len(sessions')
    BY <1>0, <2>7
  <2> HIDE DEF row
  <2>11. /\ sessions' \in Seq(SessionRows) /\ Len(sessions') >= Len(sessions) /\ keptSession' \in KeptRows
         /\ \A s \in 1 .. Len(sessions) : sessions'[s] = sessions[s]
    BY <1>0, <2>7
  <2> QED
    BY <1>0, <2>6, <2>7, <2>8, <2>9, <2>10, <2>11, OneCallMoves
<1>2. ASSUME NEW c \in CourtCalls, ReadsKept(c) PROVE NalusInv'
  <2>1. PICK reply \in AnyReply :
          /\ Replies(calls[c].kept.session, calls[c].page, reply)
          /\ IF Trusted(calls[c].kept, calls[c].page, reply)
             THEN calls' = Shows(c, reply) /\ UNCHANGED keptSession
             ELSE calls' = GoesToForm(c) /\ keptSession' = NoKept
    BY <1>2 DEF ReadsKept
  <2> DEFINE s == calls[c].kept.session
  <2>2. calls[c].at = "reuse" /\ s \in 1 .. Len(sessions) /\ calls[c].page \in Nat /\ calls[c].kept \in KeptRows /\ UNCHANGED rows
    BY <1>0, <1>2 DEF ReadsKept, CourtOK, CourtRows
  <2>3. /\ sessions' \in Seq(SessionRows) /\ Len(sessions') = Len(sessions)
        /\ \A t \in 1 .. Len(sessions) \ {s} : sessions'[t] = sessions[t]
    BY <2>1, <2>2, RepliesKeep
  <2>4. \A d \in CourtCalls \ {c} : calls[d].at = "results" => calls[d].own # s
    BY <1>0, <2>2 DEF Apart
  <2>5. reply \in Replied /\ (reply.hits => reply.page * PageSize < reply.total)
    BY ReplyTypes
  <2> HIDE DEF s
  <2>6. CASE Trusted(calls[c].kept, calls[c].page, reply)
    <3> DEFINE row == [IdleCall EXCEPT !.at = "done", !.page = calls[c].page, !.shown = reply]
    <3>1. calls' = [calls EXCEPT ![c] = row] /\ UNCHANGED keptSession
      BY <2>1, <2>6 DEF Shows
    <3>2. row \in CourtRows /\ row.at = "done" /\ row.page = calls[c].page /\ row.shown = reply
      BY <2>5, ShownTypes
    <3> HIDE DEF row
    <3>3. calls[c].page * PageSize \in Int /\ reply.total \in Int
      BY <2>2, <2>5, CourtConstants DEF Replied
    <3>4. PageAsked(row)
      BY <2>5, <2>6, <3>2, <3>3 DEF PageAsked, Trusted
    <3> QED
      BY <1>0, <2>2, <2>3, <2>4, <3>1, <3>2, <3>4, HarmlessMoves
  <2>7. CASE ~Trusted(calls[c].kept, calls[c].page, reply)
    <3> DEFINE row == [IdleCall EXCEPT !.at = "form", !.page = calls[c].page]
    <3>1. calls' = [calls EXCEPT ![c] = row] /\ keptSession' = NoKept
      BY <2>1, <2>7 DEF GoesToForm
    <3>2. row \in CourtRows /\ row.at = "form"
      BY FormTypes
    <3> HIDE DEF row
    <3> QED
      BY <1>0, <2>2, <2>3, <2>4, <3>1, <3>2, CourtTypes, HarmlessMoves
  <2> QED
    BY <2>6, <2>7
<1>3. ASSUME NEW c \in CourtCalls, KeptFails(c) PROVE NalusInv'
  <2> DEFINE row == [IdleCall EXCEPT !.at = "form", !.page = calls[c].page]
  <2>1. calls' = [calls EXCEPT ![c] = row] /\ keptSession' = NoKept /\ UNCHANGED <<rows, sessions>>
    BY <1>3 DEF KeptFails, GoesToForm
  <2>2. row \in CourtRows /\ row.at = "form"
    BY FormTypes
  <2> HIDE DEF row
  <2> QED
    BY <1>0, <2>1, <2>2, CourtTypes, HarmlessMoves
<1>4. ASSUME NEW c \in CourtCalls, Posts(c) PROVE NalusInv'
  <2>0. UNCHANGED <<rows, keptSession>> /\ calls[c] \in CourtRows /\ calls[c].page \in Nat
    BY <1>0, <1>4 DEF Posts, CourtRows
  <2>1. CASE rows = 0
    <3> DEFINE row == [IdleCall EXCEPT !.at = "done", !.page = calls[c].page, !.shown = EmptyBanner]
    <3>1. calls' = [calls EXCEPT ![c] = row] /\ UNCHANGED sessions
      BY <1>4, <2>1 DEF Posts, Shows
    <3>2. row \in CourtRows /\ row.at = "done" /\ row.page = calls[c].page /\ row.shown = EmptyBanner
      BY CourtTypes, ShownTypes
    <3> HIDE DEF row
    <3>3. ~(calls[c].page * PageSize < 0)
      BY <2>0, CourtConstants
    <3>4. PageAsked(row)
      BY <3>2, <3>3, CourtTypes DEF PageAsked
    <3> QED
      BY <1>0, <2>0, <3>1, <3>2, <3>4, HarmlessMoves
  <2>2. CASE rows # 0
    <3> DEFINE row == [calls[c] EXCEPT !.at = "results", !.own = Len(sessions) + 1]
               new == [alive |-> TRUE, last |-> 0]
    <3>1. sessions' = Append(sessions, new) /\ calls' = [calls EXCEPT ![c] = row]
      BY <1>0, <1>4, <2>2 DEF Posts
    <3>2. row \in CourtRows /\ row.at = "results" /\ row.own = Len(sessions) + 1
      BY <1>0, OpenedTypes
    <3>3. new \in SessionRows /\ new.last = 0
      BY DEF SessionRows
    <3> HIDE DEF row, new
    <3>4. /\ sessions' \in Seq(SessionRows) /\ Len(sessions') = Len(sessions) + 1
          /\ \A s \in 1 .. Len(sessions) : sessions'[s] = sessions[s]
          /\ sessions'[Len(sessions) + 1] = new
      BY <1>0, <3>1, <3>3
    <3>5. CourtOK(row, sessions')
      BY <1>0, <3>2, <3>3, <3>4 DEF CourtOK
    <3>6. OwnIsOwn(row, keptSession)
      BY <1>0, <3>2, CourtTypes DEF OwnIsOwn
    <3>7. ASSUME NEW d \in CourtCalls PROVE Apart(row, calls[d]) /\ Apart(calls[d], row)
      <4>1. (calls[d].at = "results" => calls[d].own \in 1 .. Len(sessions))
            /\ (calls[d].at = "reuse" => calls[d].kept.session \in 1 .. Len(sessions))
        BY <1>0 DEF CourtOK
      <4> QED
        BY <1>0, <3>2, <4>1 DEF Apart
    <3>8. keptSession # NoKept => keptSession.session \in 1 .. Len(sessions')
      BY <1>0, <3>4
    <3>9. keptSession' = keptSession /\ rows' \in Nat /\ Len(sessions') >= Len(sessions)
      BY <1>0, <2>0, <3>4
    <3>10. /\ OwnIsOwn(row, keptSession') /\ keptSession' \in KeptRows
           /\ keptSession' # NoKept => keptSession'.session \in 1 .. Len(sessions')
           /\ \A d \in CourtCalls \ {c} :
                 OwnIsOwn(calls[d], keptSession') /\ Apart(row, calls[d]) /\ Apart(calls[d], row)
      BY <1>0, <3>6, <3>7, <3>8, <3>9
    <3> QED
      BY <1>0, <3>1, <3>4, <3>5, <3>9, <3>10, OneCallMoves
  <2> QED
    BY <2>1, <2>2
<1>5. ASSUME NEW c \in CourtCalls, ReadsResults(c) PROVE NalusInv'
  <2> DEFINE own == calls[c].own
             page == calls[c].page
  <2>1. PICK reply \in AnyReply :
          /\ Replies(own, page, reply)
          /\ calls' = Shows(c, reply)
          /\ keptSession' = [session |-> own, total |-> reply.total]
    BY <1>5 DEF ReadsResults
  <2>2. /\ calls[c].at = "results" /\ sessions[own].alive /\ UNCHANGED rows
        /\ own \in 1 .. Len(sessions) /\ sessions[own].last = 0 /\ page \in Nat
    BY <1>0, <1>5 DEF ReadsResults, CourtOK, CourtRows
  <2>3. reply = Rendered(page)
    BY <2>1, <2>2 DEF Replies, Served
  <2>4. /\ sessions' \in Seq(SessionRows) /\ Len(sessions') = Len(sessions)
        /\ \A t \in 1 .. Len(sessions) \ {own} : sessions'[t] = sessions[t]
    BY <2>1, <2>2, RepliesKeep
  <2>5. \A d \in CourtCalls \ {c} : calls[d].at = "results" => calls[d].own # own
    BY <1>0, <2>2 DEF Apart
  <2>6. reply \in Replied /\ reply.total = rows /\ reply.page = page /\ (reply.hits <=> page * PageSize < rows)
    BY <1>0, <2>2, <2>3, RenderedTypes
  <2> DEFINE row == [IdleCall EXCEPT !.at = "done", !.page = calls[c].page, !.shown = reply]
  <2>7. calls' = [calls EXCEPT ![c] = row]
    BY <2>1 DEF Shows
  <2>8. row \in CourtRows /\ row.at = "done" /\ row.page = page /\ row.shown = reply
    BY <2>6, ShownTypes
  <2> HIDE DEF row, own, page
  <2>9. PageAsked(row)
    BY <2>6, <2>8 DEF PageAsked
  <2>10. keptSession' \in KeptRows /\ keptSession'.session = own /\ own \in 1 .. Len(sessions')
    BY <1>0, <2>1, <2>2, <2>4, <2>6 DEF KeptRows
  <2>11. \A d \in CourtCalls \ {c} : OwnIsOwn(calls[d], keptSession')
    BY <2>5, <2>10 DEF OwnIsOwn
  <2>12. /\ rows' \in Nat
         /\ \A t \in 1 .. Len(sessions) :
               sessions'[t] = sessions[t] \/ \A d \in CourtCalls \ {c} : calls[d].at = "results" => calls[d].own # t
    BY <1>0, <2>2, <2>4, <2>5
  <2> QED
    BY <1>0, <2>4, <2>7, <2>8, <2>9, <2>10, <2>11, <2>12, HarmlessMoves
<1>6. ASSUME NEW c \in CourtCalls, SearchFails(c) \/ CallSettles(c) PROVE NalusInv'
  <2>1. calls' = [calls EXCEPT ![c] = IdleCall] /\ UNCHANGED <<rows, sessions, keptSession>>
    BY <1>6 DEF SearchFails, CallSettles
  <2> QED
    BY <1>0, <2>1, CourtTypes, HarmlessMoves
<1>7. ASSUME NEW s \in DOMAIN sessions, SessionExpires(s) PROVE NalusInv'
  <2> DEFINE dead == [alive |-> FALSE, last |-> 0]
  <2>1. sessions' = [sessions EXCEPT ![s] = dead] /\ UNCHANGED <<rows, keptSession, calls>>
    BY <1>7 DEF SessionExpires
  <2>2. dead \in SessionRows /\ dead.last = 0
    BY DEF SessionRows
  <2> HIDE DEF dead
  <2>3. /\ sessions' \in Seq(SessionRows) /\ Len(sessions') = Len(sessions)
        /\ \A t \in 1 .. Len(sessions) : sessions'[t] = sessions[t] \/ sessions'[t].last = 0
    BY <1>0, <2>1, <2>2
  <2>4. \A c \in CourtCalls : CourtOK(calls[c], sessions')
    BY <1>0, <2>3 DEF CourtOK
  <2> QED
    BY <1>0, <2>1, <2>3, <2>4 DEF NalusInv
<1>8. CASE KeptLapses
  BY <1>0, <1>8, CourtTypes DEF KeptLapses, NalusInv
<1>9. CASE RowsChange
  <2>1. rows' \in Nat /\ UNCHANGED <<sessions, keptSession, calls>>
    BY <1>0, <1>9 DEF RowsChange
  <2> QED
    BY <1>0, <2>1 DEF NalusInv
<1> QED
  BY <1>1, <1>2, <1>3, <1>4, <1>5, <1>6, <1>7, <1>8, <1>9 DEF SearchSteps

LEMMA NalusHolds == ASSUME NalusInv PROVE ThePageAskedFor
BY DEF NalusInv, CourtOK, PageAsked, ThePageAskedFor

-----------------------------------------------------------------------------
(* A decision of NALUS without its abstract (CourtSessions).               *)

ReaderRows == [st : {"idle", "waiting", "whole", "cut"}, on : CourtCalls \cup {NoCourtCall}]
DecisionRows == [asked : BOOLEAN, kept : {"none", "whole", "cut"}, pending : CourtCalls \cup {NoCourtCall},
                 loads : SUBSET CourtCalls, readers : [CourtCalls -> ReaderRows]]

\* What is kept without its abstract is in the hands of a reader that will forget
\* it, and a load that others may join is the load its own reader waits for.
CutIsHeld(d) ==
    /\ d \in DecisionRows
    /\ \A c \in CourtCalls : d.readers[c].st # "waiting" => d.readers[c].on = NoCourtCall
    /\ d.pending # NoCourtCall => d.readers[d.pending].st = "waiting" /\ d.readers[d.pending].on = d.pending
    /\ d.kept = "cut" => \E c \in CourtCalls : d.readers[c].st = "cut"

CutInv == CutIsHeld(decision)

LEMMA DecisionTypes ==
    ASSUME NEW d \in DecisionRows, NEW c \in CourtCalls
    PROVE  /\ d.readers[c] \in ReaderRows /\ DOMAIN d.readers = CourtCalls
           /\ d.readers[c].st \in {"idle", "waiting", "whole", "cut"}
           /\ d.kept \in {"none", "whole", "cut"} /\ d.pending \in CourtCalls \cup {NoCourtCall}
BY DEF DecisionRows, ReaderRows

LEMMA ReaderMoves ==
    ASSUME NEW d \in DecisionRows, NEW c \in CourtCalls, NEW row \in ReaderRows
    PROVE  LET e == [d EXCEPT !.readers[c] = row]
           IN  /\ e \in DecisionRows /\ e.kept = d.kept /\ e.pending = d.pending /\ e.readers[c] = row
               /\ \A other \in CourtCalls \ {c} : e.readers[other] = d.readers[other]
BY DEF DecisionRows

LEMMA ForgetTypes ==
    ASSUME NEW d \in DecisionRows, NEW value \in {"whole", "cut"}
    PROVE  /\ Forget(value, d) \in DecisionRows /\ Forget(value, d).readers = d.readers
           /\ Forget(value, d).pending \in {NoCourtCall, d.pending}
           /\ Forget(value, d).kept = "none" \/ (Forget(value, d).kept = d.kept /\ value # "cut")
<1>1. CASE value = "cut"
  <2>1. PICK dropped : dropped = [d EXCEPT !.kept = "none", !.pending = NoCourtCall]
    OBVIOUS
  <2>2. Forget(value, d) = dropped
    BY <1>1, <2>1 DEF Forget
  <2>3. dropped = [asked |-> d.asked, kept |-> "none", pending |-> NoCourtCall, loads |-> d.loads, readers |-> d.readers]
    BY <2>1 DEF DecisionRows
  <2>4. dropped \in DecisionRows
    BY <2>3 DEF DecisionRows
  <2> QED
    BY <2>2, <2>3, <2>4
<1>2. CASE value # "cut"
  BY <1>2 DEF Forget
<1> QED
  BY <1>1, <1>2

LEMMA CutStarts == ASSUME CourtInit PROVE CutInv
<1>1. NoDecision \in DecisionRows /\ [NoDecision EXCEPT !.asked = TRUE] \in DecisionRows
  BY DEF NoDecision, NoDecisionReader, DecisionRows, ReaderRows
<1>2. NoDecision.kept = "none" /\ NoDecision.pending = NoCourtCall /\ \A c \in CourtCalls : NoDecision.readers[c].on = NoCourtCall
  BY DEF NoDecision, NoDecisionReader
<1>3. /\ decision \in DecisionRows /\ decision.kept = "none" /\ decision.pending = NoCourtCall
      /\ \A c \in CourtCalls : decision.readers[c].on = NoCourtCall
  <2>1. CASE decision = NoDecision
    BY <1>1, <1>2, <2>1
  <2>2. CASE decision = [NoDecision EXCEPT !.asked = TRUE]
    <3>1. /\ decision.kept = NoDecision.kept /\ decision.pending = NoDecision.pending
          /\ decision.readers = NoDecision.readers
      BY <2>2 DEF NoDecision
    <3> QED
      BY <1>1, <1>2, <2>2, <3>1
  <2> QED
    BY <2>1, <2>2 DEF CourtInit
<1> QED
  BY <1>3 DEF CutInv, CutIsHeld

LEMMA CutSteps == ASSUME CutInv, DecisionSteps PROVE CutInv'
<1> USE SessionsAssumption
<1>0. decision \in DecisionRows /\ \A c \in CourtCalls : NoDecisionReader \in ReaderRows /\ NoDecisionReader.st = "idle" /\ NoDecisionReader.on = NoCourtCall
  BY DEF CutInv, CutIsHeld, NoDecisionReader, ReaderRows
<1>1. CASE DecisionLapses
  <2>1. decision' = [decision EXCEPT !.kept = "none"]
    BY <1>1 DEF DecisionLapses
  <2>2. /\ decision' \in DecisionRows /\ decision'.kept = "none" /\ decision'.pending = decision.pending
        /\ decision'.readers = decision.readers
    BY <1>0, <2>1 DEF DecisionRows
  <2> QED
    BY <2>2 DEF CutInv, CutIsHeld
<1>2. ASSUME NEW c \in CourtCalls, DecisionAsked(c) PROVE CutInv'
  <2>0. decision.readers[c].st = "idle"
    BY <1>2 DEF DecisionAsked
  <2>1. CASE decision.kept # "none"
    <3> DEFINE row == [st |-> decision.kept, on |-> NoCourtCall]
    <3>1. decision' = [decision EXCEPT !.readers[c] = row]
      BY <1>2, <2>1 DEF DecisionAsked
    <3>2. row \in ReaderRows /\ row.on = NoCourtCall /\ row.st = decision.kept /\ row.st # "waiting"
      BY <1>0, <2>1, DecisionTypes DEF ReaderRows
    <3> HIDE DEF row
    <3>3. /\ decision' \in DecisionRows /\ decision'.kept = decision.kept /\ decision'.pending = decision.pending
          /\ decision'.readers[c] = row
          /\ \A other \in CourtCalls \ {c} : decision'.readers[other] = decision.readers[other]
      BY <1>0, <3>1, <3>2, ReaderMoves
    <3> QED
      BY <1>0, <2>0, <3>2, <3>3, DecisionTypes DEF CutInv, CutIsHeld
  <2>2. CASE decision.kept = "none" /\ decision.pending # NoCourtCall
    <3> DEFINE row == [st |-> "waiting", on |-> decision.pending]
    <3>1. decision' = [decision EXCEPT !.readers[c] = row]
      BY <1>2, <2>2 DEF DecisionAsked
    <3>2. row \in ReaderRows /\ row.on = decision.pending /\ row.st = "waiting"
      BY <1>0, <2>2, DecisionTypes DEF ReaderRows
    <3> HIDE DEF row
    <3>3. /\ decision' \in DecisionRows /\ decision'.kept = decision.kept /\ decision'.pending = decision.pending
          /\ decision'.readers[c] = row
          /\ \A other \in CourtCalls \ {c} : decision'.readers[other] = decision.readers[other]
      BY <1>0, <3>1, <3>2, ReaderMoves
    <3> QED
      BY <1>0, <2>0, <2>2, <3>2, <3>3, DecisionTypes DEF CutInv, CutIsHeld
  <2>3. CASE decision.kept = "none" /\ decision.pending = NoCourtCall
    <3> DEFINE row == [st |-> "waiting", on |-> c]
               read == [decision EXCEPT !.readers[c] = row]
    <3>1. decision' = [read EXCEPT !.pending = c, !.loads = decision.loads \cup {c}]
      BY <1>0, <1>2, <2>3 DEF DecisionAsked
    <3>2. row \in ReaderRows /\ row.on = c /\ row.st = "waiting"
      BY DEF ReaderRows
    <3> HIDE DEF row
    <3>3. /\ read \in DecisionRows /\ read.kept = decision.kept /\ read.readers[c] = row
          /\ \A other \in CourtCalls \ {c} : read.readers[other] = decision.readers[other]
      BY <1>0, <3>2, ReaderMoves
    <3> HIDE DEF read
    <3>4. decision.loads \cup {c} \in SUBSET CourtCalls
      BY <1>0 DEF DecisionRows
    <3>5. /\ decision' \in DecisionRows /\ decision'.kept = read.kept /\ decision'.pending = c
          /\ decision'.readers = read.readers
      BY <3>1, <3>3, <3>4 DEF DecisionRows
    <3> QED
      BY <2>0, <2>3, <3>2, <3>3, <3>5 DEF CutInv, CutIsHeld
  <2> QED
    BY <2>1, <2>2, <2>3
<1>3. ASSUME NEW l \in CourtCalls, DecisionLands(l) PROVE CutInv'
  <2> DEFINE reads(value) == [c \in CourtCalls |-> IF decision.readers[c].on = l
                                                   THEN [st |-> value, on |-> NoCourtCall]
                                                   ELSE decision.readers[c]]
             underWay == decision.loads \ {l}
             nowPending == IF decision.pending = l THEN NoCourtCall ELSE decision.pending
  <2>1. PICK value \in {"whole", "cut"} :
            decision' = [decision EXCEPT
                !.loads = underWay,
                !.kept = IF decision.pending = l THEN value ELSE decision.kept,
                !.pending = nowPending,
                !.readers = reads(value)]
    BY <1>0, <1>3 DEF DecisionLands
  <2> DEFINE given == [st |-> value, on |-> NoCourtCall]
             nowKept == IF decision.pending = l THEN value ELSE decision.kept
             readers == reads(value)
  <2>2. given \in ReaderRows /\ given.st = value /\ given.on = NoCourtCall
    BY DEF ReaderRows
  <2>3. /\ readers \in [CourtCalls -> ReaderRows]
        /\ \A c \in CourtCalls : readers[c] = IF decision.readers[c].on = l THEN given ELSE decision.readers[c]
    BY <1>0, <2>2, DecisionTypes
  <2>4. underWay \in SUBSET CourtCalls /\ nowKept \in {"none", "whole", "cut"} /\ nowPending \in CourtCalls \cup {NoCourtCall}
    BY <1>0, DecisionTypes DEF DecisionRows
  <2>5. (decision.pending = l => nowKept = value /\ nowPending = NoCourtCall)
        /\ (decision.pending # l => nowKept = decision.kept /\ nowPending = decision.pending)
    OBVIOUS
  <2>6. decision' = [decision EXCEPT !.loads = underWay, !.kept = nowKept, !.pending = nowPending, !.readers = readers]
    BY <2>1
  <2> HIDE DEF given, nowKept, readers, underWay, nowPending
  <2>7. /\ decision' \in DecisionRows /\ decision'.kept = nowKept /\ decision'.pending = nowPending
        /\ decision'.readers = readers
    BY <1>0, <2>3, <2>4, <2>6 DEF DecisionRows
  <2>8. \A c \in CourtCalls : readers[c].st # "waiting" => readers[c].on = NoCourtCall
    BY <2>2, <2>3 DEF CutInv, CutIsHeld
  <2>9. nowPending # NoCourtCall => readers[nowPending].st = "waiting" /\ readers[nowPending].on = nowPending
    BY <2>3, <2>4, <2>5 DEF CutInv, CutIsHeld
  <2>10. nowKept = "cut" => \E c \in CourtCalls : readers[c].st = "cut"
    <3>1. CASE decision.pending = l
      BY <2>2, <2>3, <2>5, <3>1 DEF CutInv, CutIsHeld
    <3>2. CASE decision.pending # l
      <4>1. ASSUME NEW c \in CourtCalls, decision.readers[c].st = "cut" PROVE readers[c].st = "cut"
        BY <2>3, <4>1 DEF CutInv, CutIsHeld
      <4> QED
        BY <2>5, <3>2, <4>1 DEF CutInv, CutIsHeld
    <3> QED
      BY <3>1, <3>2
  <2> QED
    BY <2>7, <2>8, <2>9, <2>10 DEF CutInv, CutIsHeld
<1>4. ASSUME NEW c \in CourtCalls, DecisionRead(c) PROVE CutInv'
  <2> DEFINE left == Forget(decision.readers[c].st, decision)
  <2>1. decision.readers[c].st \in {"whole", "cut"} /\ decision' = [left EXCEPT !.readers[c] = NoDecisionReader]
    BY <1>4 DEF DecisionRead
  <2>2. /\ left \in DecisionRows /\ left.readers = decision.readers
        /\ left.pending \in {NoCourtCall, decision.pending}
        /\ left.kept = "none" \/ (left.kept = decision.kept /\ decision.readers[c].st # "cut")
    BY <1>0, <2>1, ForgetTypes
  <2> HIDE DEF left
  <2>3. /\ decision' \in DecisionRows /\ decision'.kept = left.kept /\ decision'.pending = left.pending
        /\ decision'.readers[c] = NoDecisionReader
        /\ \A other \in CourtCalls \ {c} : decision'.readers[other] = decision.readers[other]
    BY <1>0, <2>1, <2>2, ReaderMoves
  <2> QED
    BY <1>0, <2>1, <2>2, <2>3 DEF CutInv, CutIsHeld
<1> QED
  BY <1>1, <1>2, <1>3, <1>4 DEF DecisionSteps

LEMMA CutHolds == ASSUME CutInv PROVE CutIsNotKept
BY DEF CutInv, CutIsHeld, CutIsNotKept

-----------------------------------------------------------------------------
(* The text of a PDF in chunks (ZoteroText).                               *)

Underway == {"walking", "converting"}
CallRows == [st : Underway \cup {"none", "index", "partial", "unavailable", "onceMore", "page", "pastEnd"},
             page : Nat, k : Nat, offset : Nat, conversions : 0 .. MaxConversions, total : Nat]

\* Known before the last chunk: what calls that are sent back have got done.
KnownBefore == Cardinality(pdfMeta \ {Chunks})

\* What is converted for the first time, or is the last thing the call reads.
NewOrLast == call.k \notin pdfMeta \/ call.page <= call.offset + pdf[call.k] \/ call.k = Chunks

TextInv ==
    /\ pdf \in [ChunkIds -> Nat] /\ pdfMeta \subseteq ChunkIds /\ pdfTexts \subseteq pdfMeta
    /\ call \in CallRows /\ refusals \in Nat
    /\ call.st \in Underway => call.k \in ChunkIds /\ call.offset = PagesBefore(call.k) /\ call.page > call.offset
    /\ call.st = "converting" => call.k \notin pdfTexts /\ NewOrLast /\ call.conversions > 0
    /\ WindowHoldsThePage
    /\ refusals * MaxConversions
           + (IF call.st = "walking" THEN call.conversions
              ELSE IF call.st = "converting" THEN call.conversions - 1 ELSE 0) <= KnownBefore + MaxConversions

LEMMA ChunksBefore ==
    ASSUME pdf \in [ChunkIds -> Nat]
    PROVE  /\ PagesBefore(1) = 0
           /\ \A k \in ChunkIds : PagesBefore(k) \in Nat /\ PagesBefore(k + 1) = PagesBefore(k) + pdf[k]
<1>1. \A k : PagesBefore(k) = SumOver(pdf, 1 .. k - 1)
  BY DEF PagesBefore, SumOver
<1>2. PagesBefore(1) = 0
  BY <1>1, FoldOfPrefix
<1>3. ASSUME NEW k \in ChunkIds
      PROVE  PagesBefore(k) \in Nat /\ PagesBefore(k + 1) = PagesBefore(k) + pdf[k]
  <2>1. /\ k \in Nat /\ k > 0 /\ k - 1 \in Nat /\ (k + 1) - 1 = k
        /\ \A i \in 1 .. k : i \in ChunkIds /\ pdf[i] \in Nat
        /\ \A i \in 1 .. k - 1 : i \in ChunkIds /\ pdf[i] \in Nat
    BY TextAssumption DEF ChunkIds
  <2>2. SumOver(pdf, 1 .. k - 1) \in Nat
    BY <2>1, FoldOfPrefix
  <2>3. SumOver(pdf, 1 .. k) = SumOver(pdf, 1 .. k - 1) + pdf[k]
    BY <2>1, FoldOfPrefix
  <2>4. PagesBefore(k + 1) = SumOver(pdf, 1 .. k)
    BY <1>1, <2>1
  <2> QED
    BY <1>1, <2>2, <2>3, <2>4
<1> QED
  BY <1>2, <1>3

LEMMA KnownTypes ==
    ASSUME TextInv
    PROVE  /\ IsFiniteSet(ChunkIds) /\ IsFiniteSet(pdfMeta)
           /\ KnownBefore \in Nat /\ KnownBefore <= Chunks - 1
<1>1. IsFiniteSet(ChunkIds) /\ IsFiniteSet(1 .. Chunks - 1) /\ Cardinality(1 .. Chunks - 1) = Chunks - 1
  BY TextAssumption, FS_Interval DEF ChunkIds
<1>2. pdfMeta \ {Chunks} \in SUBSET (1 .. Chunks - 1)
  BY TextAssumption DEF TextInv, ChunkIds
<1>3. IsFiniteSet(pdfMeta) /\ IsFiniteSet(pdfMeta \ {Chunks})
      /\ Cardinality(pdfMeta \ {Chunks}) <= Cardinality(1 .. Chunks - 1)
  BY <1>1, <1>2, FS_Subset DEF TextInv
<1> QED
  BY <1>1, <1>3, FS_CardinalityType DEF KnownBefore

LEMMA TextStarts == ASSUME TextInit PROVE TextInv
<1>1. call = NoCall /\ refusals = 0 /\ pdfMeta = {} /\ pdfTexts = {} /\ pdf \in [ChunkIds -> Nat]
  BY TextAssumption DEF TextInit, Files
<1>2. NoCall \in CallRows /\ NoCall.st = "none"
  BY TextAssumption DEF NoCall, CallRows
<1>3. KnownBefore = 0
  BY <1>1, FS_EmptySet DEF KnownBefore
<1>4. WindowHoldsThePage
  BY <1>1, <1>2 DEF WindowHoldsThePage
<1>5. 0 * MaxConversions + 0 <= 0 + MaxConversions
  BY TextAssumption
<1> QED
  BY <1>1, <1>2, <1>3, <1>4, <1>5 DEF TextInv, Underway

LEMMA TextHolds == ASSUME TextInv PROVE WindowHoldsThePage /\ OnceMoreGetsThere
<1>1. refusals \in Nat /\ MaxConversions \in Nat /\ refusals * MaxConversions \in Nat
  BY TextAssumption DEF TextInv
<1>2. (refusals - 1) * MaxConversions = refusals * MaxConversions - MaxConversions
  BY <1>1
<1>3. refusals * MaxConversions <= KnownBefore + MaxConversions
  BY <1>1, KnownTypes, TextAssumption DEF TextInv, CallRows
<1> QED
  BY <1>1, <1>2, <1>3, KnownTypes, TextAssumption DEF TextInv, OnceMoreGetsThere

LEMMA BeforeIsSum == \A k : PagesBefore(k) = SumOver(pdf, 1 .. k - 1)
BY DEF PagesBefore, SumOver

LEMMA BeforeStays == ASSUME pdf' = pdf PROVE \A k : PagesBefore(k)' = PagesBefore(k)
<1>1. (\A k : PagesBefore(k) = SumOver(pdf, 1 .. k - 1))'
  BY BeforeIsSum, PTL
<1> QED
  BY <1>1, BeforeIsSum

LEMMA CallTypes ==
    ASSUME TextInv
    PROVE  /\ call.page \in Nat /\ call.k \in Nat /\ call.offset \in Nat /\ call.total \in Nat
           /\ call.conversions \in 0 .. MaxConversions /\ call.conversions \in Nat /\ call.conversions <= MaxConversions
           /\ Chunks \in Nat /\ Chunks > 0 /\ Chunks \in ChunkIds /\ MaxConversions \in Nat /\ MaxConversions > 0
           /\ \A k \in ChunkIds : k \in Nat /\ pdf[k] \in Nat /\ (k # Chunks => k + 1 \in ChunkIds)
           /\ refusals \in Nat /\ refusals * MaxConversions \in Nat /\ KnownBefore \in Nat
<1>1. call.page \in Nat /\ call.k \in Nat /\ call.offset \in Nat /\ call.total \in Nat
      /\ call.conversions \in 0 .. MaxConversions /\ refusals \in Nat
  BY DEF TextInv, CallRows
<1>2. MaxConversions \in Nat /\ MaxConversions > 0 /\ call.conversions \in Nat /\ call.conversions <= MaxConversions
  BY <1>1, TextAssumption
<1>3. refusals * MaxConversions \in Nat
  BY <1>1, <1>2
<1>4. /\ Chunks \in Nat /\ Chunks > 0 /\ Chunks \in ChunkIds
      /\ \A k \in ChunkIds : k \in Nat /\ pdf[k] \in Nat /\ (k # Chunks => k + 1 \in ChunkIds)
  BY TextAssumption DEF TextInv, ChunkIds
<1> QED
  BY <1>1, <1>2, <1>3, <1>4, KnownTypes

LEMMA RefusalsTypes == ASSUME TextInv PROVE (refusals + 1) * MaxConversions = refusals * MaxConversions + MaxConversions
BY CallTypes

\* A step of the walk with a chunk's text: the page, the end, or the next chunk.
LEMMA ReadsStep ==
    ASSUME TextInv, call.st \in Underway, Reads(call.k), pdf' = pdf
    PROVE  /\ call' \in CallRows
           /\ call'.st \in {"page", "pastEnd", "walking"} /\ call'.conversions = call.conversions
           /\ call'.st = "walking" => /\ call.page > call.offset + pdf[call.k] /\ call.k # Chunks
                                      /\ call'.k \in ChunkIds /\ call'.offset = PagesBefore(call.k)'
                                      /\ call'.page > call'.offset
           /\ WindowHoldsThePage'
<1> DEFINE k == call.k
<1>1. /\ k \in ChunkIds /\ call.offset = PagesBefore(k) /\ call.page > call.offset /\ call \in CallRows
      /\ PagesBefore(k) \in Nat /\ PagesBefore(k + 1) = PagesBefore(k) + pdf[k]
  BY ChunksBefore DEF TextInv
<1>2. \A i : PagesBefore(i)' = PagesBefore(i)
  BY BeforeStays
<1>t. /\ k \in Nat /\ pdf[k] \in Nat /\ call.offset \in Nat /\ call.page \in Nat
      /\ call.offset + pdf[k] \in Nat /\ k + 1 \in Nat /\ (k # Chunks => k + 1 \in ChunkIds)
  BY <1>1, CallTypes
<1> HIDE DEF k
<1>k. k = call.k
  BY DEF k
<1>3. CASE call.page <= call.offset + pdf[k]
  <2>1. call' = [call EXCEPT !.st = "page", !.k = k, !.total = IF k = Chunks THEN call.offset + pdf[k] ELSE 0]
    BY <1>3, <1>k DEF Reads
  <2>2. /\ call'.st = "page" /\ call'.k = k /\ call'.offset = call.offset /\ call'.page = call.page
        /\ call'.conversions = call.conversions
        /\ call'.total = IF k = Chunks THEN call.offset + pdf[k] ELSE 0
    BY <1>1, <1>t, <2>1 DEF CallRows
  <2>3. call' \in CallRows
    BY <1>1, <1>t, <2>1 DEF CallRows
  <2>4. call'.total \in {0, PagesBefore(Chunks + 1)} /\ call.page - call.offset \in 1 .. pdf[k]
    BY <1>1, <1>t, <1>3, <2>2
  <2>5. WindowHoldsThePage'
    BY <1>1, <1>2, <2>2, <2>4 DEF WindowHoldsThePage
  <2> QED
    BY <2>2, <2>3, <2>5
<1>4. CASE ~(call.page <= call.offset + pdf[k]) /\ k = Chunks
  <2>1. call' = [call EXCEPT !.st = "pastEnd", !.total = call.offset + pdf[k]]
    BY <1>4, <1>k DEF Reads
  <2>2. call'.st = "pastEnd" /\ call'.page = call.page /\ call'.conversions = call.conversions /\ call' \in CallRows
    BY <1>1, <1>t, <2>1 DEF CallRows
  <2>3. call.page > PagesBefore(Chunks + 1)
    BY <1>1, <1>t, <1>4
  <2>4. WindowHoldsThePage'
    BY <1>2, <2>2, <2>3 DEF WindowHoldsThePage
  <2> QED
    BY <2>2, <2>4
<1>5. CASE ~(call.page <= call.offset + pdf[k]) /\ k # Chunks
  <2>1. call' = [call EXCEPT !.st = "walking", !.offset = @ + pdf[k], !.k = k + 1]
    BY <1>5, <1>k DEF Reads
  <2>2. /\ call'.st = "walking" /\ call'.page = call.page /\ call'.conversions = call.conversions /\ call' \in CallRows
        /\ call'.k = k + 1 /\ call'.offset = call.offset + pdf[k]
    BY <1>1, <1>t, <2>1 DEF CallRows, Underway
  <2>3. WindowHoldsThePage'
    BY <2>2 DEF WindowHoldsThePage
  <2> QED
    BY <1>1, <1>t, <1>k, <1>2, <1>5, <2>2, <2>3
<1> QED
  BY <1>3, <1>4, <1>5

\* A call that ends without a page.
LEMMA EndsStep ==
    ASSUME TextInv, NEW how \in {"partial", "unavailable", "onceMore"}, Ends(how), UNCHANGED <<pdf>>
    PROVE  call' \in CallRows /\ call'.st = how /\ how \notin Underway /\ WindowHoldsThePage'
<1>1. call \in CallRows /\ call' = [call EXCEPT !.st = how]
  BY DEF TextInv, Ends
<1>2. call' \in CallRows /\ call'.st = how /\ how \notin Underway
  BY <1>1 DEF CallRows, Underway
<1> QED
  BY <1>2 DEF WindowHoldsThePage

LEMMA AskSteps == ASSUME TextInv, NEW page \in 1 .. Chunks * ChunkPages, GetText(page) PROVE TextInv'
<1>1. /\ call.st \notin Underway /\ UNCHANGED <<pdf, pdfTexts, pdfMeta, refusals>>
      /\ call' = [NoCall EXCEPT !.st = IF index = "whole" THEN "index" ELSE "walking", !.page = page, !.k = 1]
  BY DEF GetText, Underway
<1>2. page \in Nat /\ page > 0
  BY TextAssumption
<1>3. /\ call' \in CallRows /\ call'.st \in {"index", "walking"} /\ call'.page = page /\ call'.k = 1
      /\ call'.offset = 0 /\ call'.conversions = 0
  <2>1. PICK st \in {"index", "walking"} : call' = [NoCall EXCEPT !.st = st, !.page = page, !.k = 1]
    BY <1>1
  <2>2. 0 \in 0 .. MaxConversions
    BY TextAssumption
  <2> QED
    BY <1>2, <2>1, <2>2 DEF NoCall, CallRows, Underway
<1>4. PagesBefore(1)' = 0 /\ KnownBefore' = KnownBefore
  BY <1>1, BeforeStays, ChunksBefore DEF TextInv, KnownBefore
<1>5. 1 \in ChunkIds
  BY TextAssumption DEF ChunkIds
<1>6. WindowHoldsThePage'
  BY <1>3 DEF WindowHoldsThePage
<1>7. refusals' * MaxConversions + 0 <= KnownBefore' + MaxConversions
  BY <1>1, <1>4, CallTypes DEF TextInv, Underway
<1>8. call'.st \in Underway => call'.k \in ChunkIds /\ call'.offset = PagesBefore(call.k)' /\ call'.page > call'.offset
  BY <1>2, <1>3, <1>4, <1>5
<1> QED
  BY <1>1, <1>3, <1>6, <1>7, <1>8 DEF TextInv

LEMMA WalkSteps == ASSUME TextInv, SkipChunk \/ KeptChunk PROVE TextInv'
<1> USE CallTypes
<1>1. call.st = "walking" /\ UNCHANGED <<pdf, index, pdfTexts, pdfMeta, pdfFailed, refusals>>
  BY DEF SkipChunk, KeptChunk, Walking
<1>2. KnownBefore' = KnownBefore /\ call.st \in Underway
  BY <1>1 DEF KnownBefore, Underway
<1>3. Reads(call.k)
  <2>1. CASE KeptChunk
    BY <2>1 DEF KeptChunk
  <2>2. CASE SkipChunk
    <3>1. /\ call.page > call.offset + pdf[call.k] /\ call.k # Chunks /\ call.k \in ChunkIds
          /\ call' = [call EXCEPT !.offset = @ + pdf[call.k], !.k = @ + 1] /\ call \in CallRows
      BY <1>2, <2>2 DEF SkipChunk, Skips, TextInv
    <3>2. [call EXCEPT !.offset = @ + pdf[call.k], !.k = @ + 1]
            = [call EXCEPT !.st = "walking", !.offset = @ + pdf[call.k], !.k = call.k + 1]
      BY <1>1, <3>1 DEF CallRows
    <3> QED
      BY <3>1, <3>2 DEF Reads
  <2> QED
    BY <2>1, <2>2
<1>4. /\ call' \in CallRows /\ WindowHoldsThePage' /\ call'.st \in {"page", "pastEnd", "walking"}
      /\ call'.conversions = call.conversions
      /\ call'.st = "walking" => /\ call'.k \in ChunkIds /\ call'.offset = PagesBefore(call.k)'
                                 /\ call'.page > call'.offset
  BY <1>1, <1>2, <1>3, ReadsStep
<1>5. refusals' * MaxConversions + (IF call'.st = "walking" THEN call'.conversions ELSE 0) <= KnownBefore' + MaxConversions
  BY <1>1, <1>2, <1>4 DEF TextInv
<1> QED
  BY <1>1, <1>4, <1>5 DEF TextInv, Underway

LEMMA MissingSteps == ASSUME TextInv, MissingChunk PROVE TextInv'
<1> USE CallTypes
<1>1. /\ call.st = "walking" /\ UNCHANGED <<pdf, index, pdfTexts, pdfMeta, pdfFailed>>
      /\ call.k \notin pdfTexts /\ ~Skips(call.k)
  BY DEF MissingChunk, Walking
<1>2. KnownBefore' = KnownBefore /\ call.st \in Underway /\ call.k \in ChunkIds
  BY <1>1 DEF KnownBefore, Underway, TextInv
<1>3. CASE call.conversions = MaxConversions
  <2>1. Ends("onceMore") /\ refusals' = refusals + 1
    BY <1>3 DEF MissingChunk
  <2>2. call' \in CallRows /\ call'.st = "onceMore" /\ WindowHoldsThePage'
    BY <1>1, <2>1, EndsStep
  <2>3. refusals' * MaxConversions + 0 <= KnownBefore' + MaxConversions
    BY <1>1, <1>2, <1>3, <2>1, RefusalsTypes DEF TextInv
  <2> QED
    BY <1>1, <2>1, <2>2, <2>3 DEF TextInv, Underway
<1>4. CASE call.conversions # MaxConversions /\ pdfFailed
  <2>1. Unavailable /\ refusals' = refusals
    BY <1>4 DEF MissingChunk
  <2>2. PICK how \in {"partial", "unavailable"} : Ends(how)
    BY <2>1 DEF Unavailable
  <2>3. call' \in CallRows /\ call'.st = how /\ WindowHoldsThePage'
    BY <1>1, <2>2, EndsStep
  <2>4. refusals' * MaxConversions + 0 <= KnownBefore' + MaxConversions
    BY <1>1, <1>2, <2>1 DEF TextInv
  <2> QED
    BY <1>1, <2>1, <2>3, <2>4 DEF TextInv, Underway
<1>5. CASE call.conversions # MaxConversions /\ ~pdfFailed
  <2>1. call' = [call EXCEPT !.st = "converting", !.conversions = @ + 1] /\ refusals' = refusals /\ call \in CallRows
    BY <1>5 DEF MissingChunk, TextInv
  <2>2. /\ call' \in CallRows /\ call'.st = "converting" /\ call'.k = call.k /\ call'.offset = call.offset
        /\ call'.page = call.page /\ call'.conversions = call.conversions + 1
    <3>1. call.conversions + 1 \in 0 .. MaxConversions
      BY <1>5
    <3> QED
      BY <2>1, <3>1 DEF CallRows, Underway
  <2>3. call.k \notin pdfMeta \/ call.page <= call.offset + pdf[call.k] \/ call.k = Chunks
    BY <1>1, <1>2 DEF Skips
  <2>4. NewOrLast'
    BY <1>1, <2>2, <2>3 DEF NewOrLast
  <2>5. call'.k \in ChunkIds /\ call'.offset = PagesBefore(call.k)' /\ call'.page > call'.offset
    BY <1>1, <1>2, <2>2, BeforeStays DEF TextInv
  <2>6. refusals' * MaxConversions + (call'.conversions - 1) <= KnownBefore' + MaxConversions
    BY <1>1, <1>2, <2>1, <2>2 DEF TextInv
  <2>7. WindowHoldsThePage'
    BY <2>2 DEF WindowHoldsThePage
  <2> QED
    BY <1>1, <2>1, <2>2, <2>4, <2>5, <2>6, <2>7 DEF TextInv
<1> QED
  BY <1>3, <1>4, <1>5

LEMMA ConvertedSteps == ASSUME TextInv, Converted PROVE TextInv'
<1> DEFINE k == call.k
<1>1. /\ call.st = "converting" /\ UNCHANGED <<pdf, index, pdfFailed, refusals>> /\ Reads(call.k)
      /\ pdfMeta' = pdfMeta \cup {k} /\ pdfTexts' \subseteq pdfTexts \cup {k}
  BY DEF Converted, Keeps, KeepsText
<1>2. /\ call.st \in Underway /\ k \in ChunkIds /\ NewOrLast /\ call.conversions > 0
      /\ pdfMeta \subseteq ChunkIds /\ pdfTexts \subseteq pdfMeta
  BY <1>1 DEF TextInv, Underway
<1>3. /\ call' \in CallRows /\ WindowHoldsThePage' /\ call'.st \in {"page", "pastEnd", "walking"}
      /\ call'.conversions = call.conversions
      /\ call'.st = "walking" => /\ call.page > call.offset + pdf[call.k] /\ call.k # Chunks
                                 /\ call'.k \in ChunkIds /\ call'.offset = PagesBefore(call.k)'
                                 /\ call'.page > call'.offset
  BY <1>1, <1>2, ReadsStep
<1>4. /\ KnownBefore' \in Nat /\ KnownBefore' >= KnownBefore
      /\ k \notin pdfMeta /\ k # Chunks => KnownBefore' = KnownBefore + 1
  <2>1. IsFiniteSet(pdfMeta \ {Chunks})
    BY KnownTypes, FS_Subset
  <2>2. CASE k = Chunks
    <3>1. pdfMeta' \ {Chunks} = pdfMeta \ {Chunks}
      BY <1>1, <2>2
    <3> QED
      BY <2>2, <3>1, KnownTypes DEF KnownBefore
  <2>3. CASE k # Chunks
    <3>1. pdfMeta' \ {Chunks} = (pdfMeta \ {Chunks}) \cup {k}
      BY <1>1, <2>3
    <3> HIDE DEF k
    <3>2. KnownBefore' = IF k \in pdfMeta \ {Chunks} THEN KnownBefore ELSE KnownBefore + 1
      BY <2>1, <3>1, FS_AddElement DEF KnownBefore
    <3> QED
      BY <3>2, <2>3, KnownTypes
  <2> QED
    BY <2>2, <2>3
<1>5. refusals * MaxConversions + (call.conversions - 1) <= KnownBefore + MaxConversions
  BY <1>1 DEF TextInv
<1>6. ASSUME call'.st = "walking" PROVE refusals * MaxConversions + call.conversions <= KnownBefore' + MaxConversions
  <2>1. k \notin pdfMeta /\ k # Chunks
    <3>1. call.offset \in Nat /\ call.page \in Nat /\ pdf[call.k] \in Nat
      BY <1>2, CallTypes
    <3> QED
      BY <1>2, <1>3, <1>6, <3>1 DEF NewOrLast
  <2>2. KnownBefore' = KnownBefore + 1
    BY <1>4, <2>1
  <2> QED
    BY <1>5, <2>2, CallTypes
<1>7. ASSUME call'.st # "walking" PROVE refusals * MaxConversions + 0 <= KnownBefore' + MaxConversions
  BY <1>2, <1>4, <1>5, CallTypes
<1>8. pdfMeta' \subseteq ChunkIds /\ pdfTexts' \subseteq pdfMeta'
  BY <1>1, <1>2
<1>9. pdf' \in [ChunkIds -> Nat] /\ refusals' = refusals /\ refusals \in Nat
  BY <1>1 DEF TextInv
<1> HIDE DEF k
<1>10. call'.st \in Underway => call'.st = "walking"
  BY <1>3 DEF Underway
<1>11. refusals' * MaxConversions
          + (IF call'.st = "walking" THEN call'.conversions
             ELSE IF call'.st = "converting" THEN call'.conversions - 1 ELSE 0) <= KnownBefore' + MaxConversions
  BY <1>3, <1>6, <1>7, <1>9
<1> QED
  BY <1>3, <1>8, <1>9, <1>10, <1>11 DEF TextInv

LEMMA FailedSteps == ASSUME TextInv, Scanned \/ FailsOnce PROVE TextInv'
<1>1. call.st = "converting" /\ UNCHANGED <<pdf, pdfTexts, pdfMeta, refusals>> /\ Unavailable
  BY DEF Scanned, FailsOnce
<1>2. PICK how \in {"partial", "unavailable"} : Ends(how)
  BY <1>1 DEF Unavailable
<1>3. call' \in CallRows /\ call'.st = how /\ WindowHoldsThePage'
  BY <1>1, <1>2, EndsStep
<1>4. refusals' * MaxConversions + 0 <= KnownBefore' + MaxConversions
  <2>1. refusals * MaxConversions + (call.conversions - 1) <= KnownBefore + MaxConversions /\ call.conversions > 0
    BY <1>1 DEF TextInv
  <2>2. KnownBefore' = KnownBefore
    BY <1>1 DEF KnownBefore
  <2> QED
    BY <1>1, <2>1, <2>2, CallTypes
<1> QED
  BY <1>1, <1>3, <1>4 DEF TextInv, Underway

LEMMA ForgetsSteps == ASSUME TextInv, Forgets PROVE TextInv'
<1>1. UNCHANGED <<pdf, index, call>> /\ pdfMeta' \subseteq pdfMeta /\ pdfTexts' \subseteq pdfTexts /\ pdfTexts' \subseteq pdfMeta'
  BY DEF Forgets, TextInv
<1>2. WindowHoldsThePage'
  <2>1. WindowHoldsThePage
    BY DEF TextInv
  <2>2. /\ PagesBefore(call.k)' = PagesBefore(call.k) /\ PagesBefore(Chunks + 1)' = PagesBefore(Chunks + 1)
    <3>1. \A i : PagesBefore(i)' = PagesBefore(i)
      BY <1>1, BeforeStays
    <3> QED
      BY <1>1, <3>1
  <2> QED
    BY <1>1, <2>1, <2>2 DEF WindowHoldsThePage
<1>3. call.st \in Underway => PagesBefore(call.k)' = PagesBefore(call.k)
  BY <1>1, BeforeStays
<1>4. NewOrLast => NewOrLast'
  BY <1>1 DEF NewOrLast
<1>5. CASE pdfMeta' = pdfMeta /\ refusals' = refusals
  <2>1. KnownBefore' = KnownBefore
    BY <1>5 DEF KnownBefore
  <2> QED
    BY <1>1, <1>2, <1>3, <1>4, <1>5, <2>1 DEF TextInv
<1>6. CASE refusals' = 0
  <2>1. IsFiniteSet(pdfMeta' \ {Chunks})
    BY <1>1, KnownTypes, FS_Subset
  <2>2. KnownBefore' \in Nat
    BY <2>1, FS_CardinalityType DEF KnownBefore
  <2>3. refusals' * MaxConversions = 0 /\ call.conversions <= MaxConversions /\ call.conversions \in Nat
        /\ MaxConversions \in Nat
    BY <1>6, CallTypes
  <2>4. refusals' * MaxConversions
          + (IF call'.st = "walking" THEN call'.conversions
             ELSE IF call'.st = "converting" THEN call'.conversions - 1 ELSE 0) <= KnownBefore' + MaxConversions
    BY <1>1, <2>2, <2>3
  <2> QED
    BY <1>1, <1>2, <1>3, <1>4, <1>6, <2>4 DEF TextInv
<1> QED
  BY <1>5, <1>6 DEF Forgets

LEMMA TextSteps == ASSUME TextInv, TextNext PROVE TextInv'
BY AskSteps, WalkSteps, MissingSteps, ConvertedSteps, FailedSteps, ForgetsSteps DEF TextNext

LEMMA TextStays == ASSUME TextInv, UNCHANGED textVars PROVE TextInv'
<1>1. UNCHANGED <<pdf, pdfTexts, pdfMeta, call, refusals>>
  BY DEF textVars
<1>2. KnownBefore' = KnownBefore
  BY <1>1 DEF KnownBefore
<1>4. \A k : PagesBefore(k)' = PagesBefore(k)
  BY <1>1, BeforeStays
<1>3. WindowHoldsThePage' /\ (NewOrLast => NewOrLast')
  BY <1>1, <1>2, <1>4 DEF TextInv, WindowHoldsThePage, NewOrLast
<1> QED
  BY <1>1, <1>2, <1>3, <1>4 DEF TextInv

-----------------------------------------------------------------------------
(* The scan that shares its pages among libraries (ZoteroSearch).          *)

Clamped(left) == IF left < ScanPerLibrary THEN left ELSE ScanPerLibrary
\* What a library that is given `share` spends when its turn is over.
Spends(l, share) == IF share = 0 \/ world.fails[l] = "first" THEN 0 ELSE Planned(l, share)

CasesAreCounted == \A l \in Libs : world.cases[l] \in Nat \ {0}

\* SequentialLeft, one library after the other.
NextLeft(l, left) ==
    IF Clamped(left) = 0 \/ world.fails[l] = "first" THEN left ELSE left - Planned(l, Clamped(left))
IsSequence(g, n) == g = [l \in 1 .. n |-> IF l = 1 THEN ScanTotal ELSE NextLeft(l - 1, g[l - 1])]

LEMMA LibsTypes == Libs = 1 .. Groups + 1 /\ Groups + 1 \in Nat /\ 1 \in Libs /\ \A l \in Libs : l \in Nat /\ 1 <= l
BY SearchAssumption DEF Libs

LEMMA SequenceExists == ASSUME NEW n \in Nat PROVE n > 0 => \E g : IsSequence(g, n)
<1> DEFINE Bad == {m \in Nat : m > 0 /\ ~\E g : IsSequence(g, m)}
<1> SUFFICES ASSUME Bad # {} PROVE FALSE
  OBVIOUS
<1>1. PICK m \in Bad : \A i \in Bad : m <= i
  <2>1. Bad \subseteq Nat
    OBVIOUS
  <2> HIDE DEF Bad
  <2> QED
    BY <2>1, LeastOfNats
<1>2. m # 1
  <2> DEFINE g == [l \in 1 .. 1 |-> ScanTotal]
  <2>1. g = [l \in 1 .. 1 |-> IF l = 1 THEN ScanTotal ELSE NextLeft(l - 1, g[l - 1])]
    OBVIOUS
  <2>2. IsSequence(g, 1)
    BY <2>1 DEF IsSequence
  <2> QED
    BY <2>2
<1>3. m - 1 \in Nat /\ m - 1 > 0 /\ m - 1 \notin Bad
  BY <1>1, <1>2
<1>4. PICK g : IsSequence(g, m - 1)
  BY <1>3
<1> DEFINE h == [l \in 1 .. m |-> IF l = 1 THEN ScanTotal ELSE NextLeft(l - 1, g[l - 1])]
<1>5. \A l \in 1 .. m - 1 : h[l] = g[l]
  BY <1>4 DEF IsSequence
<1>6. h = [l \in 1 .. m |-> IF l = 1 THEN ScanTotal ELSE NextLeft(l - 1, h[l - 1])]
  <2>1. \A l \in 1 .. m : l # 1 => l - 1 \in 1 .. m - 1
    BY <1>3
  <2>2. \A l \in 1 .. m : l # 1 => h[l - 1] = g[l - 1]
    BY <1>5, <2>1
  <2> QED
    BY <2>2
<1>7. IsSequence(h, m)
  BY <1>6 DEF IsSequence
<1> QED
  BY <1>1, <1>7

LEMMA LeftInSequence ==
    /\ SequentialLeft[1] = ScanTotal
    /\ \A l \in Libs : l # 1 => SequentialLeft[l] = NextLeft(l - 1, SequentialLeft[l - 1])
<1> DEFINE step(g, l) == LET left == g[l - 1]
                             share == IF left < ScanPerLibrary THEN left ELSE ScanPerLibrary
                         IN  IF share = 0 \/ world.fails[l - 1] = "first" THEN left ELSE left - Planned(l - 1, share)
           IsLeft(g) == g = [l \in Libs |-> IF l = 1 THEN ScanTotal ELSE step(g, l)]
<1>1. SequentialLeft = CHOOSE g : IsLeft(g)
  BY DEF SequentialLeft
<1>2. \A g, l : step(g, l) = NextLeft(l - 1, g[l - 1])
  BY DEF NextLeft, Clamped
<1> HIDE DEF step
<1>3. \E g : IsLeft(g)
  <2>1. PICK g : IsSequence(g, Groups + 1)
    BY SequenceExists, LibsTypes, SearchAssumption
  <2>2. g = [l \in Libs |-> IF l = 1 THEN ScanTotal ELSE step(g, l)]
    BY <1>2, <2>1, LibsTypes DEF IsSequence
  <2> QED
    BY <2>2
<1>4. IsLeft(SequentialLeft)
  BY <1>1, <1>3
<1>5. \A l \in Libs : SequentialLeft[l] = IF l = 1 THEN ScanTotal ELSE step(SequentialLeft, l)
  BY <1>4
<1> QED
  BY <1>2, <1>5, LibsTypes

LEMMA StepOfSequence ==
    ASSUME CasesAreCounted, NEW l \in Libs, NEW left \in Nat
    PROVE  /\ Clamped(left) \in Nat /\ Clamped(left) <= left /\ Clamped(left) <= ScanPerLibrary
           /\ Spends(l, Clamped(left)) \in Nat /\ Spends(l, Clamped(left)) <= Clamped(left)
           /\ NextLeft(l, left) \in Nat /\ NextLeft(l, left) = left - Spends(l, Clamped(left))
<1>1. Clamped(left) \in Nat /\ Clamped(left) <= left /\ Clamped(left) <= ScanPerLibrary
  BY SearchAssumption DEF Clamped
<1>2. Planned(l, Clamped(left)) \in Nat /\ Planned(l, Clamped(left)) <= Clamped(left)
  BY <1>1 DEF CasesAreCounted, Planned
<1> QED
  BY <1>1, <1>2 DEF Spends, NextLeft

LEMMA LeftNeverNegative ==
    ASSUME CasesAreCounted
    PROVE  \A l \in Libs : SequentialLeft[l] \in Nat
<1> DEFINE Bad == {l \in Libs : SequentialLeft[l] \notin Nat}
<1> SUFFICES ASSUME Bad # {} PROVE FALSE
  OBVIOUS
<1>1. PICK m \in Bad : \A i \in Bad : m <= i
  <2>1. Bad \subseteq Nat
    BY LibsTypes
  <2> HIDE DEF Bad
  <2> QED
    BY <2>1, LeastOfNats
<1>2. m # 1
  BY <1>1, LeftInSequence, SearchAssumption
<1>3. m - 1 \in Libs /\ m - 1 \notin Bad
  BY <1>1, <1>2, LibsTypes
<1>4. NextLeft(m - 1, SequentialLeft[m - 1]) \in Nat
  BY <1>3, StepOfSequence
<1> QED
  BY <1>1, <1>2, <1>4, LeftInSequence

-----------------------------------------------------------------------------
ShareInTurn(l) == Clamped(SequentialLeft[l])
SpentInTurn(l) == Spends(l, ShareInTurn(l))

\* What the code knows of library k: what it spends, or at most its share.
Counted == [k \in Libs |-> IF scanned[k].spent # Unknown THEN scanned[k].spent ELSE scanned[k].share]

RowOK(l) ==
    /\ scanned[l].run \in {"none", "skipped", "first", "rest", "read", "failed"}
    /\ scanned[l].run = "none" <=> ~Started(l)
    /\ ~Started(l) => scanned[l].spent = Unknown
    /\ Started(l) =>
          /\ l \in Searched /\ (\A k \in 1 .. l - 1 : Started(k))
          /\ scanned[l].share = ShareInTurn(l)
          /\ scanned[l].spent = (IF scanned[l].run = "first" THEN Unknown ELSE SpentInTurn(l))
          /\ scanned[l].run \in {"first", "rest", "read", "failed"} => scanned[l].share # 0
          /\ scanned[l].run = "rest" => world.fails[l] # "first"

LEMMA LeftIsSum == \A l : Left(l) = ScanTotal - SumOver(Counted, 1 .. l - 1)
BY DEF Left, SumOver, Counted

\* What is left before l as the code sees it is never more than what will be
\* left, and the same once all before it have told what they spend.
LEMMA LeftIsKnown ==
    ASSUME CasesAreCounted, NEW l \in Libs, \A k \in 1 .. l - 1 : Started(k) /\ RowOK(k)
    PROVE  /\ Left(l) \in Int /\ Left(l) <= SequentialLeft[l]
           /\ (\A k \in 1 .. l - 1 : scanned[k].spent # Unknown) => Left(l) = SequentialLeft[l]
<1> DEFINE AllKnown(n) == \A k \in 1 .. n - 1 : scanned[k].spent # Unknown
           Fine(n) == Left(n) \in Int /\ Left(n) <= SequentialLeft[n] /\ (AllKnown(n) => Left(n) = SequentialLeft[n])
           Bad == {n \in 1 .. l : ~Fine(n)}
<1> SUFFICES ASSUME Bad # {} PROVE FALSE
  BY LibsTypes
<1>1. PICK m \in Bad : \A i \in Bad : m <= i
  <2>1. Bad \subseteq Nat
    BY LibsTypes
  <2> HIDE DEF Bad
  <2> QED
    BY <2>1, LeastOfNats
<1>2. m # 1
  <2>1. Left(1) = ScanTotal
    BY LeftIsSum, FoldOfPrefix, SearchAssumption
  <2> QED
    BY <1>1, <2>1, LeftInSequence, SearchAssumption
<1>3. m \in Libs /\ m - 1 \in Libs /\ m - 1 \in 1 .. l - 1 /\ m - 1 \notin Bad /\ m - 1 \in Nat /\ m - 1 > 0 /\ l \in Nat
      /\ m \in Nat
  BY <1>1, <1>2, LibsTypes
<1> HIDE DEF Bad
<1>4. /\ SequentialLeft[m - 1] \in Nat /\ SpentInTurn(m - 1) \in Nat /\ ShareInTurn(m - 1) \in Nat
      /\ SpentInTurn(m - 1) <= ShareInTurn(m - 1)
      /\ SequentialLeft[m] = SequentialLeft[m - 1] - SpentInTurn(m - 1)
  <2>1. SequentialLeft[m - 1] \in Nat
    BY <1>3, LeftNeverNegative
  <2> QED
    BY <1>2, <1>3, <2>1, StepOfSequence, LeftInSequence DEF SpentInTurn, ShareInTurn
<1>5. \A k \in 1 .. m - 1 : Counted[k] \in Nat
  <2> SUFFICES ASSUME NEW k \in 1 .. m - 1 PROVE Counted[k] \in Nat
    OBVIOUS
  <2>1. k \in Libs /\ k \in 1 .. l - 1
    BY <1>3, LibsTypes
  <2>2. Spends(k, ShareInTurn(k)) \in Nat /\ ShareInTurn(k) \in Nat
    BY <2>1, LeftNeverNegative, StepOfSequence DEF ShareInTurn
  <2>3. scanned[k].share = ShareInTurn(k) /\ scanned[k].spent \in {Unknown, SpentInTurn(k)}
    BY <2>1 DEF RowOK
  <2> QED
    BY <2>1, <2>2, <2>3 DEF Counted, SpentInTurn
<1>6. Left(m) = Left(m - 1) - Counted[m - 1]
  <2>1. SumOver(Counted, 1 .. m - 1) = SumOver(Counted, 1 .. (m - 1) - 1) + Counted[m - 1]
        /\ SumOver(Counted, 1 .. m - 1) \in Nat
    BY <1>3, <1>5, FoldOfPrefix
  <2>2. SumOver(Counted, 1 .. (m - 1) - 1) \in Nat
    <3>1. (m - 1) - 1 \in Nat /\ \A k \in 1 .. (m - 1) - 1 : k \in 1 .. m - 1
      BY <1>3
    <3> QED
      BY <1>5, <3>1, FoldOfPrefix
  <2>3. Left(m) = ScanTotal - SumOver(Counted, 1 .. m - 1) /\ Left(m - 1) = ScanTotal - SumOver(Counted, 1 .. (m - 1) - 1)
    BY LeftIsSum
  <2>4. Counted[m - 1] \in Nat /\ ScanTotal \in Nat
    BY <1>3, <1>5, SearchAssumption
  <2> QED
    BY <2>1, <2>2, <2>3, <2>4
<1>7. /\ Counted[m - 1] \in Nat /\ Counted[m - 1] >= SpentInTurn(m - 1)
      /\ scanned[m - 1].spent # Unknown => Counted[m - 1] = SpentInTurn(m - 1)
  <2>1. Started(m - 1) /\ RowOK(m - 1)
    BY <1>3
  <2>2. scanned[m - 1].share = ShareInTurn(m - 1) /\ scanned[m - 1].spent \in {Unknown, SpentInTurn(m - 1)}
    BY <2>1 DEF RowOK
  <2> QED
    BY <1>3, <1>4, <2>2 DEF Counted
<1>8. Fine(m - 1)
  BY <1>3 DEF Bad
<1>9. AllKnown(m) => AllKnown(m - 1) /\ scanned[m - 1].spent # Unknown
  BY <1>3
<1> HIDE DEF AllKnown
<1>10. Fine(m)
  BY <1>4, <1>6, <1>7, <1>8, <1>9
<1> QED
  BY <1>1, <1>10 DEF Bad

ScanRows == [share : Int, spent : Int, run : {"none", "skipped", "first", "rest", "read", "failed"}]

SearchInv ==
    /\ CasesAreCounted
    /\ scanned \in [Libs -> ScanRows] /\ \A l \in Libs : RowOK(l)
    /\ stage = "searched" => lists # {} /\ lists \subseteq Answers
    /\ answer.kind \in {"none", "found", "nothing"}
    /\ answer.kind # "none" => /\ stage = "searched" /\ ScanOver /\ (Warned => answer.warned)
                               /\ answer.kind = "nothing" => "hits" \notin lists

LEMMA ScanStarts == ASSUME SearchInit PROVE SearchInv
<1>1. CasesAreCounted
  BY SearchAssumption DEF SearchInit, CasesAreCounted
<1>2. \A l \in Libs : scanned[l] = NotScanned
  BY DEF SearchInit
<1>3. NotScanned \in ScanRows /\ NotScanned.share = Unknown /\ NotScanned.spent = Unknown /\ NotScanned.run = "none"
  BY DEF NotScanned, ScanRows, Unknown
<1>4. \A l \in Libs : RowOK(l)
  BY <1>2, <1>3 DEF RowOK, Started
<1> QED
  BY <1>1, <1>2, <1>3, <1>4 DEF SearchInv, SearchInit

LEMMA InTurnStays ==
    ASSUME world' = world
    PROVE  \A l : /\ ShareInTurn(l)' = ShareInTurn(l) /\ SpentInTurn(l)' = SpentInTurn(l)
                  /\ \A s : Planned(l, s)' = Planned(l, s)
BY DEF ShareInTurn, SpentInTurn, SequentialLeft, Planned, Clamped, Spends

LEMMA SearchedTypes ==
    /\ Searched \subseteq Libs
    /\ \A l \in Searched : \A k \in 1 .. l - 1 : k \in Searched
BY LibsTypes, SearchAssumption DEF Searched, Readable

LEMMA ScanWaitsForSomebody ==
    ASSUME SearchInv, listed, ~ScanOver
    PROVE  \/ \E l \in Libs : scanned[l].run \in {"first", "rest"}
           \/ \E l \in Searched : ~Started(l) /\ (\A k \in 1 .. l - 1 : Started(k)) /\ Certain(l)
<1> SUFFICES ASSUME \A l \in Libs : scanned[l].run \notin {"first", "rest"}
             PROVE  \E l \in Searched : ~Started(l) /\ (\A k \in 1 .. l - 1 : Started(k)) /\ Certain(l)
  OBVIOUS
<1> DEFINE Left0 == {l \in Searched : ~Started(l)}
<1>1. \A l \in Libs : RowOK(l) /\ l \in Nat
  BY LibsTypes DEF SearchInv
<1>2. Left0 # {}
  <2>1. PICK l \in Searched : scanned[l].run \notin {"skipped", "read", "failed"}
    BY DEF ScanOver
  <2>2. l \in Libs /\ RowOK(l)
    BY <1>1, SearchedTypes
  <2>3. scanned[l].run = "none"
    BY <2>1, <2>2 DEF RowOK
  <2> QED
    BY <2>2, <2>3 DEF RowOK
<1>3. PICK l \in Left0 : \A k \in Left0 : l <= k
  <2>1. Left0 \subseteq Nat
    BY <1>1, SearchedTypes
  <2> HIDE DEF Left0
  <2> QED
    BY <1>2, <2>1, LeastOfNats
<1>4. l \in Searched /\ ~Started(l) /\ l \in Nat
  BY <1>1, <1>3, SearchedTypes
<1>5. \A k \in 1 .. l - 1 : Started(k) /\ k \in Libs
  BY <1>3, <1>4, SearchedTypes
<1>6. \A k \in 1 .. l - 1 : scanned[k].spent # Unknown
  <2> SUFFICES ASSUME NEW k \in 1 .. l - 1 PROVE scanned[k].spent # Unknown
    OBVIOUS
  <2>1. k \in Libs /\ Started(k) /\ RowOK(k) /\ scanned[k].run # "first"
    BY <1>1, <1>5
  <2>2. SpentInTurn(k) \in Nat
    BY <2>1, LeftNeverNegative, StepOfSequence DEF SearchInv, SpentInTurn, ShareInTurn
  <2> QED
    BY <2>1, <2>2 DEF RowOK, Unknown
<1>7. Certain(l)
  BY <1>6 DEF Certain
<1> QED
  BY <1>4, <1>5, <1>7

LEMMA SearchHolds == ASSUME SearchInv PROVE ScanIsSequential /\ NothingFoundIsProven
<1>1. ScanIsSequential
  <2>1. \A l \in Libs : Started(l) => scanned[l].share = Clamped(SequentialLeft[l])
    BY DEF SearchInv, RowOK, ShareInTurn
  <2> QED
    BY <2>1, ScanWaitsForSomebody DEF ScanIsSequential, Clamped
<1>2. ASSUME answer.kind = "nothing", ~answer.warned
      PROVE  /\ lists = {"empty"} /\ Searched \cup Omitted = Libs
             /\ \A l \in Searched : scanned[l].run \in {"read", "skipped"}
  <2>1. /\ lists # {} /\ lists \subseteq Answers /\ "hits" \notin lists /\ ScanOver /\ ~Warned
    BY <1>2 DEF SearchInv
  <2>2. lists = {"empty"}
    BY <2>1 DEF Answers, Warned
  <2>3. Readable = Libs
    BY <2>1 DEF Warned, Readable
  <2> QED
    BY <2>1, <2>2, <2>3, SearchedTypes DEF Warned, ScanOver, Omitted
<1> QED
  BY <1>1, <1>2 DEF NothingFoundIsProven

\* One library's row moves on.
LEMMA OneRowMoves ==
    ASSUME SearchInv, NEW l \in Libs, NEW row \in ScanRows, scanned' = [scanned EXCEPT ![l] = row],
           UNCHANGED <<world, listed, stage, titles, lists, answer>>, answer.kind = "none",
           row.share # Unknown, row.run # "none", l \in Searched, \A k \in 1 .. l - 1 : Started(k),
           row.share = ShareInTurn(l), row.spent = (IF row.run = "first" THEN Unknown ELSE SpentInTurn(l)),
           row.run \in {"first", "rest", "read", "failed"} => row.share # 0,
           row.run = "rest" => world.fails[l] # "first"
    PROVE  SearchInv'
<1>1. /\ scanned' \in [Libs -> ScanRows] /\ scanned'[l] = row
      /\ \A k \in Libs \ {l} : scanned'[k] = scanned[k]
  BY DEF SearchInv
<1>2. CasesAreCounted' /\ Searched' = Searched
  BY DEF SearchInv, CasesAreCounted, Searched, Readable
<1>3. \A k \in Libs : Started(k) => Started(k)'
  BY <1>1 DEF Started
<1>4. ASSUME NEW k \in Libs PROVE RowOK(k)'
  <2>1. /\ ShareInTurn(k)' = ShareInTurn(k) /\ SpentInTurn(k)' = SpentInTurn(k)
    BY InTurnStays
  <2>2. (\A i \in 1 .. k - 1 : Started(i)) => (\A i \in 1 .. k - 1 : Started(i)')
    BY <1>3, LibsTypes
  <2>3. CASE k = l
    <3>1. Started(k)'
      BY <1>1, <2>3 DEF Started
    <3> QED
      BY <1>1, <1>2, <2>1, <2>2, <2>3, <3>1 DEF RowOK, ScanRows
  <2>4. CASE k # l
    <3>1. scanned'[k] = scanned[k] /\ RowOK(k) /\ (Started(k)' <=> Started(k))
      BY <1>1, <2>4 DEF SearchInv, Started
    <3> QED
      BY <1>2, <2>1, <2>2, <3>1 DEF RowOK
  <2> QED
    BY <2>3, <2>4
<1> QED
  BY <1>1, <1>2, <1>4 DEF SearchInv

LEMMA ListSteps == ASSUME SearchInv, ListGroups PROVE SearchInv'
<1>1. ~listed /\ listed' /\ UNCHANGED <<world, scanned, stage, titles, lists, answer>>
  BY DEF ListGroups
<1>2. Searched \subseteq Searched'
  BY <1>1, SearchAssumption, LibsTypes DEF Searched, Readable
<1>3. answer.kind = "none"
  BY <1>1 DEF SearchInv, ScanOver
<1>4. ASSUME NEW l \in Libs PROVE RowOK(l)'
  <2>1. RowOK(l) /\ ShareInTurn(l)' = ShareInTurn(l) /\ SpentInTurn(l)' = SpentInTurn(l)
    BY <1>1, InTurnStays DEF SearchInv
  <2> QED
    BY <1>1, <1>2, <2>1 DEF RowOK, Started
<1> QED
  BY <1>1, <1>3, <1>4 DEF SearchInv, CasesAreCounted

LEMMA StartSteps == ASSUME SearchInv, NEW l \in Libs, StartScan(l) PROVE SearchInv'
<1>1. /\ l \in Searched /\ ~Started(l) /\ (\A k \in 1 .. l - 1 : Started(k)) /\ Certain(l)
      /\ UNCHANGED <<world, listed, stage, titles, lists, answer>>
  BY DEF StartScan
<1>2. \A k \in 1 .. l - 1 : k \in Libs /\ RowOK(k)
  BY LibsTypes DEF SearchInv
<1>3. /\ Left(l) \in Int /\ Left(l) <= SequentialLeft[l] /\ SequentialLeft[l] \in Nat
      /\ (\A k \in 1 .. l - 1 : scanned[k].spent # Unknown) => Left(l) = SequentialLeft[l]
  BY <1>1, <1>2, LeftIsKnown, LeftNeverNegative DEF SearchInv
<1>4. Share(l) = ShareInTurn(l) /\ ShareInTurn(l) \in Nat
  BY <1>1, <1>3, SearchAssumption DEF Certain, Share, ShareInTurn, Clamped
<1> DEFINE row == IF Share(l) = 0 THEN [share |-> 0, spent |-> 0, run |-> "skipped"]
                  ELSE [share |-> Share(l), spent |-> Unknown, run |-> "first"]
<1>5. scanned' = [scanned EXCEPT ![l] = row]
  BY DEF StartScan
<1>6. /\ row \in ScanRows /\ row.share = ShareInTurn(l) /\ row.run \in {"skipped", "first"}
      /\ row.spent = (IF row.run = "first" THEN Unknown ELSE 0)
      /\ (row.run = "skipped" <=> ShareInTurn(l) = 0)
  <2>1. Unknown \in Int
    BY DEF Unknown
  <2> QED
    BY <1>4, <2>1 DEF ScanRows
<1>7. row.run # "first" => SpentInTurn(l) = 0
  BY <1>6 DEF SpentInTurn, Spends
<1>8. answer.kind = "none"
  <2>1. scanned[l].run = "none"
    BY <1>1 DEF SearchInv, RowOK
  <2> QED
    BY <1>1, <2>1 DEF SearchInv, ScanOver
<1>9. row.share # Unknown
  BY <1>4, <1>6 DEF Unknown
<1> HIDE DEF row
<1> QED
  BY <1>1, <1>4, <1>5, <1>6, <1>7, <1>8, <1>9, OneRowMoves

LEMMA ScanSteps == ASSUME SearchInv, NEW l \in Libs, FirstPage(l) \/ RestOfPages(l) PROVE SearchInv'
<1>1. /\ UNCHANGED <<world, listed, stage, titles, lists, answer>> /\ scanned[l].run \in {"first", "rest"}
  BY DEF FirstPage, RestOfPages
<1>2. /\ RowOK(l) /\ scanned[l] \in ScanRows /\ scanned \in [Libs -> ScanRows] /\ Started(l) /\ l \in Searched
      /\ scanned[l].share = ShareInTurn(l) /\ scanned[l].share # Unknown /\ scanned[l].share # 0
      /\ \A k \in 1 .. l - 1 : Started(k)
  BY <1>1 DEF SearchInv, RowOK, Started
<1>3. answer.kind = "none"
  BY <1>1, <1>2 DEF SearchInv, ScanOver
<1>4. SpentInTurn(l) = (IF world.fails[l] = "first" THEN 0 ELSE Planned(l, scanned[l].share)) /\ SpentInTurn(l) \in Nat
  <2>1. SequentialLeft[l] \in Nat
    BY LeftNeverNegative DEF SearchInv
  <2>2. SpentInTurn(l) \in Nat
    BY <2>1, StepOfSequence DEF SearchInv, SpentInTurn, ShareInTurn
  <2> QED
    BY <1>2, <2>2 DEF SpentInTurn, Spends
<1>5. CASE FirstPage(l)
  <2> DEFINE row == IF world.fails[l] = "first" THEN [scanned[l] EXCEPT !.run = "failed", !.spent = 0]
                    ELSE [scanned[l] EXCEPT !.run = "rest", !.spent = Planned(l, scanned[l].share)]
  <2>1. scanned' = [scanned EXCEPT ![l] = row]
    BY <1>2, <1>5 DEF FirstPage
  <2>2. /\ row \in ScanRows /\ row.share = scanned[l].share /\ row.spent = SpentInTurn(l)
        /\ row.run \in {"failed", "rest"} /\ (row.run = "rest" => world.fails[l] # "first")
    <3>0. PICK r \in ScanRows, n \in Nat : r = scanned[l] /\ n = SpentInTurn(l) /\ n \in Int
      BY <1>2, <1>4
    <3>1. CASE world.fails[l] = "first"
      <4>1. row = [r EXCEPT !.run = "failed", !.spent = n]
        BY <1>4, <3>0, <3>1
      <4> HIDE DEF row
      <4> QED
        BY <3>0, <4>1 DEF ScanRows
    <3>2. CASE world.fails[l] # "first"
      <4>1. row = [r EXCEPT !.run = "rest", !.spent = n]
        BY <1>4, <3>0, <3>2
      <4> HIDE DEF row
      <4> QED
        BY <3>0, <3>2, <4>1 DEF ScanRows
    <3> QED
      BY <3>1, <3>2
  <2> HIDE DEF row
  <2> QED
    BY <1>1, <1>2, <1>3, <2>1, <2>2, OneRowMoves
<1>6. CASE RestOfPages(l)
  <2> DEFINE row == [scanned[l] EXCEPT !.run = IF world.fails[l] = "later" THEN "failed" ELSE "read"]
  <2>1. scanned' = [scanned EXCEPT ![l] = row] /\ scanned[l].run = "rest"
    BY <1>2, <1>6 DEF RestOfPages
  <2>2. /\ row \in ScanRows /\ row.share = scanned[l].share /\ row.spent = SpentInTurn(l)
        /\ row.run \in {"failed", "read"}
    BY <1>2, <2>1 DEF ScanRows, RowOK
  <2> HIDE DEF row
  <2> QED
    BY <1>1, <1>2, <1>3, <2>1, <2>2, OneRowMoves
<1> QED
  BY <1>5, <1>6

LEMMA ScanRests ==
    ASSUME SearchInv, UNCHANGED <<world, listed, scanned>>
    PROVE  /\ CasesAreCounted' /\ scanned' \in [Libs -> ScanRows] /\ \A l \in Libs : RowOK(l)'
           /\ Searched' = Searched /\ (ScanOver => ScanOver')
<1>1. Searched' = Searched /\ CasesAreCounted'
  BY DEF Searched, Readable, SearchInv, CasesAreCounted
<1>2. \A l \in Libs : RowOK(l)'
  BY <1>1, InTurnStays DEF SearchInv, RowOK, Started
<1> QED
  BY <1>1, <1>2 DEF SearchInv, ScanOver

LEMMA RoundSteps == ASSUME SearchInv, TitleRound \/ WidenedRound PROVE SearchInv'
<1>1. UNCHANGED <<world, listed, scanned, answer>> /\ stage # "searched"
  BY DEF TitleRound, WidenedRound
<1>2. answer.kind = "none"
  BY <1>1 DEF SearchInv
<1>3. stage' = "searched" => lists' # {} /\ lists' \subseteq Answers
  <2>1. CASE TitleRound
    BY <2>1 DEF TitleRound, AfterRound, Outcomes, Answers
  <2>2. CASE WidenedRound
    BY <2>2 DEF WidenedRound, AfterRound, Outcomes, Answers
  <2> QED
    BY <2>1, <2>2
<1> QED
  BY <1>1, <1>2, <1>3, ScanRests DEF SearchInv

LEMMA AnswerSteps == ASSUME SearchInv, Answer PROVE SearchInv'
<1>1. UNCHANGED <<world, listed, scanned, stage, titles, lists>> /\ stage = "searched" /\ ScanOver
  BY DEF Answer
<1>2. PICK matches \in BOOLEAN :
        answer' = [kind |-> IF matches \/ "hits" \in lists THEN "found" ELSE "nothing", warned |-> Warned]
  BY DEF Answer
<1>3. answer'.kind \in {"found", "nothing"} /\ (answer'.kind = "nothing" => "hits" \notin lists)
  BY <1>2
<1>4. answer'.warned = Warned
  BY <1>2
<1>5. Warned' => Warned
  BY <1>1, ScanRests DEF Warned
<1> QED
  BY <1>1, <1>3, <1>4, <1>5, ScanRests DEF SearchInv

LEMMA LibrarySearchSteps == ASSUME SearchInv, SearchNext PROVE SearchInv'
BY ListSteps, StartSteps, ScanSteps, RoundSteps, AnswerSteps DEF SearchNext

LEMMA SearchStays == ASSUME SearchInv, UNCHANGED searchVars PROVE SearchInv'
<1>1. UNCHANGED <<world, listed, scanned, stage, titles, lists, answer>>
  BY DEF searchVars
<1>2. Warned' => Warned
  BY <1>1, ScanRests DEF Warned
<1> QED
  BY <1>1, <1>2, ScanRests DEF SearchInv

-----------------------------------------------------------------------------
(* A text of the EU and the places it is asked for (EuDocuments).          *)

Texts == Identifiers \X {"en", "cs"}
Kinds == {"none", "text", "not found", "outage", "budget"}
EuResults == [kind : Kinds, id : Identifiers \cup {"none"}, language : {"en", "cs", "none"}, fallback : BOOLEAN]
EuCalls == [n : {1, 2}, faults : Nat, chain : Seq(Texts), left : Int, retried : BOOLEAN,
            failure : {"none", "outage", "budget"}, none : SUBSET Texts, stubs : SUBSET Texts, failed : SUBSET Texts,
            requests : BOOLEAN, result : EuResults]

DocOK ==
    /\ euDoc.given \subseteq Identifiers /\ euDoc.given # {} /\ euDoc.language \in {"en", "cs", "??"}
    /\ euDoc.held \subseteq Texts
    /\ euDoc.language = "??" => euDoc.held \cap (Identifiers \X {"??"}) = {}

\* How many places lie behind the call, and that the rest is the end of the chain.
Behind(c) == Len(Chain) - Len(c.chain)
IsRest(c) ==
    /\ c.chain \in Seq(Texts) /\ Len(c.chain) <= Len(Chain)
    /\ \A i \in 1 .. Len(c.chain) : c.chain[i] = Chain[Behind(c) + i]

LEMMA WantedTypes == ASSUME DocOK PROVE wanted \in {"en", "cs"} /\ (euDoc.language # "??" => wanted = euDoc.language)
BY DEF DocOK, wanted

LEMMA PlacesOf ==
    ASSUME DocOK, NEW id \in Identifiers
    PROVE  /\ TextsBy(id) \in Seq(Texts) /\ Len(TextsBy(id)) \in Nat
           /\ id \notin euDoc.given => Len(TextsBy(id)) = 0
           /\ id \in euDoc.given => /\ Len(TextsBy(id)) >= 1 /\ TextsBy(id)[1] = <<id, wanted>>
                                    /\ wanted = "en" => Len(TextsBy(id)) = 1
                                    /\ wanted # "en" => Len(TextsBy(id)) = 2 /\ TextsBy(id)[2] = <<id, "en">>
<1>1. <<id, wanted>> \in Texts /\ <<id, "en">> \in Texts
  BY WantedTypes DEF Texts
<1>2. CASE id \notin euDoc.given
  <2>1. TextsBy(id) = <<>>
    BY <1>2 DEF TextsBy
  <2> QED
    BY <1>2, <2>1
<1>3. CASE id \in euDoc.given /\ wanted = "en"
  <2>1. TextsBy(id) = <<<<id, "en">>>>
    BY <1>3 DEF TextsBy
  <2> QED
    BY <1>1, <1>3, <2>1
<1>4. CASE id \in euDoc.given /\ wanted # "en"
  <2>1. TextsBy(id) = <<<<id, wanted>>, <<id, "en">>>>
    BY <1>4 DEF TextsBy
  <2> QED
    BY <1>1, <1>4, <2>1
<1> QED
  BY <1>2, <1>3, <1>4

\* The places before InfoCuria's.
CellarEnd == Len(TextsBy("celex")) + Len(TextsBy("ecli"))

LEMMA ChainTypes ==
    ASSUME DocOK
    PROVE  /\ Chain \in Seq(Texts) /\ Len(Chain) \in Nat /\ CellarEnd \in Nat /\ \A i \in 1 .. Len(Chain) : Chain[i] \in Texts
           /\ Len(Chain) = CellarEnd + Len(TextsBy("blob"))
           /\ \A i \in 1 .. Len(Chain) : Chain[i][1] = "blob" <=> i > CellarEnd
           /\ \A i \in 1 .. Len(TextsBy("blob")) : Chain[CellarEnd + i] = TextsBy("blob")[i]
           /\ \A i \in 1 .. Len(Chain) : wanted # "en" /\ Chain[i][2] = "en" => i > 1 /\ Chain[i - 1] = <<Chain[i][1], wanted>>
           /\ \A i \in 1 .. Len(Chain) : Chain[i][2] \in {wanted, "en"}
<1> DEFINE a == TextsBy("celex")
           b == TextsBy("ecli")
           c == TextsBy("blob")
           ab == a \o b
<1>1. a \in Seq(Texts) /\ b \in Seq(Texts) /\ c \in Seq(Texts) /\ Len(a) \in Nat /\ Len(b) \in Nat /\ Len(c) \in Nat
  BY PlacesOf DEF Identifiers
<1>2. /\ \A i \in 1 .. Len(a) : a[i][1] = "celex" /\ (wanted # "en" /\ a[i][2] = "en" => i > 1 /\ a[i - 1] = <<"celex", wanted>>)
      /\ \A i \in 1 .. Len(b) : b[i][1] = "ecli" /\ (wanted # "en" /\ b[i][2] = "en" => i > 1 /\ b[i - 1] = <<"ecli", wanted>>)
      /\ \A i \in 1 .. Len(c) : c[i][1] = "blob" /\ (wanted # "en" /\ c[i][2] = "en" => i > 1 /\ c[i - 1] = <<"blob", wanted>>)
  <2> SUFFICES ASSUME NEW id \in Identifiers, NEW i \in 1 .. Len(TextsBy(id))
               PROVE  TextsBy(id)[i][1] = id
                      /\ (wanted # "en" /\ TextsBy(id)[i][2] = "en" => i > 1 /\ TextsBy(id)[i - 1] = <<id, wanted>>)
    BY DEF Identifiers
  <2>1. CASE id \notin euDoc.given
    <3>1. Len(TextsBy(id)) = 0
      BY <2>1, PlacesOf
    <3> QED
      BY <3>1
  <2>2. CASE id \in euDoc.given /\ wanted = "en"
    <3>1. Len(TextsBy(id)) = 1 /\ TextsBy(id)[1] = <<id, wanted>>
      BY <2>2, PlacesOf
    <3> QED
      BY <2>2, <3>1
  <2>3. CASE id \in euDoc.given /\ wanted # "en"
    <3>1. Len(TextsBy(id)) = 2 /\ TextsBy(id)[1] = <<id, wanted>> /\ TextsBy(id)[2] = <<id, "en">>
      BY <2>3, PlacesOf
    <3>2. i = 1 \/ i = 2
      BY <3>1
    <3> QED
      BY <2>3, <3>1, <3>2
  <2> QED
    BY <2>1, <2>2, <2>3
<1> HIDE DEF a, b, c
<1>3. /\ ab \in Seq(Texts) /\ Len(ab) = Len(a) + Len(b) /\ Len(ab) \in Nat
      /\ \A i \in 1 .. Len(ab) : ab[i] = IF i <= Len(a) THEN a[i] ELSE b[i - Len(a)]
  <2>1. a \in Seq(Texts) /\ b \in Seq(Texts)
    BY <1>1
  <2> QED
    BY <2>1, ConcatProperties
<1>4. \A i \in 1 .. Len(ab) : ab[i][1] # "blob" /\ (wanted # "en" /\ ab[i][2] = "en" => i > 1 /\ ab[i - 1] = <<ab[i][1], wanted>>)
  <2> SUFFICES ASSUME NEW i \in 1 .. Len(ab)
               PROVE  ab[i][1] # "blob" /\ (wanted # "en" /\ ab[i][2] = "en" => i > 1 /\ ab[i - 1] = <<ab[i][1], wanted>>)
    OBVIOUS
  <2>1. CASE i <= Len(a)
    BY <1>1, <1>2, <1>3, <2>1
  <2>2. CASE ~(i <= Len(a))
    <3>1. i - Len(a) \in 1 .. Len(b) /\ ab[i] = b[i - Len(a)]
      BY <1>1, <1>3, <2>2
    <3>2. i - Len(a) > 1 => ab[i - 1] = b[(i - Len(a)) - 1]
      BY <1>1, <1>3, <2>2
    <3> QED
      BY <1>1, <1>2, <2>2, <3>1, <3>2
  <2> QED
    BY <2>1, <2>2
<1> HIDE DEF ab
<1>5. Chain = ab \o c
  BY DEF Chain, a, b, c, ab
<1>6. /\ Chain \in Seq(Texts) /\ Len(Chain) = Len(ab) + Len(c) /\ Len(Chain) \in Nat
      /\ \A i \in 1 .. Len(Chain) : Chain[i] = IF i <= Len(ab) THEN ab[i] ELSE c[i - Len(ab)]
  <2>1. /\ ab \o c \in Seq(Texts) /\ Len(ab \o c) = Len(ab) + Len(c) /\ Len(ab \o c) \in Nat
        /\ \A i \in 1 .. Len(ab \o c) : (ab \o c)[i] = IF i <= Len(ab) THEN ab[i] ELSE c[i - Len(ab)]
    <3>1. ab \in Seq(Texts) /\ c \in Seq(Texts)
      BY <1>1, <1>3
    <3> QED
      BY <3>1, ConcatProperties
  <2> QED
    BY <1>5, <2>1
<1>7. CellarEnd = Len(ab)
  BY <1>3 DEF CellarEnd, a, b
<1>8. \A i \in 1 .. Len(Chain) : Chain[i][1] = "blob" <=> i > CellarEnd
  <2> SUFFICES ASSUME NEW i \in 1 .. Len(Chain) PROVE Chain[i][1] = "blob" <=> i > Len(ab)
    BY <1>7
  <2>1. CASE i > Len(ab)
    <3>1. i - Len(ab) \in 1 .. Len(c) /\ Chain[i] = c[i - Len(ab)]
      BY <1>1, <1>3, <1>6, <2>1
    <3> QED
      BY <1>2, <2>1, <3>1
  <2>2. CASE ~(i > Len(ab))
    <3>1. i \in 1 .. Len(ab) /\ Chain[i] = ab[i]
      BY <1>1, <1>3, <1>6, <2>2
    <3> QED
      BY <1>4, <2>2, <3>1
  <2> QED
    BY <2>1, <2>2
<1>9. \A i \in 1 .. Len(c) : Chain[Len(ab) + i] = c[i]
  <2> SUFFICES ASSUME NEW i \in 1 .. Len(c) PROVE Chain[Len(ab) + i] = c[i]
    OBVIOUS
  <2>1. Len(ab) + i \in 1 .. Len(Chain) /\ ~(Len(ab) + i <= Len(ab)) /\ (Len(ab) + i) - Len(ab) = i
    BY <1>1, <1>3, <1>6
  <2> QED
    BY <1>6, <2>1
<1>10. ASSUME NEW i \in 1 .. Len(Chain), wanted # "en", Chain[i][2] = "en"
       PROVE  i > 1 /\ Chain[i - 1] = <<Chain[i][1], wanted>>
  <2>1. CASE i <= Len(ab)
    <3>1. i \in 1 .. Len(ab) /\ Chain[i] = ab[i]
      BY <1>3, <1>6, <2>1
    <3>2. i > 1 => Chain[i - 1] = ab[i - 1]
      BY <1>3, <1>6, <2>1
    <3> QED
      BY <1>4, <1>10, <3>1, <3>2
  <2>2. CASE ~(i <= Len(ab))
    <3>1. i - Len(ab) \in 1 .. Len(c) /\ Chain[i] = c[i - Len(ab)]
      BY <1>1, <1>3, <1>6, <2>2
    <3>2. ASSUME i - Len(ab) > 1 PROVE Chain[i - 1] = c[(i - Len(ab)) - 1]
      <4>1. i - 1 \in 1 .. Len(Chain) /\ ~(i - 1 <= Len(ab)) /\ (i - 1) - Len(ab) = (i - Len(ab)) - 1
        BY <1>3, <1>6, <3>2
      <4> QED
        BY <1>6, <4>1
    <3> QED
      BY <1>2, <1>3, <1>10, <2>2, <3>1, <3>2
  <2> QED
    BY <2>1, <2>2
<1>11. \A i \in 1 .. Len(Chain) : Chain[i] \in Texts
  BY <1>6
<1>12. ASSUME NEW i \in 1 .. Len(Chain) PROVE Chain[i][2] \in {wanted, "en"}
  <2>1. ASSUME NEW id \in Identifiers, NEW j \in 1 .. Len(TextsBy(id)) PROVE TextsBy(id)[j][2] \in {wanted, "en"}
    <3>1. id \in euDoc.given
      BY PlacesOf, <2>1
    <3>2. CASE wanted = "en"
      <4>1. Len(TextsBy(id)) = 1 /\ TextsBy(id)[1] = <<id, wanted>>
        BY <3>1, <3>2, PlacesOf
      <4> QED
        BY <4>1
    <3>3. CASE wanted # "en"
      <4>1. Len(TextsBy(id)) = 2 /\ TextsBy(id)[1] = <<id, wanted>> /\ TextsBy(id)[2] = <<id, "en">>
        BY <3>1, <3>3, PlacesOf
      <4>2. j = 1 \/ j = 2
        BY <4>1
      <4> QED
        BY <4>1, <4>2
    <3> QED
      BY <3>2, <3>3
  <2>2. /\ \A j \in 1 .. Len(a) : a[j][2] \in {wanted, "en"}
        /\ \A j \in 1 .. Len(b) : b[j][2] \in {wanted, "en"}
        /\ \A j \in 1 .. Len(c) : c[j][2] \in {wanted, "en"}
    BY <2>1 DEF a, b, c, Identifiers
  <2>3. CASE i <= Len(ab)
    <3>1. Chain[i] = ab[i] /\ i \in 1 .. Len(ab)
      BY <1>3, <1>6, <2>3
    <3>2. CASE i <= Len(a)
      BY <1>1, <1>3, <2>2, <3>1, <3>2
    <3>3. CASE ~(i <= Len(a))
      <4>1. i - Len(a) \in 1 .. Len(b) /\ ab[i] = b[i - Len(a)]
        BY <1>1, <1>3, <3>1, <3>3
      <4> QED
        BY <2>2, <3>1, <4>1
    <3> QED
      BY <3>2, <3>3
  <2>4. CASE ~(i <= Len(ab))
    <3>1. i - Len(ab) \in 1 .. Len(c) /\ Chain[i] = c[i - Len(ab)]
      BY <1>1, <1>3, <1>6, <2>4
    <3> QED
      BY <2>2, <3>1
  <2> QED
    BY <2>3, <2>4
<1> QED
  BY <1>6, <1>7, <1>8, <1>9, <1>10, <1>11, <1>12 DEF c

\* A call whose walk is not over, or ended with a text: what lies behind it was
\* answered, at least for InfoCuria's places and where nothing failed.
WalkOK(c) ==
    /\ IsRest(c)
    /\ c.failed = {} <=> c.failure = "none"
    /\ c.failed # {} => Behind(c) >= CellarEnd
    /\ \A i \in 1 .. Behind(c) : c.failed = {} \/ i > CellarEnd =>
          \/ Chain[i] \in c.none \cup c.stubs
          \/ Chain[i] = <<"blob", "en">> /\ wanted # "en" /\ c.chain = <<>> /\ ~(c.left >= EuMinLeft)

\* EuAnswersAreHonest of a call.
Honest(c) ==
    LET r == c.result
        outOfTime == ~(c.left >= EuMinLeft)
        asked == c.none \cup c.stubs \cup c.failed
    IN  /\ r.kind = "text" =>
              /\ <<r.id, r.language>> \in euDoc.held
              /\ r.fallback <=> r.language # euDoc.language
              /\ r.fallback => <<r.id, euDoc.language>> \notin euDoc.held \ c.stubs
        /\ r.kind = "not found" =>
              /\ c.failed = {}
              /\ \A i \in DOMAIN Chain : Chain[i] \in asked \/ (outOfTime /\ Chain[i] = <<"blob", "en">>)
        /\ r.kind \in {"outage", "budget"} =>
              /\ c.failed # {} \/ outOfTime
              /\ "blob" \in euDoc.given => <<"blob", wanted>> \in asked \/ outOfTime

LEMMA HonestCalls == Honest(euCall) <=> EuAnswersAreHonest
BY DEF Honest, EuAnswersAreHonest, hasBudget

LEMMA StillOpen == ASSUME NEW c, c.result.kind = "none" PROVE Honest(c)
BY DEF Honest

LEMMA HeadOfRest ==
    ASSUME DocOK, NEW c, IsRest(c), c.chain # <<>>
    PROVE  /\ Behind(c) \in Nat /\ Behind(c) + 1 \in 1 .. Len(Chain) /\ Behind(c) + 1 > 0
           /\ Head(c.chain) = Chain[Behind(c) + 1] /\ Head(c.chain) \in Texts
           /\ Head(c.chain) = <<Head(c.chain)[1], Head(c.chain)[2]>>
<1>1. Len(c.chain) \in Nat /\ Len(c.chain) >= 1 /\ Head(c.chain) = c.chain[1] /\ Len(Chain) \in Nat
  BY ChainTypes DEF IsRest
<1>2. Behind(c) \in Nat /\ Behind(c) + 1 \in 1 .. Len(Chain)
  BY <1>1 DEF IsRest, Behind
<1>3. Head(c.chain) = Chain[Behind(c) + 1]
  BY <1>1 DEF IsRest
<1> QED
  BY <1>2, <1>3, ChainTypes DEF Texts

\* The place before an English one was answered.
LEMMA WantedWasAsked ==
    ASSUME DocOK, NEW c, WalkOK(c), c.chain # <<>>, wanted # "en", Head(c.chain)[2] # wanted
    PROVE  Head(c.chain)[2] = "en" /\ <<Head(c.chain)[1], wanted>> \in c.none \cup c.stubs
<1> DEFINE i == Behind(c) + 1
<1>1. i \in 1 .. Len(Chain) /\ Head(c.chain) = Chain[i] /\ Behind(c) \in Nat /\ i \in Nat
  BY HeadOfRest DEF WalkOK
<1>2. Chain[i][2] = "en"
  BY <1>1, ChainTypes
<1>3. i > 1 /\ Chain[i - 1] = <<Chain[i][1], wanted>>
  BY <1>1, <1>2, ChainTypes
<1>4. i - 1 = Behind(c) /\ i - 1 \in 1 .. Behind(c) /\ i - 1 \in 1 .. Len(Chain)
  BY <1>1, <1>3
<1>5. c.failed = {} \/ i - 1 > CellarEnd
  <2> SUFFICES ASSUME c.failed # {} PROVE i - 1 > CellarEnd
    OBVIOUS
  <2>1. i > CellarEnd
    BY <1>1, ChainTypes DEF WalkOK
  <2>2. Chain[i][1] = "blob" /\ Chain[i - 1][1] = "blob"
    BY <1>1, <1>3, <2>1, ChainTypes
  <2> QED
    BY <1>4, <2>2, ChainTypes
<1>6. Chain[i - 1] \in c.none \cup c.stubs
  <2>1. \/ Chain[i - 1] \in c.none \cup c.stubs
        \/ c.chain = <<>>
    BY <1>4, <1>5 DEF WalkOK
  <2> QED
    BY <2>1
<1> QED
  BY <1>1, <1>2, <1>3, <1>6

LEMMA NextIsOK ==
    ASSUME DocOK, NEW c, WalkOK(c), c.chain # <<>>, NEW d,
           d.chain = Tail(c.chain), d.failed = c.failed, d.failure = c.failure,
           c.none \subseteq d.none, c.stubs \subseteq d.stubs, Head(c.chain) \in d.none \cup d.stubs
    PROVE  WalkOK(d) /\ Behind(d) = Behind(c) + 1
<1>1. /\ Behind(c) \in Nat /\ Behind(c) + 1 \in 1 .. Len(Chain) /\ Head(c.chain) = Chain[Behind(c) + 1]
  BY HeadOfRest DEF WalkOK
<1>2. /\ c.chain \in Seq(Texts) /\ Len(c.chain) \in Nat /\ Len(c.chain) <= Len(Chain) /\ Len(Chain) \in Nat
      /\ \A i \in 1 .. Len(c.chain) : c.chain[i] = Chain[Behind(c) + i]
  BY ChainTypes DEF WalkOK, IsRest
<1>3. /\ d.chain \in Seq(Texts) /\ Len(d.chain) = Len(c.chain) - 1
      /\ \A i \in 1 .. Len(c.chain) - 1 : d.chain[i] = c.chain[i + 1]
  BY <1>2
<1>4. Behind(d) = Behind(c) + 1
  <2>1. \A n, k, l \in Int : l = k - 1 => n - l = (n - k) + 1
    OBVIOUS
  <2>2. Len(d.chain) \in Int /\ Len(c.chain) \in Int /\ Len(Chain) \in Int
    BY <1>2, <1>3
  <2> QED
    BY <1>3, <2>1, <2>2 DEF Behind
<1>5. IsRest(d)
  <2>1. ASSUME NEW i \in 1 .. Len(c.chain) - 1 PROVE d.chain[i] = Chain[Behind(d) + i]
    <3>0. \A b, j \in Int : b + (j + 1) = (b + 1) + j
      OBVIOUS
    <3>2. i + 1 \in 1 .. Len(c.chain) /\ i \in Int
      BY <1>2
    <3>3. Behind(c) + (i + 1) = (Behind(c) + 1) + i
      BY <1>1, <3>0, <3>2
    <3>1. i + 1 \in 1 .. Len(c.chain) /\ Behind(c) + (i + 1) = Behind(d) + i
      BY <1>4, <3>2, <3>3
    <3> QED
      BY <1>2, <1>3, <3>1
  <2> QED
    BY <1>2, <1>3, <2>1 DEF IsRest
<1>6. \A i \in 1 .. Behind(d) : d.failed = {} \/ i > CellarEnd => Chain[i] \in d.none \cup d.stubs
  <2> SUFFICES ASSUME NEW i \in 1 .. Behind(d), d.failed = {} \/ i > CellarEnd PROVE Chain[i] \in d.none \cup d.stubs
    OBVIOUS
  <2>1. CASE i = Behind(c) + 1
    BY <1>1, <2>1
  <2>2. CASE i # Behind(c) + 1
    <3>1. i \in 1 .. Behind(c)
      BY <1>1, <1>4, <2>2
    <3>2. Chain[i] \in c.none \cup c.stubs
      BY <3>1 DEF WalkOK
    <3> QED
      BY <3>2
  <2> QED
    BY <2>1, <2>2
<1> QED
  BY <1>1, <1>4, <1>5, <1>6, ChainTypes DEF WalkOK

\* The places of InfoCuria are the end of the chain.
LEMMA BlobsAreTheEnd ==
    ASSUME DocOK, NEW d, d.chain = TextsBy("blob"), d.failed # {}, d.failure # "none"
    PROVE  WalkOK(d)
<1>1. TextsBy("blob") \in Seq(Texts) /\ Len(TextsBy("blob")) \in Nat
  BY PlacesOf DEF Identifiers
<1>2. Behind(d) = CellarEnd /\ CellarEnd \in Nat
  <2>1. \A k, l \in Int : (k + l) - l = k
    OBVIOUS
  <2>2. Len(Chain) = CellarEnd + Len(TextsBy("blob")) /\ CellarEnd \in Nat
    BY ChainTypes
  <2>3. Behind(d) = (CellarEnd + Len(TextsBy("blob"))) - Len(TextsBy("blob"))
    BY <2>2 DEF Behind
  <2> HIDE DEF CellarEnd
  <2> QED
    BY <1>1, <2>1, <2>2, <2>3
<1>3. IsRest(d)
  BY <1>1, <1>2, ChainTypes DEF IsRest
<1> QED
  BY <1>2, <1>3 DEF WalkOK

\* InfoCuria's English text is left out for want of time.
LEMMA EnglishIsLeftOut ==
    ASSUME DocOK, NEW c, WalkOK(c), c.chain # <<>>, Head(c.chain)[1] = "blob", Head(c.chain)[2] # wanted,
           ~(c.left >= EuMinLeft), NEW d, d.chain = <<>>, d.failed = c.failed, d.failure = c.failure,
           d.none = c.none, d.stubs = c.stubs, d.left = c.left
    PROVE  WalkOK(d)
<1> DEFINE i == Behind(c) + 1
<1>1. i \in 1 .. Len(Chain) /\ Head(c.chain) = Chain[i] /\ Behind(c) \in Nat /\ i \in Nat /\ Chain[i] = <<Chain[i][1], Chain[i][2]>>
  BY HeadOfRest DEF WalkOK
<1>2. Chain[i][2] = "en" /\ wanted # "en"
  BY <1>1, ChainTypes
<1>3. i > CellarEnd /\ CellarEnd \in Nat /\ Len(Chain) = CellarEnd + Len(TextsBy("blob"))
  BY <1>1, ChainTypes
<1>4. i = Len(Chain)
  <2> DEFINE j == i - CellarEnd
  <2>1. j \in 1 .. Len(TextsBy("blob")) /\ i = CellarEnd + j /\ j \in Nat
    BY <1>1, <1>3, PlacesOf DEF Identifiers
  <2>2. TextsBy("blob")[j] = Chain[i]
    BY <2>1, ChainTypes
  <2>3. "blob" \in euDoc.given
    BY <2>1, PlacesOf DEF Identifiers
  <2>4. Len(TextsBy("blob")) = 2 /\ TextsBy("blob")[1] = <<"blob", wanted>>
    BY <1>2, <2>3, PlacesOf DEF Identifiers
  <2>5. j # 1
    BY <1>2, <2>2, <2>4
  <2> HIDE DEF j
  <2>6. j = 2
    <3>1. \A k \in 1 .. 2 : k = 1 \/ k = 2
      OBVIOUS
    <3>2. j \in 1 .. 2
      BY <2>1, <2>4
    <3> QED
      BY <2>5, <3>1, <3>2
  <2> HIDE DEF i
  <2> QED
    BY <1>3, <2>1, <2>4, <2>6
<1>5. Chain[i] = <<"blob", "en">>
  BY <1>1, <1>2
<1>6. Behind(d) = Len(Chain) /\ Len(Chain) \in Nat /\ IsRest(d)
  BY ChainTypes DEF Behind, IsRest
<1>7. \A k \in 1 .. Behind(c) : c.failed = {} \/ k > CellarEnd => Chain[k] \in c.none \cup c.stubs
  BY DEF WalkOK
<1>8. \A k \in 1 .. Len(Chain) : k = i \/ k \in 1 .. Behind(c)
  BY <1>1, <1>4
<1> HIDE DEF i
<1>9. \A k \in 1 .. Behind(d) : d.failed = {} \/ k > CellarEnd =>
          \/ Chain[k] \in d.none \cup d.stubs
          \/ Chain[k] = <<"blob", "en">> /\ wanted # "en" /\ d.chain = <<>> /\ ~(d.left >= EuMinLeft)
  BY <1>2, <1>5, <1>6, <1>7, <1>8
<1>10. d.failed # {} => Behind(d) >= CellarEnd
  BY <1>3, <1>6, <1>1
<1> QED
  BY <1>6, <1>9, <1>10 DEF WalkOK

CallOK(c) ==
    /\ c \in EuCalls
    /\ c.result.kind \in {"none", "text"} => WalkOK(c)
    /\ Honest(c) /\ c.none \cap euDoc.held = {}
    /\ c.result.kind = "text" => c.chain # <<>> /\ Head(c.chain) = <<c.result.id, c.result.language>>

KeptOK == euTexts \subseteq euDoc.held /\ euMisses \subseteq Texts \ euDoc.held

\* The call under way, but for the time and the requests it has cost.
Alike(c) ==
    /\ c \in EuCalls /\ c.n = euCall.n /\ c.chain = euCall.chain /\ c.result = euCall.result
    /\ c.failure = euCall.failure /\ c.failed = euCall.failed /\ c.none = euCall.none /\ c.stubs = euCall.stubs

LEMMA AttemptCosts ==
    ASSUME euCall \in EuCalls
    PROVE  Alike(euCall) /\ \A ticks \in AttemptTicks : Alike(AskedFor(ticks)) /\ Alike(Faulty(ticks))
<1>1. AttemptTicks \subseteq Int
  <2>1. {EuTimeout, euCall.left} \in SUBSET Int /\ EuTimeout \in Int /\ euCall.left \in Int
    BY EuAssumption DEF EuCalls
  <2>2. EuTimeout <= euCall.left \/ euCall.left <= EuTimeout
    BY <2>1
  <2>3. \E x \in {EuTimeout, euCall.left} : \A y \in {EuTimeout, euCall.left} : x <= y
    BY <2>1, <2>2
  <2>4. Min({EuTimeout, euCall.left}) \in {EuTimeout, euCall.left}
    BY <2>3 DEF Min
  <2> QED
    BY <2>1, <2>4 DEF AttemptTicks
<1>2. ASSUME NEW ticks \in Int PROVE Alike(AskedFor(ticks)) /\ Alike(Faulty(ticks))
  <2>1. /\ AskedFor(ticks) = [euCall EXCEPT !.left = @ - ticks, !.requests = TRUE]
        /\ Faulty(ticks) = [AskedFor(ticks) EXCEPT !.faults = @ + 1]
    BY DEF AskedFor, Faulty
  <2>2. euCall.left - ticks \in Int /\ euCall.faults + 1 \in Nat
    BY <1>2 DEF EuCalls
  <2>3. Alike(AskedFor(ticks)) /\ AskedFor(ticks).faults = euCall.faults
    BY <2>1, <2>2 DEF Alike, EuCalls
  <2>4. ASSUME NEW a, Alike(a) PROVE Alike([a EXCEPT !.faults = @ + 1])
    <3>1. a.faults + 1 \in Nat
      BY <2>4 DEF Alike, EuCalls
    <3> QED
      BY <2>4, <3>1 DEF Alike, EuCalls
  <2>5. Alike(Faulty(ticks))
    BY <2>1, <2>3, <2>4
  <2> QED
    BY <2>3, <2>5
<1> QED
  BY <1>1, <1>2 DEF Alike

LEMMA AlikeWalks ==
    ASSUME CallOK(euCall), NotOver, euCall.chain # <<>>, NEW c, Alike(c)
    PROVE  WalkOK(c) /\ c.chain # <<>> /\ c.result.kind = "none" /\ c.none \cap euDoc.held = {} /\ c \in EuCalls
<1>1. WalkOK(euCall)
  BY DEF CallOK, NotOver
<1> QED
  BY <1>1 DEF WalkOK, CallOK, NotOver, Alike, IsRest, Behind

\* A text is served.
LEMMA ServedHonestly ==
    ASSUME DocOK, CallOK(euCall), NotOver, euCall.chain # <<>>, textSought \in euDoc.held, NEW c, Alike(c)
    PROVE  /\ CallOK(Serves(c)) /\ Serves(c).none = c.none /\ Serves(c).n = c.n /\ Serves(c).requests = c.requests
           /\ Serves(c).result.kind = "text" /\ Serves(c).chain = c.chain
<1> DEFINE d == Serves(c)
           t == Head(c.chain)
           r == d.result
<1>1. WalkOK(c) /\ c.chain # <<>> /\ c.none \cap euDoc.held = {} /\ c \in EuCalls /\ t = textSought
  BY AlikeWalks DEF Alike, textSought
<1>2. t \in Texts /\ t = <<t[1], t[2]>> /\ t[1] \in Identifiers /\ t[2] \in {"en", "cs"}
  BY <1>1, HeadOfRest DEF WalkOK, Texts
<1>3. r = [kind |-> "text", id |-> t[1], language |-> t[2], fallback |-> t[2] # wanted \/ euDoc.language = "??"]
  BY <1>1 DEF Serves, EuCalls
<1>4. /\ d \in EuCalls /\ d.chain = c.chain /\ d.none = c.none /\ d.stubs = c.stubs
      /\ d.failed = c.failed /\ d.failure = c.failure /\ d.left = c.left
  <2>1. r \in EuResults
    BY <1>2, <1>3 DEF EuResults, Kinds
  <2>2. d = [c EXCEPT !.result = r]
    BY <1>1, <1>3 DEF Serves
  <2> HIDE DEF r
  <2> QED
    BY <1>1, <2>1, <2>2 DEF EuCalls
<1> HIDE DEF d
<1>5. WalkOK(d)
  BY <1>1, <1>4 DEF WalkOK, IsRest, Behind
<1>0. /\ r.kind = "text" /\ r.id = t[1] /\ r.language = t[2]
      /\ r.fallback = (t[2] # wanted \/ euDoc.language = "??")
  BY <1>3
<1> HIDE DEF r, t
<1>6. r.fallback <=> r.language # euDoc.language
  <2>1. CASE euDoc.language = "??"
    BY <1>0, <1>2, <2>1
  <2>2. CASE euDoc.language # "??"
    <3>1. wanted = euDoc.language
      BY <2>2, WantedTypes
    <3> QED
      BY <1>0, <2>2, <3>1
  <2> QED
    BY <2>1, <2>2
<1>7. r.fallback => <<r.id, euDoc.language>> \notin euDoc.held \ c.stubs
  <2>1. CASE euDoc.language = "??"
    <3>1. <<t[1], "??">> \in Identifiers \X {"??"}
      BY <1>2
    <3> QED
      BY <1>0, <2>1, <3>1 DEF DocOK
  <2>2. CASE euDoc.language # "??" /\ t[2] # wanted
    <3>1. wanted = euDoc.language
      BY <2>2, WantedTypes
    <3>2. wanted # "en"
      <4>1. t[2] \in {wanted, "en"}
        BY <1>1, HeadOfRest, ChainTypes DEF WalkOK, t
      <4> QED
        BY <2>2, <4>1
    <3>3. <<t[1], wanted>> \in c.none \cup c.stubs
      BY <1>1, <2>2, <3>2, WantedWasAsked DEF t
    <3> QED
      BY <1>0, <1>1, <3>1, <3>3
  <2> QED
    BY <1>0, <2>1, <2>2
<1>8. Honest(d)
  BY <1>0, <1>1, <1>2, <1>4, <1>6, <1>7 DEF Honest, r
<1>9. d.result = r
  BY DEF r
<1>10. d.chain # <<>> /\ Head(d.chain) = <<r.id, r.language>>
  BY <1>0, <1>1, <1>2, <1>4 DEF t
<1>11. Serves(c).n = c.n /\ Serves(c).requests = c.requests /\ Serves(c).none = c.none /\ Serves(c).chain = c.chain
  BY <1>1 DEF Serves, EuCalls
<1> QED
  BY <1>0, <1>1, <1>4, <1>5, <1>8, <1>9, <1>10, <1>11 DEF CallOK, d

\* A place has failed.
LEMMA FailedHonestly ==
    ASSUME DocOK, CallOK(euCall), NotOver, euCall.chain # <<>>, NEW c, Alike(c), NEW ending \in {"outage", "budget"}
    PROVE  /\ CallOK(Fails(c, ending)) /\ Fails(c, ending).none = c.none /\ Fails(c, ending).n = c.n
           /\ Fails(c, ending).result.kind # "text"
<1> DEFINE d == Fails(c, ending)
           t == Head(c.chain)
           told == IF c.failure = "none" THEN ending ELSE c.failure
           down == [c EXCEPT !.failed = @ \cup {t}]
<1>1. WalkOK(c) /\ c.chain # <<>> /\ c.result.kind = "none" /\ c.none \cap euDoc.held = {} /\ c \in EuCalls /\ t = textSought
  BY AlikeWalks DEF Alike, textSought
<1>2. t \in Texts /\ t = <<t[1], t[2]>>
  BY <1>1, HeadOfRest DEF WalkOK
<1>3. /\ down \in EuCalls /\ down.n = c.n /\ down.chain = c.chain /\ down.none = c.none /\ down.stubs = c.stubs
      /\ down.failed = c.failed \cup {t} /\ down.result = c.result /\ down.left = c.left
  BY <1>1, <1>2 DEF EuCalls
<1>4. CASE t[1] # "blob" /\ "blob" \in euDoc.given
  <2>1. d = [down EXCEPT !.failure = ending, !.chain = TextsBy("blob"), !.retried = FALSE]
    BY <1>1, <1>4 DEF Fails
  <2>2. TextsBy("blob") \in Seq(Texts)
    BY PlacesOf DEF Identifiers
  <2> HIDE DEF down, d
  <2>3. /\ d \in EuCalls /\ d.chain = TextsBy("blob") /\ d.failed # {} /\ d.failure # "none"
        /\ d.none = c.none /\ d.result = c.result /\ d.n = c.n
    BY <1>3, <2>1, <2>2 DEF EuCalls
  <2>4. WalkOK(d)
    BY <2>3, BlobsAreTheEnd
  <2> QED
    BY <1>1, <2>3, <2>4, StillOpen DEF CallOK, d
<1>5. CASE ~(t[1] # "blob" /\ "blob" \in euDoc.given)
  <2>1. d = CallEnds(down, told)
    BY <1>1, <1>5 DEF Fails
  <2>2. told \in {"outage", "budget"}
    BY <1>1 DEF EuCalls
  <2>3. /\ d \in EuCalls /\ d.chain = c.chain /\ d.failed = c.failed \cup {t} /\ d.none = c.none /\ d.stubs = c.stubs
        /\ d.result.kind = told /\ d.n = c.n
    <3> HIDE DEF told, down, d
    <3>1. down.result \in EuResults
      BY <1>3 DEF EuCalls
    <3>2. [down.result EXCEPT !.kind = told] \in EuResults /\ [down.result EXCEPT !.kind = told].kind = told
      BY <2>2, <3>1 DEF EuResults, Kinds
    <3>3. d = [down EXCEPT !.result = [down.result EXCEPT !.kind = told]]
      BY <1>3, <2>1 DEF CallEnds, EuCalls
    <3> QED
      BY <1>3, <3>2, <3>3 DEF EuCalls
  <2>4. "blob" \in euDoc.given => <<"blob", wanted>> \in d.none \cup d.stubs \cup d.failed
    <3> SUFFICES ASSUME "blob" \in euDoc.given PROVE <<"blob", wanted>> \in d.none \cup d.stubs \cup d.failed
      OBVIOUS
    <3>1. t[1] = "blob"
      BY <1>5
    <3>2. CASE t[2] = wanted
      BY <1>2, <2>3, <3>1, <3>2
    <3>3. CASE t[2] # wanted
      <4>1. t[2] \in {wanted, "en"}
        BY <1>1, HeadOfRest, ChainTypes DEF WalkOK
      <4>2. <<t[1], wanted>> \in c.none \cup c.stubs
        BY <1>1, <3>3, <4>1, WantedWasAsked
      <4> QED
        BY <2>3, <3>1, <4>2
    <3> QED
      BY <3>2, <3>3
  <2> HIDE DEF d, told, down
  <2>5. Honest(d)
    BY <2>2, <2>3, <2>4 DEF Honest
  <2> QED
    BY <1>1, <2>2, <2>3, <2>5 DEF CallOK, d
<1> QED
  BY <1>4, <1>5

\* A place has nothing, or a stub: the next one.
LEMMA NextHonestly ==
    ASSUME DocOK, CallOK(euCall), NotOver, euCall.chain # <<>>, NEW c, Alike(c), NEW d \in EuCalls,
           d.chain = Tail(c.chain), d.failed = c.failed, d.failure = c.failure, d.result = c.result,
           c.none \subseteq d.none, c.stubs \subseteq d.stubs, textSought \in d.none \cup d.stubs,
           d.none \cap euDoc.held = {}
    PROVE  CallOK(d) /\ d.result.kind = "none" /\ Behind(d) = Behind(euCall) + 1
<1>1. /\ WalkOK(c) /\ c.chain # <<>> /\ c.result.kind = "none" /\ Head(c.chain) = textSought /\ Behind(c) = Behind(euCall)
  BY AlikeWalks DEF Alike, textSought, Behind
<1>2. WalkOK(d) /\ Behind(d) = Behind(c) + 1
  BY <1>1, NextIsOK
<1> QED
  BY <1>1, <1>2, StillOpen DEF CallOK

LEMMA NoneHonestly ==
    ASSUME DocOK, CallOK(euCall), NotOver, euCall.chain # <<>>, NEW c, Alike(c), textSought \notin euDoc.held,
           NEW d, d = NextText([c EXCEPT !.none = @ \cup {textSought}])
    PROVE  /\ CallOK(d) /\ d.result.kind = "none" /\ Behind(d) = Behind(euCall) + 1
           /\ d.n = c.n /\ d.none = c.none \cup {textSought} /\ d.requests = c.requests
<1>1. /\ WalkOK(c) /\ c.chain # <<>> /\ c.none \cap euDoc.held = {} /\ c \in EuCalls /\ Head(c.chain) = textSought
  BY AlikeWalks DEF Alike, textSought
<1>2. c.none \cup {textSought} \in SUBSET Texts /\ Tail(c.chain) \in Seq(Texts)
  BY <1>1, HeadOfRest DEF WalkOK, EuCalls
<1>3. /\ d \in EuCalls /\ d.chain = Tail(c.chain) /\ d.failed = c.failed /\ d.failure = c.failure
      /\ d.none = c.none \cup {textSought} /\ d.stubs = c.stubs /\ d.result = c.result
      /\ d.n = c.n /\ d.requests = c.requests
  BY <1>1, <1>2 DEF NextText, EuCalls
<1>4. d.none \cap euDoc.held = {}
  BY <1>1, <1>3
<1> QED
  BY <1>3, <1>4, NextHonestly

LEMMA StubHonestly ==
    ASSUME DocOK, CallOK(euCall), NotOver, euCall.chain # <<>>, NEW c, Alike(c),
           NEW d, d = NextText([c EXCEPT !.stubs = @ \cup {textSought}])
    PROVE  CallOK(d) /\ d.result.kind = "none" /\ d.n = c.n /\ d.none = c.none
<1>1. /\ WalkOK(c) /\ c.chain # <<>> /\ c.none \cap euDoc.held = {} /\ c \in EuCalls /\ Head(c.chain) = textSought
  BY AlikeWalks DEF Alike, textSought
<1>2. c.stubs \cup {textSought} \in SUBSET Texts /\ Tail(c.chain) \in Seq(Texts)
  BY <1>1, HeadOfRest DEF WalkOK, EuCalls
<1>3. /\ d \in EuCalls /\ d.chain = Tail(c.chain) /\ d.failed = c.failed /\ d.failure = c.failure
      /\ d.none = c.none /\ d.stubs = c.stubs \cup {textSought} /\ d.result = c.result /\ d.n = c.n
  BY <1>1, <1>2 DEF NextText, EuCalls
<1>4. d.none \cap euDoc.held = {}
  BY <1>1, <1>3
<1> QED
  BY <1>3, <1>4, NextHonestly

LEMMA SameDocument == ASSUME euDoc' = euDoc, NEW d, CallOK(d), euCall' = d PROVE CallOK(euCall)'
<1>1. wanted' = wanted /\ Chain' = Chain /\ CellarEnd' = CellarEnd
  BY DEF wanted, Chain, CellarEnd, TextsBy
<1>2. Behind(euCall)' = Behind(d) /\ (IsRest(euCall)' <=> IsRest(d))
  BY <1>1 DEF Behind, IsRest
<1>3. WalkOK(euCall)' <=> WalkOK(d)
  BY <1>1, <1>2 DEF WalkOK
<1>4. Honest(euCall)' <=> Honest(d)
  BY <1>1 DEF Honest
<1> QED
  BY <1>3, <1>4 DEF CallOK

FirstTypes == euFirst \in [served : Identifiers \cup {"none"}, stubs : BOOLEAN, lapsed : BOOLEAN]

\* What the first page leaves for the second: until something lapses, the text
\* served is kept and the misses before it are remembered.
PageOne ==
    euCall.n = 1 /\ ~euFirst.lapsed =>
        /\ \A t \in euCall.none : t[1] # "blob" => t \in euMisses
        /\ euCall.result.kind = "text" => Head(euCall.chain) \in euTexts
PageTwo == euCall.n = 2 /\ euFirst.served \in {"celex", "ecli"} /\ ~euFirst.stubs /\ ~euFirst.lapsed
Leads(p) ==
    /\ p \in 1 .. Len(Chain) /\ p > Behind(euCall) /\ Chain[p][1] # "blob" /\ Chain[p] \in euTexts
    /\ \A i \in 1 .. (p - 1) : Chain[i] \in euMisses
SecondPage == PageTwo => ~euCall.requests /\ (NotOver => \E p \in 1 .. Len(Chain) : Leads(p))

EuInv == DocOK /\ CallOK(euCall) /\ KeptOK /\ FirstTypes /\ PageOne /\ SecondPage

\* On the second page the text kept lies ahead, behind remembered misses only.
LEMMA KeptTextAhead ==
    ASSUME EuInv, PageTwo, NotOver
    PROVE  /\ euCall.chain # <<>> /\ ~euCall.requests /\ textSought[1] # "blob" /\ ~MustAsk
           /\ textSought \notin euTexts => \E p \in 1 .. Len(Chain) : Leads(p) /\ p > Behind(euCall) + 1
<1>1. PICK p \in 1 .. Len(Chain) : Leads(p)
  BY DEF EuInv, SecondPage
<1>2. WalkOK(euCall) /\ euCall.chain \in Seq(Texts) /\ ~euCall.requests
  BY DEF EuInv, CallOK, NotOver, SecondPage, WalkOK, IsRest
<1>3. Len(Chain) \in Nat /\ CellarEnd \in Nat /\ p \in Nat /\ p <= Len(Chain) /\ p > Behind(euCall)
  BY <1>1, ChainTypes DEF EuInv, Leads
<1>4. euCall.chain # <<>>
  <2> SUFFICES ASSUME euCall.chain = <<>> PROVE FALSE
    OBVIOUS
  <2>1. Behind(euCall) = Len(Chain)
    BY <1>3 DEF Behind
  <2> QED
    BY <1>3, <2>1
<1> DEFINE i == Behind(euCall) + 1
<1>5. i \in 1 .. Len(Chain) /\ textSought = Chain[i] /\ Behind(euCall) \in Nat
  BY <1>2, <1>4, HeadOfRest DEF EuInv, WalkOK, textSought
<1>6. i <= p
  BY <1>3, <1>5
<1>7. Chain[i][1] # "blob"
  <2>1. ~(p > CellarEnd)
    BY <1>1, ChainTypes DEF Leads, EuInv
  <2>2. ~(i > CellarEnd)
    BY <1>3, <1>5, <1>6, <2>1
  <2> QED
    BY <1>5, <2>2, ChainTypes DEF EuInv
<1>8. CASE i = p
  <2>1. textSought \in euTexts
    BY <1>1, <1>5, <1>8 DEF Leads
  <2> QED
    BY <1>2, <1>4, <1>5, <1>7, <2>1 DEF MustAsk
<1>9. CASE i # p
  <2>1. p > i /\ i \in 1 .. (p - 1)
    BY <1>3, <1>5, <1>6, <1>9
  <2>2. textSought \in euMisses
    BY <1>1, <1>5, <2>1 DEF Leads
  <2> QED
    BY <1>1, <1>2, <1>4, <1>5, <1>7, <2>1, <2>2 DEF MustAsk
<1> QED
  BY <1>8, <1>9

LEMMA NewCallOK ==
    ASSUME DocOK, NEW n \in {1, 2}, NEW faults \in Nat
    PROVE  LET d == NewCall(n, faults)
           IN  /\ CallOK(d) /\ d.n = n /\ d.result.kind = "none" /\ d.none = {} /\ d.requests = FALSE /\ Behind(d) = 0
<1> DEFINE d == NewCall(n, faults)
<1>1. Chain \in Seq(Texts) /\ Len(Chain) \in Nat /\ CellarEnd \in Nat
  BY ChainTypes
<1>2. /\ d \in EuCalls /\ d.n = n /\ d.chain = Chain /\ d.failure = "none" /\ d.none = {} /\ d.stubs = {} /\ d.failed = {}
      /\ d.requests = FALSE /\ d.result.kind = "none"
  BY <1>1, EuAssumption DEF NewCall, EuCalls, EuResults, Kinds
<1> HIDE DEF d
<1>3. Behind(d) = 0
  BY <1>1, <1>2 DEF Behind
<1>4. IsRest(d)
  BY <1>1, <1>2, <1>3 DEF IsRest
<1>5. WalkOK(d)
  BY <1>2, <1>3, <1>4 DEF WalkOK
<1>6. CallOK(d)
  BY <1>2, <1>5, StillOpen DEF CallOK
<1> QED
  BY <1>2, <1>3, <1>6 DEF d

LEMMA EndedCall ==
    ASSUME NEW c \in EuCalls, NEW ending \in Kinds
    PROVE  /\ CallEnds(c, ending) \in EuCalls /\ CallEnds(c, ending).none = c.none /\ CallEnds(c, ending).left = c.left
           /\ CallEnds(c, ending).requests = c.requests /\ CallEnds(c, ending).result.kind = ending
           /\ CallEnds(c, ending).n = c.n /\ CallEnds(c, ending).stubs = c.stubs /\ CallEnds(c, ending).failed = c.failed
<1> DEFINE r == [c.result EXCEPT !.kind = ending]
<1>1. c.result \in EuResults
  BY DEF EuCalls
<1>2. r \in EuResults /\ r.kind = ending
  BY <1>1 DEF EuResults
<1>3. CallEnds(c, ending) = [c EXCEPT !.result = r]
  BY DEF CallEnds, EuCalls
<1> HIDE DEF r
<1> QED
  BY <1>2, <1>3 DEF EuCalls

LEMMA EuStarts == ASSUME EuInit PROVE EuInv
<1>1. PICK tool \in {"eurlex", "curia"}, given \in (SUBSET Identifiers) \ {{}}, language \in {"en", "cs", "??"} :
          /\ language = "??" => given = {"blob"}
          /\ \E texts \in SUBSET (given \X ({"en", language} \ {"??"})) :
                EuAsks([tool |-> tool, given |-> given, language |-> language, held |-> texts])
  BY DEF EuInit
<1>2. PICK texts \in SUBSET (given \X ({"en", language} \ {"??"})) :
          EuAsks([tool |-> tool, given |-> given, language |-> language, held |-> texts])
  BY <1>1
<1>3. /\ euDoc.given = given /\ euDoc.language = language /\ euDoc.held = texts
      /\ euTexts = {} /\ euMisses = {} /\ euCall = NewCall(1, 0) /\ euFirst = NoFirst
  BY <1>2 DEF EuAsks
<1>4. DocOK
  <2>1. {"en", language} \ {"??"} \subseteq {"en", "cs"} /\ "??" \notin {"en", language} \ {"??"}
    BY <1>1
  <2>2. texts \subseteq Texts
    BY <1>1, <1>2, <2>1 DEF Texts
  <2>3. texts \cap (Identifiers \X {"??"}) = {}
    <3> SUFFICES ASSUME NEW t \in texts, t \in Identifiers \X {"??"} PROVE FALSE
      OBVIOUS
    <3>1. t[2] \in {"en", language} \ {"??"}
      BY <1>2
    <3> QED
      BY <2>1, <3>1
  <2> QED
    <3>1. given \subseteq Identifiers /\ given # {}
      BY <1>1
    <3> QED
      BY <1>3, <2>2, <2>3, <3>1 DEF DocOK
<1>5. CallOK(NewCall(1, 0)) /\ NewCall(1, 0).n = 1 /\ NewCall(1, 0).result.kind = "none" /\ NewCall(1, 0).none = {}
  BY <1>4, NewCallOK
<1> QED
  BY <1>3, <1>4, <1>5 DEF EuInv, KeptOK, FirstTypes, PageOne, SecondPage, PageTwo, NoFirst

LEMMA EuStands ==
    ASSUME EuInv, euDoc' = euDoc, NEW d, CallOK(d), euCall' = d, KeptOK', FirstTypes', PageOne', SecondPage'
    PROVE  EuInv'
BY SameDocument DEF EuInv, DocOK

\* Steps that leave the second page behind, or end it without a request.
LEMMA SecondPageEnds ==
    ASSUME EuInv, euFirst' = euFirst, euCall'.n = euCall.n,
           ~PageTwo \/ (euCall'.requests = euCall.requests /\ euCall'.result.kind # "none")
    PROVE  SecondPage' /\ FirstTypes'
BY DEF EuInv, SecondPage, PageTwo, FirstTypes, NotOver

LEMMA NoTimeLeftHolds == ASSUME EuInv, NoTimeLeft PROVE EuInv'
<1> USE DEF NoTimeLeft
<1>1. euCall \in EuCalls /\ WalkOK(euCall) /\ DocOK /\ euCall.none \cap euDoc.held = {} /\ euCall.result.kind = "none"
  BY DEF EuInv, CallOK, NotOver
<1>2. KeptOK' /\ FirstTypes'
  BY DEF EuInv, KeptOK, FirstTypes
<1>3. CASE textSought[1] = "blob" /\ textSought[2] # wanted
  <2> DEFINE d == [euCall EXCEPT !.chain = <<>>]
  <2>1. /\ d \in EuCalls /\ d.chain = <<>> /\ d.failed = euCall.failed /\ d.failure = euCall.failure /\ d.none = euCall.none
        /\ d.stubs = euCall.stubs /\ d.left = euCall.left /\ d.result = euCall.result /\ d.n = euCall.n
    <3>1. <<>> \in Seq(Texts)
      OBVIOUS
    <3> QED
      BY <1>1, <3>1 DEF EuCalls
  <2>2. euCall' = d
    BY <1>3
  <2> HIDE DEF d
  <2>3. WalkOK(d)
    BY <1>1, <1>3, <2>1, EnglishIsLeftOut DEF hasBudget, textSought
  <2>4. CallOK(d)
    BY <1>1, <2>1, <2>3, StillOpen DEF CallOK
  <2>5. ~PageTwo
    BY <1>3, KeptTextAhead
  <2>6. SecondPage'
    BY <2>1, <2>2, <2>5, SecondPageEnds
  <2>7. PageOne'
    BY <1>1, <2>1, <2>2 DEF EuInv, PageOne
  <2> QED
    BY <1>2, <2>2, <2>4, <2>6, <2>7, EuStands
<1>4. CASE ~(textSought[1] = "blob" /\ textSought[2] # wanted)
  <2> DEFINE ending == IF euCall.failure = "none" THEN "budget" ELSE euCall.failure
             d == CallEnds(euCall, ending)
  <2>1. ending \in {"outage", "budget"}
    BY <1>1 DEF EuCalls
  <2>2. euCall' = d
    BY <1>4
  <2> HIDE DEF ending
  <2>3. /\ d \in EuCalls /\ d.none = euCall.none /\ d.left = euCall.left /\ d.requests = euCall.requests
        /\ d.result.kind = ending /\ d.n = euCall.n
    <3>1. euCall \in EuCalls /\ ending \in Kinds
      BY <1>1, <2>1 DEF Kinds
    <3> QED
      BY <3>1, EndedCall
  <2> HIDE DEF d
  <2>4. Honest(d)
    BY <2>1, <2>3 DEF Honest, hasBudget
  <2>5. CallOK(d)
    BY <1>1, <2>1, <2>3, <2>4 DEF CallOK
  <2>6. SecondPage'
    BY <2>1, <2>2, <2>3, SecondPageEnds
  <2>7. PageOne'
    BY <2>1, <2>2, <2>3 DEF EuInv, PageOne
  <2> QED
    BY <1>2, <2>2, <2>5, <2>6, <2>7, EuStands
<1> QED
  BY <1>3, <1>4

LEMMA FromCacheHolds == ASSUME EuInv, FromCache PROVE EuInv'
<1> USE DEF FromCache, MayLook
<1>1. CallOK(euCall) /\ DocOK /\ Alike(euCall) /\ textSought \in euDoc.held
  BY AttemptCosts DEF EuInv, CallOK, KeptOK
<1>2. /\ CallOK(Serves(euCall)) /\ Serves(euCall).none = euCall.none /\ Serves(euCall).n = euCall.n
      /\ Serves(euCall).requests = euCall.requests /\ Serves(euCall).result.kind = "text" /\ Serves(euCall).chain = euCall.chain
  BY <1>1, ServedHonestly
<1>3. SecondPage' /\ FirstTypes'
  BY <1>2, SecondPageEnds
<1>4. KeptOK' /\ PageOne'
  BY <1>2 DEF EuInv, KeptOK, PageOne, textSought
<1> QED
  BY <1>2, <1>3, <1>4, EuStands

LEMMA KnownMissHolds == ASSUME EuInv, KnownMiss PROVE EuInv'
<1> USE DEF KnownMiss, MayLook
<1> DEFINE d == NextText([euCall EXCEPT !.none = @ \cup {textSought}])
<1>1. CallOK(euCall) /\ DocOK /\ Alike(euCall) /\ textSought \notin euDoc.held /\ euCall \in EuCalls
  BY AttemptCosts DEF EuInv, CallOK, KeptOK
<1> HIDE DEF d
<1>2. d = NextText([euCall EXCEPT !.none = @ \cup {textSought}])
  BY DEF d
<1>3. /\ CallOK(d) /\ d.result.kind = "none" /\ Behind(d) = Behind(euCall) + 1 /\ d.n = euCall.n
      /\ d.none = euCall.none \cup {textSought} /\ d.requests = euCall.requests
  BY <1>1, <1>2, NoneHonestly
<1>4. euCall' = d /\ Chain' = Chain /\ Behind(euCall)' = Behind(d)
  BY DEF d, Chain, TextsBy, wanted, Behind
<1>5. KeptOK' /\ FirstTypes' /\ PageOne'
  BY <1>3, <1>4 DEF EuInv, KeptOK, FirstTypes, PageOne
<1>6. SecondPage'
  <2>1. CASE ~PageTwo
    BY <1>3, <1>4, <2>1, SecondPageEnds
  <2>2. CASE PageTwo
    <3>1. PICK p \in 1 .. Len(Chain) : Leads(p) /\ p > Behind(euCall) + 1
      BY <2>2, KeptTextAhead
    <3>2. Leads(p)'
      BY <1>3, <1>4, <3>1 DEF Leads
    <3>3. ~euCall'.requests
      BY <1>3, <1>4, <2>2, KeptTextAhead
    <3> QED
      BY <1>4, <3>1, <3>2, <3>3 DEF SecondPage
  <2> QED
    BY <2>1, <2>2
<1> QED
  BY <1>3, <1>4, <1>5, <1>6, EuStands

\* A request is only made on the first page, or on one that has lost its text.
LEMMA OnlyAskedAnew == ASSUME EuInv, MustAsk PROVE ~PageTwo
BY KeptTextAhead DEF MustAsk, MayLook

LEMMA BudgetSpentHolds == ASSUME EuInv, BudgetSpent PROVE EuInv'
<1> USE DEF BudgetSpent
<1> DEFINE d == Fails(euCall, "budget")
<1>1. CallOK(euCall) /\ DocOK /\ Alike(euCall) /\ NotOver /\ euCall.chain # <<>>
  BY AttemptCosts DEF EuInv, CallOK, MustAsk, MayLook
<1>2. CallOK(d) /\ d.none = euCall.none /\ d.n = euCall.n /\ d.result.kind # "text"
  BY <1>1, FailedHonestly
<1>3. euCall' = d
  OBVIOUS
<1> HIDE DEF d
<1>4. SecondPage' /\ FirstTypes'
  BY <1>2, <1>3, SecondPageEnds, OnlyAskedAnew
<1>5. KeptOK' /\ PageOne'
  BY <1>2, <1>3 DEF EuInv, KeptOK, PageOne
<1> QED
  BY <1>2, <1>3, <1>4, <1>5, EuStands

LEMMA GivesTextHolds == ASSUME EuInv, GivesText PROVE EuInv'
<1> USE DEF GivesText
<1>1. PICK ticks \in AttemptTicks : euCall' = Serves(AskedFor(ticks))
  OBVIOUS
<1> DEFINE c == AskedFor(ticks)
           d == Serves(c)
<1>2. CallOK(euCall) /\ DocOK /\ Alike(c) /\ NotOver /\ euCall.chain # <<>>
  BY AttemptCosts DEF EuInv, CallOK, MustAsk, MayLook
<1>3. CallOK(d) /\ d.none = c.none /\ d.n = c.n /\ d.chain = c.chain /\ d.result.kind = "text"
  BY <1>2, ServedHonestly
<1>4. c.none = euCall.none /\ c.n = euCall.n /\ c.chain = euCall.chain
  BY <1>2 DEF Alike
<1> HIDE DEF c, d
<1>5. euCall' = d
  BY <1>1 DEF c, d
<1>6. SecondPage' /\ FirstTypes'
  BY <1>3, <1>4, <1>5, SecondPageEnds, OnlyAskedAnew
<1>7. KeptOK' /\ PageOne'
  BY <1>3, <1>4, <1>5 DEF EuInv, KeptOK, PageOne, textSought
<1> QED
  BY <1>3, <1>5, <1>6, <1>7, EuStands

LEMMA HasNoneHolds == ASSUME EuInv, HasNone PROVE EuInv'
<1> USE DEF HasNone
<1>1. PICK ticks \in AttemptTicks : euCall' = NextText([AskedFor(ticks) EXCEPT !.none = @ \cup {textSought}])
  OBVIOUS
<1> DEFINE c == AskedFor(ticks)
           d == NextText([c EXCEPT !.none = @ \cup {textSought}])
<1>2. CallOK(euCall) /\ DocOK /\ Alike(c) /\ NotOver /\ euCall.chain # <<>> /\ WalkOK(euCall)
  BY AttemptCosts DEF EuInv, CallOK, MustAsk, MayLook, NotOver
<1>3. c.n = euCall.n /\ c.none = euCall.none
  BY <1>2 DEF Alike
<1> HIDE DEF c, d
<1>4. d = NextText([c EXCEPT !.none = @ \cup {textSought}])
  BY DEF d
<1>5. CallOK(d) /\ d.result.kind = "none" /\ d.n = euCall.n /\ d.none = euCall.none \cup {textSought}
  BY <1>2, <1>3, <1>4, NoneHonestly
<1>6. euCall' = d
  BY <1>1 DEF c, d
<1>7. SecondPage' /\ FirstTypes'
  BY <1>5, <1>6, SecondPageEnds, OnlyAskedAnew
<1>8. textSought \in Texts
  BY <1>2, HeadOfRest DEF WalkOK, textSought
<1>9. KeptOK' /\ PageOne'
  BY <1>5, <1>6, <1>8 DEF EuInv, KeptOK, PageOne, missesAfter
<1> QED
  BY <1>5, <1>6, <1>7, <1>9, EuStands

LEMMA GivesStubHolds == ASSUME EuInv, GivesStub PROVE EuInv'
<1> USE DEF GivesStub
<1>1. PICK ticks \in AttemptTicks : euCall' = NextText([Faulty(ticks) EXCEPT !.stubs = @ \cup {textSought}])
  OBVIOUS
<1> DEFINE c == Faulty(ticks)
           d == NextText([c EXCEPT !.stubs = @ \cup {textSought}])
<1>2. CallOK(euCall) /\ DocOK /\ Alike(c) /\ NotOver /\ euCall.chain # <<>>
  BY AttemptCosts DEF EuInv, CallOK, MustAsk, MayLook
<1>3. c.n = euCall.n /\ c.none = euCall.none
  BY <1>2 DEF Alike
<1> HIDE DEF c, d
<1>4. d = NextText([c EXCEPT !.stubs = @ \cup {textSought}])
  BY DEF d
<1>5. CallOK(d) /\ d.result.kind = "none" /\ d.n = euCall.n /\ d.none = euCall.none
  BY <1>2, <1>3, <1>4, StubHonestly
<1>6. euCall' = d
  BY <1>1 DEF c, d
<1>7. SecondPage' /\ FirstTypes'
  BY <1>5, <1>6, SecondPageEnds, OnlyAskedAnew
<1>8. KeptOK' /\ PageOne'
  BY <1>5, <1>6 DEF EuInv, KeptOK, PageOne, missesAfterStub
<1> QED
  BY <1>5, <1>6, <1>7, <1>8, EuStands

LEMMA AskFailsHolds == ASSUME EuInv, AskFails PROVE EuInv'
<1> USE DEF AskFails
<1>1. PICK ticks \in AttemptTicks :
          euCall' = IF ~euCall.retried /\ Faulty(ticks).left >= EuRetryLeft
                    THEN [Faulty(ticks) EXCEPT !.retried = TRUE]
                    ELSE Fails(Faulty(ticks), "outage")
  OBVIOUS
<1> DEFINE c == Faulty(ticks)
           again == [c EXCEPT !.retried = TRUE]
<1>2. CallOK(euCall) /\ DocOK /\ Alike(c) /\ NotOver /\ euCall.chain # <<>>
  BY AttemptCosts DEF EuInv, CallOK, MustAsk, MayLook
<1>3. WalkOK(c) /\ c.result.kind = "none" /\ c.none \cap euDoc.held = {} /\ c \in EuCalls
  BY <1>2, AlikeWalks
<1>4. c.none = euCall.none /\ c.n = euCall.n
  BY <1>2 DEF Alike
<1> HIDE DEF c
<1>5. CallOK(again) /\ again.none = c.none /\ again.n = c.n /\ again.result.kind # "text"
  <2>1. /\ again \in EuCalls /\ again.chain = c.chain /\ again.failed = c.failed /\ again.failure = c.failure
        /\ again.none = c.none /\ again.stubs = c.stubs /\ again.left = c.left /\ again.result = c.result /\ again.n = c.n
    BY <1>3 DEF EuCalls
  <2> HIDE DEF again
  <2>2. WalkOK(again)
    BY <1>3, <2>1 DEF WalkOK, IsRest, Behind
  <2> QED
    BY <1>3, <2>1, <2>2, StillOpen DEF CallOK
<1>6. /\ CallOK(Fails(c, "outage")) /\ Fails(c, "outage").none = c.none /\ Fails(c, "outage").n = c.n
      /\ Fails(c, "outage").result.kind # "text"
  BY <1>2, FailedHonestly
<1> HIDE DEF again
<1>7. PICK d : /\ euCall' = d /\ CallOK(d) /\ d.none = c.none /\ d.n = c.n /\ d.result.kind # "text"
  BY <1>1, <1>5, <1>6 DEF c, again
<1>8. SecondPage' /\ FirstTypes'
  BY <1>4, <1>7, SecondPageEnds, OnlyAskedAnew
<1>9. KeptOK' /\ PageOne'
  BY <1>4, <1>7 DEF EuInv, KeptOK, PageOne
<1> QED
  BY <1>7, <1>8, <1>9, EuStands

LEMMA NothingLeftHolds == ASSUME EuInv, NothingLeft PROVE EuInv'
<1>0. euCall.chain = <<>> /\ NotOver
  BY DEF NothingLeft
<1> DEFINE ending == IF euCall.failure = "none" THEN "not found" ELSE euCall.failure
           d == CallEnds(euCall, ending)
<1>1. euCall \in EuCalls /\ WalkOK(euCall) /\ DocOK /\ euCall.none \cap euDoc.held = {} /\ NotOver
  BY <1>0 DEF EuInv, CallOK, NotOver
<1>2. ending \in {"not found", "outage", "budget"} /\ (ending = "not found" <=> euCall.failed = {})
  BY <1>1 DEF EuCalls, WalkOK
<1>3. euCall' = d /\ UNCHANGED <<euDoc, euTexts, euMisses, euFirst>>
  BY DEF NothingLeft
<1> HIDE DEF ending
<1>4. /\ d \in EuCalls /\ d.none = euCall.none /\ d.left = euCall.left /\ d.requests = euCall.requests
      /\ d.result.kind = ending /\ d.n = euCall.n /\ d.stubs = euCall.stubs /\ d.failed = euCall.failed
  <2>1. euCall \in EuCalls /\ ending \in Kinds
    BY <1>1, <1>2 DEF Kinds
  <2> QED
    BY <2>1, EndedCall
<1> HIDE DEF d
<1>5. Behind(euCall) = Len(Chain) /\ Len(Chain) \in Nat /\ CellarEnd \in Nat /\ Len(Chain) = CellarEnd + Len(TextsBy("blob"))
  BY <1>0, <1>1, ChainTypes DEF Behind
<1>6. \A i \in 1 .. Len(Chain) : euCall.failed = {} \/ i > CellarEnd =>
          Chain[i] \in euCall.none \cup euCall.stubs \/ (Chain[i] = <<"blob", "en">> /\ wanted # "en" /\ ~(euCall.left >= EuMinLeft))
  BY <1>1, <1>5 DEF WalkOK
<1>7. ASSUME ending = "not found"
      PROVE  \A i \in DOMAIN Chain : Chain[i] \in d.none \cup d.stubs \cup d.failed
                                     \/ (~(d.left >= EuMinLeft) /\ Chain[i] = <<"blob", "en">>)
  <2>1. DOMAIN Chain = 1 .. Len(Chain)
    BY <1>1, ChainTypes
  <2> QED
    BY <1>2, <1>4, <1>6, <1>7, <2>1
<1>8. ASSUME "blob" \in euDoc.given PROVE <<"blob", wanted>> \in d.none \cup d.stubs
  <2>1. Len(TextsBy("blob")) \in Nat /\ Len(TextsBy("blob")) >= 1 /\ TextsBy("blob")[1] = <<"blob", wanted>>
    BY <1>1, <1>8, PlacesOf DEF Identifiers
  <2>2. Chain[CellarEnd + 1] = <<"blob", wanted>>
    BY <1>1, <2>1, ChainTypes
  <2>3. CellarEnd + 1 \in 1 .. Len(Chain) /\ CellarEnd + 1 > CellarEnd
    BY <1>5, <2>1
  <2> QED
    BY <1>4, <1>6, <2>2, <2>3
<1>9. Honest(d)
  BY <1>2, <1>4, <1>7, <1>8 DEF Honest
<1>10. CallOK(d)
  BY <1>1, <1>2, <1>4, <1>9 DEF CallOK
<1>11. SecondPage' /\ FirstTypes'
  BY <1>2, <1>3, <1>4, SecondPageEnds
<1>12. KeptOK' /\ PageOne'
  BY <1>2, <1>3, <1>4 DEF EuInv, KeptOK, PageOne
<1> QED
  BY <1>3, <1>10, <1>11, <1>12, EuStands

LEMMA LapsesHolds == ASSUME EuInv, Lapses PROVE EuInv'
<1> USE DEF Lapses
<1>1. KeptOK' /\ FirstTypes' /\ euFirst'.lapsed
  BY DEF EuInv, KeptOK, FirstTypes
<1>2. PageOne' /\ SecondPage'
  BY <1>1 DEF PageOne, SecondPage, PageTwo
<1> QED
  BY <1>1, <1>2, EuStands DEF EuInv

LEMMA NextPageHolds == ASSUME EuInv, NextPageOfText PROVE EuInv'
<1> USE DEF NextPageOfText
<1> DEFINE d == NewCall(2, euCall.faults)
<1>1. CallOK(euCall) /\ DocOK /\ WalkOK(euCall) /\ euCall \in EuCalls /\ euCall.chain # <<>>
      /\ Head(euCall.chain) = <<euCall.result.id, euCall.result.language>>
  BY DEF EuInv, CallOK
<1>2. /\ CallOK(d) /\ d.n = 2 /\ d.result.kind = "none" /\ d.requests = FALSE /\ Behind(d) = 0
  BY <1>1, NewCallOK DEF EuCalls
<1>3. euCall' = d
  OBVIOUS
<1> HIDE DEF d
<1>4. PageOne' /\ KeptOK'
  BY <1>2, <1>3 DEF EuInv, KeptOK, PageOne
<1>5. FirstTypes'
  <2>1. euCall.result.id \in Identifiers \cup {"none"} /\ (euCall.stubs # {}) \in BOOLEAN
    BY <1>1 DEF EuCalls, EuResults
  <2> QED
    BY <2>1 DEF EuInv, FirstTypes
<1>6. SecondPage'
  <2> SUFFICES ASSUME PageTwo' PROVE \E p \in 1 .. Len(Chain) : Leads(p)'
    <3>1. Chain' = Chain
      BY DEF Chain, TextsBy, wanted
    <3> QED
      BY <1>2, <1>3, <3>1 DEF SecondPage
  <2>1. euCall.result.id \in {"celex", "ecli"} /\ euCall.stubs = {} /\ ~euFirst.lapsed
    BY DEF PageTwo, FirstTypes, EuInv
  <2>0. PICK p : p = Behind(euCall) + 1
    OBVIOUS
  <2>2. p \in 1 .. Len(Chain) /\ Behind(euCall) \in Nat /\ Head(euCall.chain) = Chain[p] /\ Head(euCall.chain) \in Texts
    BY <1>1, <2>0, HeadOfRest DEF WalkOK
  <2>3. Chain[p][1] # "blob" /\ CellarEnd \in Nat /\ ~(p > CellarEnd)
    BY <1>1, <2>1, <2>2, ChainTypes
  <2>4. euCall.failed = {}
    <3>1. ~(Behind(euCall) >= CellarEnd)
      BY <2>0, <2>2, <2>3
    <3> QED
      BY <1>1, <3>1 DEF WalkOK
  <2>5. Chain[p] \in euTexts
    BY <2>1, <2>2 DEF EuInv, PageOne
  <2>6. ASSUME NEW i \in 1 .. (p - 1) PROVE Chain[i] \in euMisses
    <3>1. i \in 1 .. Behind(euCall) /\ i \in 1 .. Len(Chain) /\ ~(i > CellarEnd)
      BY <2>0, <2>2, <2>3
    <3>2. Chain[i] \in euCall.none
      BY <1>1, <2>1, <2>4, <3>1 DEF WalkOK
    <3>3. Chain[i][1] # "blob"
      BY <1>1, <3>1, ChainTypes
    <3> QED
      BY <2>1, <3>2, <3>3 DEF EuInv, PageOne
  <2>7. Chain' = Chain /\ Behind(euCall)' = 0 /\ p > 0
    <3>1. Chain' = Chain
      BY DEF Chain, TextsBy, wanted
    <3>2. Behind(euCall)' = Behind(d)
      BY <1>3, <3>1 DEF Behind
    <3> QED
      BY <1>2, <2>0, <2>2, <3>1, <3>2
  <2>8. Leads(p)'
    BY <2>2, <2>3, <2>5, <2>6, <2>7 DEF Leads
  <2> QED
    BY <2>2, <2>8
<1> QED
  BY <1>2, <1>3, <1>4, <1>5, <1>6, EuStands

LEMMA EuSteps == ASSUME EuInv, EuNext PROVE EuInv'
BY NoTimeLeftHolds, FromCacheHolds, KnownMissHolds, BudgetSpentHolds, GivesTextHolds, HasNoneHolds, GivesStubHolds,
   AskFailsHolds, NothingLeftHolds, LapsesHolds, NextPageHolds DEF EuNext

LEMMA EuStays == ASSUME EuInv, UNCHANGED euVars PROVE EuInv'
<1>1. KeptOK' /\ FirstTypes' /\ euCall' = euCall /\ euDoc' = euDoc /\ euFirst' = euFirst /\ euTexts' = euTexts /\ euMisses' = euMisses
  BY DEF EuInv, KeptOK, FirstTypes, euVars
<1>2. Chain' = Chain /\ Behind(euCall)' = Behind(euCall)
  BY <1>1 DEF Chain, TextsBy, wanted, Behind
<1>3. PageOne' /\ SecondPage'
  BY <1>1, <1>2 DEF EuInv, PageOne, SecondPage, PageTwo, NotOver, Leads
<1> QED
  BY <1>1, <1>3, EuStands DEF EuInv

LEMMA EuHolds == EuInv => EuAnswersAreHonest /\ PagingAsksNothingAgain
<1>1. EuInv => EuAnswersAreHonest
  BY HonestCalls DEF EuInv, CallOK
<1> QED
  BY <1>1 DEF EuInv, SecondPage, PageTwo, PagingAsksNothingAgain

-----------------------------------------------------------------------------
(* The search in several courts at once (CaselawFanOut).                   *)

LaneHits == Seq({1, 2})

LEMMA FanTypes ==
    /\ Len(FanLanes) \in Nat \ {0} /\ Lanes = 1 .. Len(FanLanes)
    /\ SourceLimit \in Nat \ {0} /\ SourceLimit * Len(FanLanes) \in Nat
    /\ Len(FanLanes) <= SourceLimit * Len(FanLanes)
<1>1. Len(FanLanes) \in Nat \ {0} /\ Lanes = 1 .. Len(FanLanes) /\ SourceLimit \in Nat \ {0}
  BY FanAssumption DEF Lanes
<1>2. \A a, b \in Nat \ {0} : b * a \in Nat /\ a <= b * a
  OBVIOUS
<1> QED
  BY <1>1, <1>2

(* The first n of a sequence. *)
LEMMA LeadingOnes ==
    ASSUME NEW S, NEW s \in Seq(S), NEW n \in Nat
    PROVE  /\ Leading(s, n) \in Seq(S)
           /\ Len(Leading(s, n)) = IF n <= Len(s) THEN n ELSE Len(s)
           /\ \A p \in DOMAIN s : p <= n => p \in DOMAIN Leading(s, n) /\ Leading(s, n)[p] = s[p]
           /\ \A p \in DOMAIN Leading(s, n) : p \in DOMAIN s /\ p <= n /\ Leading(s, n)[p] = s[p]
<1> DEFINE m == Earlier(n, Len(s))
<1>1. Len(s) \in Nat /\ m \in Nat /\ m <= Len(s) /\ m <= n /\ (n <= Len(s) => m = n) /\ (~(n <= Len(s)) => m = Len(s))
  BY DEF Earlier
<1> HIDE DEF m
<1>2. SubSeq(s, 1, m) \in Seq(S) /\ Len(SubSeq(s, 1, m)) = m /\ \A p \in 1 .. m : SubSeq(s, 1, m)[p] = s[p]
  BY <1>1
<1>3. Leading(s, n) = SubSeq(s, 1, m)
  BY DEF Leading, m
<1>4. DOMAIN s = 1 .. Len(s) /\ DOMAIN Leading(s, n) = 1 .. m
  BY <1>2, <1>3
<1>5. ASSUME NEW p \in DOMAIN s, p <= n
      PROVE  p \in DOMAIN Leading(s, n) /\ Leading(s, n)[p] = s[p]
  <2>1. p \in 1 .. Len(s)
    BY <1>4
  <2>2. p \in 1 .. m
    BY <1>1, <1>5, <2>1
  <2> QED
    BY <1>2, <1>3, <1>4, <2>2
<1>6. ASSUME NEW p \in DOMAIN Leading(s, n)
      PROVE  p \in DOMAIN s /\ p <= n /\ Leading(s, n)[p] = s[p]
  <2>1. p \in 1 .. m
    BY <1>4
  <2>2. p \in 1 .. Len(s) /\ p <= n
    BY <1>1, <2>1
  <2> QED
    BY <1>2, <1>3, <1>4, <2>1, <2>2
<1> QED
  BY <1>1, <1>2, <1>3, <1>5, <1>6

(* Rotation: the fold, its steps, and where a court's first hit comes.     *)
CourtOf(k) == ((k - 1) % Len(FanLanes)) + 1
RankOf(k) == ((k - 1) \div Len(FanLanes)) + 1
Turn(perLane, out, k) ==
    IF RankOf(k) <= Len(perLane[CourtOf(k)]) THEN Append(out, <<CourtOf(k), perLane[CourtOf(k)][RankOf(k)]>>) ELSE out

LEMMA FirstTurns ==
    ASSUME NEW i \in Lanes
    PROVE  /\ CourtOf(i) = i /\ RankOf(i) = 1 /\ i \in 1 .. SourceLimit * Len(FanLanes)
           /\ SourceLimit >= 2 =>
                /\ CourtOf(Len(FanLanes) + i) = i /\ RankOf(Len(FanLanes) + i) = 2
                /\ Len(FanLanes) + i \in 1 .. SourceLimit * Len(FanLanes)
<1>1. \A a, b \in Nat : b > 0 /\ a < b => a % b = a /\ a \div b = 0
  OBVIOUS
<1>2. \A a, b \in Nat : b > 0 /\ a < b => (b + a) % b = a /\ (b + a) \div b = 1
  OBVIOUS
<1>3. \A a, b \in Nat : b >= 2 => a + a <= b * a
  OBVIOUS
<1>4. i \in Nat /\ i - 1 \in Nat /\ i - 1 < Len(FanLanes) /\ Len(FanLanes) \in Nat /\ Len(FanLanes) > 0
      /\ SourceLimit \in Nat
  BY FanTypes
<1>5. CourtOf(i) = i /\ RankOf(i) = 1
  BY <1>1, <1>4 DEF CourtOf, RankOf
<1>6. (Len(FanLanes) + i) - 1 = Len(FanLanes) + (i - 1)
  BY <1>4
<1>7. CourtOf(Len(FanLanes) + i) = i /\ RankOf(Len(FanLanes) + i) = 2
  BY <1>2, <1>4, <1>6 DEF CourtOf, RankOf
<1>8. i \in 1 .. SourceLimit * Len(FanLanes)
  BY <1>4, FanTypes
<1>9. ASSUME SourceLimit >= 2 PROVE Len(FanLanes) + i \in 1 .. SourceLimit * Len(FanLanes)
  <2>1. Len(FanLanes) + Len(FanLanes) <= SourceLimit * Len(FanLanes)
    BY <1>3, <1>4, <1>9
  <2> QED
    BY <1>4, <2>1, FanTypes
<1> QED
  BY <1>5, <1>7, <1>8, <1>9

LEMMA CourtOfTypes ==
    ASSUME NEW k \in Nat \ {0}
    PROVE  CourtOf(k) \in Lanes /\ RankOf(k) \in Nat \ {0}
<1>1. \A a, b \in Nat : b > 0 => a % b \in 0 .. b - 1 /\ a \div b \in Nat
  OBVIOUS
<1>2. k - 1 \in Nat /\ Len(FanLanes) \in Nat /\ Len(FanLanes) > 0
  BY FanTypes
<1> QED
  BY <1>1, <1>2, FanTypes DEF CourtOf, RankOf

IsRotation(g, perLane) ==
    \A s \in SUBSET (1 .. SourceLimit * Len(FanLanes)) :
        g[s] = IF s = {} THEN <<>> ELSE Turn(perLane, g[s \ {Highest(s)}], Highest(s))

LEMMA TurnTypes ==
    ASSUME NEW perLane \in [Lanes -> LaneHits], NEW k \in Nat \ {0}, NEW out \in Seq(FanHits)
    PROVE  /\ Turn(perLane, out, k) \in Seq(FanHits)
           /\ Len(out) <= Len(Turn(perLane, out, k)) /\ Len(Turn(perLane, out, k)) <= Len(out) + 1
           /\ \A p \in DOMAIN out : p \in DOMAIN Turn(perLane, out, k) /\ Turn(perLane, out, k)[p] = out[p]
           /\ RankOf(k) <= Len(perLane[CourtOf(k)]) =>
                 /\ Len(out) + 1 \in DOMAIN Turn(perLane, out, k)
                 /\ Turn(perLane, out, k)[Len(out) + 1] = <<CourtOf(k), perLane[CourtOf(k)][RankOf(k)]>>
<1>1. CourtOf(k) \in Lanes /\ RankOf(k) \in Nat \ {0} /\ perLane[CourtOf(k)] \in LaneHits
  BY CourtOfTypes
<1> DEFINE h == perLane[CourtOf(k)]
           r == RankOf(k)
<1>2. \A l \in LaneHits : \A n \in Nat \ {0} : n <= Len(l) => l[n] \in {1, 2}
  BY DEF LaneHits
<1>3. ASSUME r <= Len(h) PROVE <<CourtOf(k), h[r]>> \in FanHits
  BY <1>1, <1>2, <1>3 DEF FanHits
<1>4. CASE r <= Len(h)
  <2> DEFINE e == <<CourtOf(k), h[r]>>
  <2>1. e \in FanHits
    BY <1>3, <1>4
  <2>2. Turn(perLane, out, k) = Append(out, e)
    BY <1>4 DEF Turn
  <2> HIDE DEF e
  <2>3. /\ Append(out, e) \in Seq(FanHits) /\ Len(Append(out, e)) = Len(out) + 1 /\ Len(out) \in Nat
        /\ DOMAIN out = 1 .. Len(out) /\ DOMAIN Append(out, e) = 1 .. Len(out) + 1
        /\ \A p \in 1 .. Len(out) : Append(out, e)[p] = out[p]
        /\ Append(out, e)[Len(out) + 1] = e
    BY <2>1
  <2> QED
    BY <1>4, <2>2, <2>3 DEF e
<1>5. CASE ~(r <= Len(h))
  BY <1>5 DEF Turn
<1> QED
  BY <1>4, <1>5

LEMMA RotationExists ==
    ASSUME NEW perLane \in [Lanes -> LaneHits]
    PROVE  \E g : IsRotation(g, perLane) /\ Rotation(perLane) = g[1 .. SourceLimit * Len(FanLanes)]
<1> DEFINE n == SourceLimit * Len(FanLanes)
           V == Seq(FanHits)
           F == [q \in V \X (1 .. n) |-> Turn(perLane, q[1], q[2])]
           sq == [k \in 1 .. n |-> k]
           Solves(g) == g = [s \in SUBSET DOMAIN sq |->
                                IF s = {} THEN <<>> ELSE Turn(perLane, g[s \ {Highest(s)}], sq[Highest(s)])]
<1>1. n \in Nat
  BY FanTypes
<1>2. F \in [V \X (1 .. n) -> V]
  BY <1>1, TurnTypes
<1>3. <<>> \in V
  OBVIOUS
<1> HIDE DEF n, V
<1>4. PICK g \in [SUBSET (1 .. n) -> V] : FoldsAlong(g, n, <<>>, F)
  <2> HIDE DEF F
  <2> QED
    BY <1>1, <1>2, <1>3, FoldExists
<1>5. ASSUME NEW s \in SUBSET (1 .. n)
      PROVE  g[s] = IF s = {} THEN <<>> ELSE Turn(perLane, g[s \ {Highest(s)}], sq[Highest(s)])
  <2>1. CASE s # {}
    <3>1. Highest(s) \in 1 .. n /\ g[s \ {Highest(s)}] \in V
      BY <1>1, <1>4, <2>1, HighestOf
    <3>2. g[s] = F[<<g[s \ {Highest(s)}], Highest(s)>>]
      BY <1>4, <2>1 DEF FoldsAlong
    <3> QED
      BY <2>1, <3>1, <3>2
  <2> QED
    BY <1>4, <2>1 DEF FoldsAlong
<1>6. Solves(g)
  BY <1>4, <1>5
<1>7. Solves(CHOOSE x : Solves(x))
  BY <1>6
<1>8. Rotation(perLane) = (CHOOSE x : Solves(x))[1 .. n]
  BY DEF Rotation, FoldLeft, MapThenFoldSet, Highest, Max, Turn, CourtOf, RankOf, n
<1>9. ASSUME NEW x, Solves(x) PROVE IsRotation(x, perLane)
  BY <1>1, <1>9, HighestOf DEF IsRotation, n
<1> QED
  BY <1>7, <1>8, <1>9 DEF n
Turns(g, k) == g[1 .. k]

LEMMA RotationStep ==
    ASSUME NEW perLane, NEW g, IsRotation(g, perLane), NEW k \in 0 .. SourceLimit * Len(FanLanes)
    PROVE  /\ k = 0 => Turns(g, k) = <<>>
           /\ k > 0 => Turns(g, k) = Turn(perLane, Turns(g, k - 1), k)
<1> DEFINE n == SourceLimit * Len(FanLanes)
<1>1. n \in Nat /\ k \in 0 .. n
  BY FanTypes
<1>2. CASE k = 0
  <2>1. 1 .. k = {} /\ ~(k > 0)
    BY <1>2
  <2>2. g[{}] = <<>>
    BY DEF IsRotation
  <2> QED
    BY <2>1, <2>2 DEF Turns
<1>3. CASE k > 0
  <2> HIDE DEF n
  <2>1. k \in 1 .. n
    BY <1>1, <1>3
  <2>2. 1 .. k \in SUBSET (1 .. n) /\ 1 .. k # {} /\ Highest(1 .. k) = k /\ (1 .. k) \ {k} = 1 .. k - 1
    BY <1>1, <2>1, FoldOfInterval
  <2>3. g[1 .. k] = Turn(perLane, g[(1 .. k) \ {k}], k)
    BY <2>2 DEF IsRotation, n
  <2>4. k # 0
    BY <1>3
  <2>5. Turns(g, k) = Turn(perLane, Turns(g, k - 1), k)
    BY <2>2, <2>3 DEF Turns
  <2> QED
    BY <2>4, <2>5
<1> QED
  BY <1>1, <1>2, <1>3

LEMMA RotationTypes ==
    ASSUME NEW perLane \in [Lanes -> LaneHits], NEW g, IsRotation(g, perLane),
           NEW k \in 0 .. SourceLimit * Len(FanLanes)
    PROVE  Turns(g, k) \in Seq(FanHits) /\ Len(Turns(g, k)) <= k
<1> DEFINE n == SourceLimit * Len(FanLanes)
           Good(m) == Turns(g, m) \in Seq(FanHits) /\ Len(Turns(g, m)) <= m
           G == {m \in 0 .. n : Good(m)}
<1>0. n \in Nat
  BY FanTypes
<1>1. 0 \in 0 .. n /\ Good(0)
  <2>1. Turns(g, 0) = <<>> /\ 0 \in 0 .. n
    BY <1>0, RotationStep
  <2>2. <<>> \in Seq(FanHits) /\ Len(<<>>) <= 0
    OBVIOUS
  <2> QED
    BY <2>1, <2>2
<1>2. ASSUME NEW m \in 1 .. n, Good(m - 1) PROVE Good(m)
  <2> DEFINE out == Turns(g, m - 1)
             next == Turn(perLane, out, m)
  <2>1. Turns(g, m) = next /\ m \in Nat \ {0}
    <3>1. m \in 0 .. n /\ m > 0
      BY <1>0
    <3> QED
      BY <3>1, RotationStep
  <2>2. out \in Seq(FanHits) /\ Len(out) <= m - 1 /\ Len(out) \in Nat
    BY <1>2
  <2> HIDE DEF out
  <2>3. next \in Seq(FanHits) /\ Len(next) <= Len(out) + 1
    BY <2>1, <2>2, TurnTypes
  <2> HIDE DEF next
  <2>4. Len(next) \in Nat
    BY <2>3
  <2> QED
    BY <2>1, <2>2, <2>3, <2>4
<1> HIDE DEF n, Good
<1>3. \A m \in 0 .. n : m \in G
  <2>1. 0 \in G /\ \A m \in 1 .. n : m - 1 \in G => m \in G
    BY <1>0, <1>1, <1>2
  <2> HIDE DEF G
  <2> QED
    BY <1>0, <2>1, UpTo
<1> QED
  BY <1>3 DEF Good, n

\* The turns up to j stay where they are.
LEMMA RotationKeeps ==
    ASSUME NEW perLane \in [Lanes -> LaneHits], NEW g, IsRotation(g, perLane),
           NEW j \in 0 .. SourceLimit * Len(FanLanes),
           NEW p \in DOMAIN Turns(g, j)
    PROVE  /\ p \in DOMAIN Turns(g, SourceLimit * Len(FanLanes))
           /\ Turns(g, SourceLimit * Len(FanLanes))[p] = Turns(g, j)[p]
<1> DEFINE n == SourceLimit * Len(FanLanes)
           f == [k \in 0 .. n |-> Turns(g, k)]
<1>0. n \in Nat
  BY FanTypes
<1>1. ASSUME NEW k \in 1 .. n, NEW q \in DOMAIN f[k - 1]
      PROVE  q \in DOMAIN f[k] /\ f[k][q] = f[k - 1][q]
  <2>1. k \in Nat \ {0} /\ k > 0 /\ k - 1 \in 0 .. n /\ k \in 0 .. n
    BY <1>0
  <2>2. f[k - 1] = Turns(g, k - 1) /\ f[k] = Turns(g, k) /\ f[k] = Turn(perLane, Turns(g, k - 1), k)
    BY <2>1, RotationStep
  <2>3. Turns(g, k - 1) \in Seq(FanHits)
    BY <2>1, RotationTypes
  <2> HIDE DEF f
  <2> QED
    BY <1>1, <2>1, <2>2, <2>3, TurnTypes
<1>2. n \in 0 .. n /\ f[n] = Turns(g, n) /\ f[j] = Turns(g, j)
  BY <1>0
<1> HIDE DEF f, n
<1>3. p \in DOMAIN f[n] /\ f[n][p] = f[j][p]
  BY <1>0, <1>1, <1>2, Grows DEF n
<1> QED
  BY <1>2, <1>3 DEF n

(* What the merged list holds: every court's first hit at the latest in    *)
(* that court's place, and its second one where two are shown.             *)
LEMMA MergedList ==
    ASSUME NEW perLane \in [Lanes -> LaneHits]
    PROVE  /\ Rotation(perLane) \in Seq(FanHits)
           /\ \A i \in Lanes : perLane[i] # <<>> =>
                 \E p \in DOMAIN Rotation(perLane) : p <= i /\ Rotation(perLane)[p] = <<i, perLane[i][1]>>
           /\ \A i \in Lanes : SourceLimit >= 2 /\ Len(perLane[i]) >= 2 =>
                 \E p \in DOMAIN Rotation(perLane) : Rotation(perLane)[p] = <<i, perLane[i][2]>>
<1> DEFINE n == SourceLimit * Len(FanLanes)
<1>1. PICK g : IsRotation(g, perLane) /\ Rotation(perLane) = Turns(g, n)
  BY RotationExists DEF Turns
<1>2. n \in Nat
  BY FanTypes
<1>3. Turns(g, n) \in Seq(FanHits)
  BY <1>1, <1>2, RotationTypes
<1>4. ASSUME NEW k \in 1 .. n, RankOf(k) <= Len(perLane[CourtOf(k)])
      PROVE  \E p \in DOMAIN Rotation(perLane) :
                p <= k /\ Rotation(perLane)[p] = <<CourtOf(k), perLane[CourtOf(k)][RankOf(k)]>>
  <2> DEFINE out == Turns(g, k - 1)
             next == Turns(g, k)
  <2> HIDE DEF n
  <2>1. k \in Nat \ {0} /\ k \in 0 .. n /\ k - 1 \in 0 .. n
    BY <1>2
  <2>2. out \in Seq(FanHits) /\ Len(out) <= k - 1 /\ next = Turn(perLane, out, k)
    BY <1>1, <2>1, RotationTypes, RotationStep DEF n
  <2> HIDE DEF out, next
  <2>3. Len(out) + 1 \in DOMAIN next /\ next[Len(out) + 1] = <<CourtOf(k), perLane[CourtOf(k)][RankOf(k)]>>
    BY <1>4, <2>1, <2>2, TurnTypes
  <2>4. Len(out) + 1 \in DOMAIN Turns(g, n) /\ Turns(g, n)[Len(out) + 1] = next[Len(out) + 1]
    BY <1>1, <2>1, <2>3, RotationKeeps DEF n, next
  <2>5. Len(out) \in Nat /\ Len(out) + 1 <= k
    BY <2>1, <2>2
  <2> QED
    BY <1>1, <2>3, <2>4, <2>5
<1>5. ASSUME NEW i \in Lanes, perLane[i] # <<>>
      PROVE  \E p \in DOMAIN Rotation(perLane) : p <= i /\ Rotation(perLane)[p] = <<i, perLane[i][1]>>
  <2>1. 1 <= Len(perLane[i])
    BY <1>5 DEF LaneHits
  <2>2. CourtOf(i) = i /\ RankOf(i) = 1 /\ i \in 1 .. n
    BY FirstTurns
  <2> HIDE DEF n
  <2> QED
    BY <1>4, <2>1, <2>2
<1>6. ASSUME NEW i \in Lanes, SourceLimit >= 2, Len(perLane[i]) >= 2
      PROVE  \E p \in DOMAIN Rotation(perLane) : Rotation(perLane)[p] = <<i, perLane[i][2]>>
  <2> DEFINE k == Len(FanLanes) + i
  <2>2. CourtOf(k) = i /\ RankOf(k) = 2 /\ k \in 1 .. n
    BY <1>6, FirstTurns
  <2> HIDE DEF n, k
  <2> QED
    BY <1>4, <1>6, <2>2
<1> QED
  BY <1>1, <1>3, <1>5, <1>6
(* interleave over two variants: rank by rank, then without repetitions.   *)
Ranked(a, b, out, r) == out \o SubSeq(a, r, Earlier(r, Len(a))) \o SubSeq(b, r, Earlier(r, Len(b)))
Ranks(a, b) == FoldLeft(LAMBDA out, r : Ranked(a, b, out, r), <<>>, <<1, 2>>)
Distinct(list) == FoldLeft(LAMBDA out, h : IF h \in ToSet(out) THEN out ELSE Append(out, h), <<>>, list)
Once1(list, out, k) == IF list[k] \in ToSet(out) THEN out ELSE Append(out, list[k])

VariantHits(x, y) == x \in {<<>>, <<1, 2>>} /\ y \in {<<>>, <<2>>}

LEMMA RanksUnfold ==
    ASSUME NEW a \in Seq({1, 2}), NEW b \in Seq({1, 2})
    PROVE  Ranks(a, b) = Ranked(a, b, Ranked(a, b, <<>>, 1), 2)
<1> DEFINE V == Seq({1, 2})
           sq == <<1, 2>>
           F == [q \in V \X (1 .. 2) |-> Ranked(a, b, q[1], q[2])]
           Solves(g) == g = [s \in SUBSET DOMAIN sq |->
                                IF s = {} THEN <<>> ELSE Ranked(a, b, g[s \ {Highest(s)}], sq[Highest(s)])]
<1>1. ASSUME NEW out \in V, NEW r \in 1 .. 2 PROVE Ranked(a, b, out, r) \in V
  <2>1. Len(a) \in Nat /\ Len(b) \in Nat /\ r \in Nat /\ 1 <= r
    OBVIOUS
  <2>2. Earlier(r, Len(a)) \in Nat /\ Earlier(r, Len(a)) <= Len(a) /\ Earlier(r, Len(b)) \in Nat /\ Earlier(r, Len(b)) <= Len(b)
    BY <2>1 DEF Earlier
  <2>3. SubSeq(a, r, Earlier(r, Len(a))) \in Seq({1, 2})
    BY <2>1, <2>2, SubSeqProperties
  <2>4. SubSeq(b, r, Earlier(r, Len(b))) \in Seq({1, 2})
    BY <2>1, <2>2, SubSeqProperties
  <2>5. \A x, y, z \in Seq({1, 2}) : x \o y \o z \in Seq({1, 2})
    OBVIOUS
  <2> QED
    BY <2>3, <2>4, <2>5 DEF Ranked
<1>2. F \in [V \X (1 .. 2) -> V]
  BY <1>1
<1>3. <<>> \in V
  OBVIOUS
<1> HIDE DEF V
<1>4. PICK g \in [SUBSET (1 .. 2) -> V] : FoldsAlong(g, 2, <<>>, F)
  <2> HIDE DEF F
  <2> QED
    BY <1>2, <1>3, FoldExists
<1>d. DOMAIN sq = 1 .. 2 /\ sq[1] = 1 /\ sq[2] = 2
  OBVIOUS
<1> HIDE DEF sq
<1>e. \A k \in 1 .. 2 : sq[k] = k
  BY <1>d
<1>5. ASSUME NEW s \in SUBSET (1 .. 2)
      PROVE  g[s] = IF s = {} THEN <<>> ELSE Ranked(a, b, g[s \ {Highest(s)}], sq[Highest(s)])
  <2>1. CASE s # {}
    <3>1. Highest(s) \in 1 .. 2 /\ g[s \ {Highest(s)}] \in V
      BY <1>4, <2>1, HighestOf
    <3>2. g[s] = F[<<g[s \ {Highest(s)}], Highest(s)>>]
      BY <1>4, <2>1 DEF FoldsAlong
    <3> QED
      BY <1>e, <2>1, <3>1, <3>2
  <2> QED
    BY <1>4, <2>1 DEF FoldsAlong
<1>6. Solves(g)
  BY <1>4, <1>5, <1>d
<1>7. Solves(CHOOSE x : Solves(x))
  BY <1>6
<1>8. Ranks(a, b) = (CHOOSE x : Solves(x))[1 .. 2]
  BY <1>d DEF Ranks, FoldLeft, MapThenFoldSet, Highest, Max, sq
<1>9. ASSUME NEW x, Solves(x) PROVE x[1 .. 2] = Ranked(a, b, Ranked(a, b, <<>>, 1), 2)
  <2>0. \A s \in SUBSET (1 .. 2) :
           x[s] = IF s = {} THEN <<>> ELSE Ranked(a, b, x[s \ {Highest(s)}], sq[Highest(s)])
    BY <1>9, <1>d
  <2> HIDE DEF Solves
  <2>1. ASSUME NEW k \in 1 .. 2 PROVE x[1 .. k] = Ranked(a, b, x[1 .. k - 1], k)
    <3>1. 2 \in Nat
      OBVIOUS
    <3>2. 1 .. k \in SUBSET (1 .. 2) /\ 1 .. k # {} /\ Highest(1 .. k) = k /\ (1 .. k) \ {k} = 1 .. k - 1
      BY ONLY k \in 1 .. 2, <3>1, FoldOfInterval
    <3>3. x[1 .. k] = Ranked(a, b, x[(1 .. k) \ {k}], sq[k])
      BY <2>0, <3>2
    <3> QED
      BY <1>e, <3>2, <3>3
  <2>2. 1 \in 1 .. 2 /\ 2 \in 1 .. 2 /\ 1 - 1 = 0 /\ 2 - 1 = 1 /\ 1 .. 0 = {}
    OBVIOUS
  <2>3. x[{}] = <<>>
    BY <2>0
  <2>4. x[1 .. 1] = Ranked(a, b, x[1 .. 0], 1)
    BY <2>1, <2>2
  <2>5. x[1 .. 2] = Ranked(a, b, x[1 .. 1], 2)
    BY <2>1, <2>2
  <2> QED
    BY <2>2, <2>3, <2>4, <2>5
<1> QED
  BY <1>7, <1>8, <1>9

LEMMA DistinctUnfolds ==
    ASSUME NEW list \in Seq({1, 2})
    PROVE  \E g : /\ Distinct(list) = g[1 .. Len(list)]
                  /\ g[{}] = <<>>
                  /\ \A k \in 1 .. Len(list) : g[1 .. k] = Once1(list, g[1 .. k - 1], k)
<1> DEFINE V == Seq({1, 2})
           n == Len(list)
           F == [q \in V \X (1 .. n) |-> Once1(list, q[1], q[2])]
           Solves(g) == g = [s \in SUBSET DOMAIN list |->
                                IF s = {} THEN <<>> ELSE Once1(list, g[s \ {Highest(s)}], Highest(s))]
<1>0. n \in Nat /\ DOMAIN list = 1 .. n
  OBVIOUS
<1>1. ASSUME NEW out \in V, NEW r \in 1 .. n PROVE Once1(list, out, r) \in V
  <2>1. list[r] \in {1, 2}
    OBVIOUS
  <2>2. Append(out, list[r]) \in V
    BY <2>1
  <2> QED
    BY <2>2 DEF Once1
<1>2. F \in [V \X (1 .. n) -> V]
  BY <1>1
<1>3. <<>> \in V
  OBVIOUS
<1> HIDE DEF V, n
<1>4. PICK g \in [SUBSET (1 .. n) -> V] : FoldsAlong(g, n, <<>>, F)
  <2> HIDE DEF F
  <2> QED
    BY <1>0, <1>2, <1>3, FoldExists
<1>5. ASSUME NEW s \in SUBSET (1 .. n)
      PROVE  g[s] = IF s = {} THEN <<>> ELSE Once1(list, g[s \ {Highest(s)}], Highest(s))
  <2>1. CASE s # {}
    <3>1. Highest(s) \in 1 .. n /\ g[s \ {Highest(s)}] \in V
      BY <1>0, <1>4, <2>1, HighestOf
    <3>2. g[s] = F[<<g[s \ {Highest(s)}], Highest(s)>>]
      BY <1>4, <2>1 DEF FoldsAlong
    <3> QED
      BY <2>1, <3>1, <3>2
  <2> QED
    BY <1>4, <2>1 DEF FoldsAlong
<1>6. Solves(g)
  BY <1>0, <1>4, <1>5
<1>7. Solves(CHOOSE x : Solves(x))
  BY <1>6
<1>8. Distinct(list) = (CHOOSE x : Solves(x))[1 .. n]
  BY <1>0 DEF Distinct, FoldLeft, MapThenFoldSet, Highest, Max, Once1
<1>9. ASSUME NEW x, Solves(x), NEW k \in 1 .. n PROVE x[{}] = <<>> /\ x[1 .. k] = Once1(list, x[1 .. k - 1], k)
  <2>1. 1 .. k \in SUBSET (1 .. n) /\ 1 .. k # {} /\ Highest(1 .. k) = k /\ (1 .. k) \ {k} = 1 .. k - 1
    BY <1>0, FoldOfInterval
  <2> QED
    BY <1>0, <1>9, <2>1
<1>10. ASSUME NEW x, Solves(x) PROVE x[{}] = <<>>
  BY <1>10
<1> DEFINE w == CHOOSE x : Solves(x)
<1> HIDE DEF w
<1>11. Solves(w) /\ Distinct(list) = w[1 .. n]
  BY <1>7, <1>8 DEF w
<1> HIDE DEF Solves
<1>12. w[{}] = <<>> /\ \A k \in 1 .. n : w[1 .. k] = Once1(list, w[1 .. k - 1], k)
  BY <1>9, <1>10, <1>11
<1> QED
  BY <1>11, <1>12 DEF n

LEMMA DistinctKeeps ==
    ASSUME NEW list \in Seq({1, 2})
    PROVE  /\ Distinct(list) \in Seq({1, 2})
           /\ \A k \in 1 .. Len(list) : \E p \in DOMAIN Distinct(list) : p <= k /\ Distinct(list)[p] = list[k]
<1> DEFINE n == Len(list)
<1>0. n \in Nat /\ \A k \in 1 .. n : list[k] \in {1, 2}
  OBVIOUS
<1>1. PICK g : /\ Distinct(list) = g[1 .. n]
               /\ g[{}] = <<>>
               /\ \A k \in 1 .. n : g[1 .. k] = Once1(list, g[1 .. k - 1], k)
  BY DistinctUnfolds
<1> HIDE DEF n
<1> DEFINE f == [k \in 0 .. n |-> g[1 .. k]]
           Good(k) == f[k] \in Seq({1, 2}) /\ Len(f[k]) <= k
           G == {k \in 0 .. n : Good(k)}
<1>2. f[0] = <<>> /\ f[n] = Distinct(list) /\ 0 \in 0 .. n
      /\ \A k \in 1 .. n : f[k] = Once1(list, f[k - 1], k) /\ k - 1 \in 0 .. n /\ k \in 0 .. n /\ k \in Nat
  <2>1. 0 \in 0 .. n /\ n \in 0 .. n /\ 1 .. 0 = {}
    BY <1>0
  <2>2. \A k \in 1 .. n : k - 1 \in 0 .. n /\ k \in 0 .. n /\ k \in Nat
    BY <1>0
  <2> QED
    BY <1>1, <2>1, <2>2
<1> HIDE DEF f
<1>3. ASSUME NEW k \in 1 .. n, NEW out \in Seq({1, 2}), Len(out) <= k - 1
      PROVE  /\ Once1(list, out, k) \in Seq({1, 2}) /\ Len(Once1(list, out, k)) <= k
             /\ \A p \in DOMAIN out : p \in DOMAIN Once1(list, out, k) /\ Once1(list, out, k)[p] = out[p]
             /\ \E p \in DOMAIN Once1(list, out, k) : p <= k /\ Once1(list, out, k)[p] = list[k]
  <2>1. k \in Nat /\ list[k] \in {1, 2} /\ Len(out) \in Nat /\ DOMAIN out = 1 .. Len(out)
    BY <1>0
  <2>2. CASE list[k] \in ToSet(out)
    <3>1. Once1(list, out, k) = out
      BY <2>2 DEF Once1
    <3>2. PICK p \in DOMAIN out : out[p] = list[k]
      BY <2>2 DEF ToSet
    <3>3. p \in 1 .. Len(out)
      BY <2>1
    <3>4. p <= k /\ Len(out) <= k
      BY <1>3, <2>1, <3>3
    <3> QED
      BY <3>1, <3>2, <3>4
  <2>3. CASE list[k] \notin ToSet(out)
    <3> DEFINE e == list[k]
    <3>1. Once1(list, out, k) = Append(out, e) /\ e \in {1, 2}
      BY <2>1, <2>3 DEF Once1
    <3> HIDE DEF e
    <3>2. /\ Append(out, e) \in Seq({1, 2}) /\ Len(Append(out, e)) = Len(out) + 1
          /\ DOMAIN Append(out, e) = 1 .. Len(out) + 1
          /\ \A p \in 1 .. Len(out) : Append(out, e)[p] = out[p]
          /\ Append(out, e)[Len(out) + 1] = e
      BY <3>1
    <3>3. Len(out) + 1 <= k /\ Len(out) + 1 \in 1 .. Len(out) + 1 /\ \A p \in 1 .. Len(out) : p \in 1 .. Len(out) + 1
      BY <1>3, <2>1
    <3> QED
      BY <2>1, <3>1, <3>2, <3>3 DEF e
  <2> QED
    BY <2>2, <2>3
<1>4. Good(0)
  <2>1. <<>> \in Seq({1, 2}) /\ Len(<<>>) <= 0
    OBVIOUS
  <2> QED
    BY <1>2, <2>1
<1>5. ASSUME NEW k \in 1 .. n, Good(k - 1) PROVE Good(k)
  BY <1>2, <1>3, <1>5
<1> HIDE DEF Good
<1>6. \A k \in 0 .. n : Good(k)
  <2>1. 0 \in G /\ \A k \in 1 .. n : k - 1 \in G => k \in G
    BY <1>2, <1>4, <1>5
  <2> HIDE DEF G
  <2>2. \A k \in 0 .. n : k \in G
    BY <1>0, <2>1, UpTo DEF n
  <2> QED
    BY <2>2 DEF G
<1> USE DEF Good
<1>7. ASSUME NEW k \in 1 .. n
      PROVE  /\ \E p \in DOMAIN f[k] : p <= k /\ f[k][p] = list[k]
             /\ \A p \in DOMAIN f[k - 1] : p \in DOMAIN f[k] /\ f[k][p] = f[k - 1][p]
  <2>1. f[k] = Once1(list, f[k - 1], k) /\ k - 1 \in 0 .. n
    BY <1>2
  <2>2. f[k - 1] \in Seq({1, 2}) /\ Len(f[k - 1]) <= k - 1
    BY <1>6, <2>1
  <2> QED
    BY <1>3, <2>1, <2>2
<1>8. \A k \in 1 .. n : \A p \in DOMAIN f[k - 1] : p \in DOMAIN f[k] /\ f[k][p] = f[k - 1][p]
  BY <1>7
<1>9. ASSUME NEW k \in 1 .. n
      PROVE  \E p \in DOMAIN f[n] : p <= k /\ f[n][p] = list[k]
  <2>1. PICK p \in DOMAIN f[k] : p <= k /\ f[k][p] = list[k]
    BY <1>7
  <2>2. k \in 0 .. n /\ n \in Nat
    BY <1>0, <1>2 DEF n
  <2>3. p \in DOMAIN f[n] /\ f[n][p] = f[k][p]
    BY <1>8, <2>2, Grows
  <2> QED
    BY <2>1, <2>3
<1>10. f[n] \in Seq({1, 2})
  <2>1. n \in 0 .. n
    BY <1>0 DEF n
  <2> QED
    BY <1>6, <2>1
<1> QED
  BY <1>2, <1>9, <1>10 DEF n

(* What a variant ranks first is the first hit of the lane, or the second. *)
LEMMA FirstsAreKept ==
    ASSUME NEW x \in Seq({1, 2}), NEW y \in Seq({1, 2})
    PROVE  /\ RoundRobin(x, y) \in Seq({1, 2})
           /\ x # <<>> => \E p \in DOMAIN RoundRobin(x, y) : p <= 1 /\ RoundRobin(x, y)[p] = x[1]
           /\ y # <<>> => \E p \in DOMAIN RoundRobin(x, y) :
                             p <= (IF x = <<>> THEN 1 ELSE 2) /\ RoundRobin(x, y)[p] = y[1]
<1> DEFINE A1 == SubSeq(x, 1, Earlier(1, Len(x)))
           B1 == SubSeq(y, 1, Earlier(1, Len(y)))
           A2 == SubSeq(x, 2, Earlier(2, Len(x)))
           B2 == SubSeq(y, 2, Earlier(2, Len(y)))
           list == Ranks(x, y)
<1>1. RoundRobin(x, y) = Distinct(list)
  BY DEF RoundRobin, Distinct, Ranks, Ranked
<1>2. list = ((<<>> \o A1 \o B1) \o A2) \o B2
  BY RanksUnfold DEF Ranked
<1>3. ASSUME NEW s \in Seq({1, 2}), NEW k \in 1 .. 2
      PROVE  SubSeq(s, k, Earlier(k, Len(s))) \in Seq({1, 2})
  <2>1. Len(s) \in Nat /\ k \in Nat /\ 1 <= k
    OBVIOUS
  <2>2. Earlier(k, Len(s)) \in Nat /\ Earlier(k, Len(s)) <= Len(s)
    BY <2>1 DEF Earlier
  <2> QED
    BY <2>1, <2>2, SubSeqProperties
<1>4. A1 \in Seq({1, 2}) /\ B1 \in Seq({1, 2}) /\ A2 \in Seq({1, 2}) /\ B2 \in Seq({1, 2})
  BY <1>3
<1>5. ASSUME NEW s \in Seq({1, 2})
      PROVE  LET t == SubSeq(s, 1, Earlier(1, Len(s)))
             IN  IF s = <<>> THEN t = <<>> ELSE t \in Seq({1, 2}) /\ Len(t) = 1 /\ t[1] = s[1]
  <2>1. Len(s) \in Nat /\ (s = <<>> <=> Len(s) = 0)
    OBVIOUS
  <2>2. CASE Len(s) = 0
    <3>1. Earlier(1, Len(s)) = 0
      BY <2>2 DEF Earlier
    <3>2. SubSeq(s, 1, 0) = <<>>
      OBVIOUS
    <3> QED
      BY <2>1, <2>2, <3>1, <3>2
  <2>3. CASE Len(s) > 0
    <3>1. Earlier(1, Len(s)) = 1
      BY <2>1, <2>3 DEF Earlier
    <3>2. SubSeq(s, 1, 1) \in Seq({1, 2}) /\ Len(SubSeq(s, 1, 1)) = 1 /\ SubSeq(s, 1, 1)[1] = s[1]
      BY <2>1, <2>3
    <3>3. s # <<>> /\ SubSeq(s, 1, Earlier(1, Len(s))) = SubSeq(s, 1, 1)
      BY <2>1, <2>3, <3>1
    <3> HIDE DEF A1, B1, A2, B2, list
    <3> QED
      BY <3>2, <3>3
  <2> QED
    BY <2>1, <2>2, <2>3
<1>6. /\ IF x = <<>> THEN A1 = <<>> ELSE Len(A1) = 1 /\ A1[1] = x[1]
      /\ IF y = <<>> THEN B1 = <<>> ELSE Len(B1) = 1 /\ B1[1] = y[1]
  BY <1>5
<1> HIDE DEF A1, B1, A2, B2, list
<1>7. ASSUME NEW s \in Seq({1, 2}), NEW t \in Seq({1, 2})
      PROVE  /\ s \o t \in Seq({1, 2}) /\ Len(s \o t) = Len(s) + Len(t)
             /\ \A i \in 1 .. Len(s) : (s \o t)[i] = s[i]
             /\ \A i \in 1 .. Len(t) : (s \o t)[Len(s) + i] = t[i]
             /\ <<>> \o s = s /\ Len(s) \in Nat /\ DOMAIN s = 1 .. Len(s)
  OBVIOUS
<1> DEFINE C == A1 \o B1
<1>8. C \in Seq({1, 2}) /\ Len(C) = Len(A1) + Len(B1)
  BY <1>4, <1>7
<1>9. /\ x # <<>> => 1 \in 1 .. Len(C) /\ C[1] = x[1]
      /\ y # <<>> /\ x = <<>> => 1 \in 1 .. Len(C) /\ C[1] = y[1]
      /\ y # <<>> /\ x # <<>> => 2 \in 1 .. Len(C) /\ C[2] = y[1]
  <2>1. ASSUME x # <<>> PROVE 1 \in 1 .. Len(C) /\ C[1] = x[1]
    <3>1. Len(A1) = 1 /\ A1[1] = x[1]
      BY <1>6, <2>1
    <3>2. Len(B1) \in Nat
      BY <1>4
    <3>3. \A i \in 1 .. Len(A1) : C[i] = A1[i]
      BY <1>4, <1>7
    <3> HIDE DEF C
    <3>4. 1 \in 1 .. Len(C) /\ 1 \in 1 .. Len(A1)
      BY <1>8, <3>1, <3>2
    <3> QED
      BY <3>1, <3>3, <3>4
  <2>2. ASSUME y # <<>>, x = <<>> PROVE 1 \in 1 .. Len(C) /\ C[1] = y[1]
    <3>1. Len(B1) = 1 /\ B1[1] = y[1] /\ A1 = <<>>
      BY <1>6, <2>2
    <3>2. C = B1
      BY <1>4, <1>7, <3>1
    <3> HIDE DEF C
    <3>3. Len(C) = 1
      BY <3>1, <3>2
    <3>4. C[1] = y[1]
      BY <3>1, <3>2
    <3>5. 1 \in 1 .. 1
      OBVIOUS
    <3> QED
      BY <3>3, <3>4, <3>5
  <2>3. ASSUME y # <<>>, x # <<>> PROVE 2 \in 1 .. Len(C) /\ C[2] = y[1]
    <3>1. Len(A1) = 1 /\ 1 \in 1 .. Len(B1) /\ B1[1] = y[1] /\ Len(B1) = 1 /\ 1 + 1 = 2
      BY <1>6, <2>3
    <3>2. \A i \in 1 .. Len(B1) : C[Len(A1) + i] = B1[i]
      BY <1>4, <1>7
    <3> HIDE DEF C
    <3>3. C[Len(A1) + 1] = B1[1]
      BY <3>1, <3>2
    <3> QED
      BY <1>8, <3>1, <3>3
  <2> QED
    BY <2>1, <2>2, <2>3
<1>10. list = (C \o A2) \o B2
  BY <1>2, <1>4, <1>7
<1> HIDE DEF C
<1>11. list \in Seq({1, 2}) /\ \A i \in 1 .. Len(C) : i \in 1 .. Len(list) /\ list[i] = C[i]
  <2> DEFINE E == C \o A2
  <2>1. E \in Seq({1, 2}) /\ Len(E) = Len(C) + Len(A2) /\ \A i \in 1 .. Len(C) : E[i] = C[i]
    BY <1>4, <1>7, <1>8
  <2>2. list = E \o B2
    BY <1>10
  <2> HIDE DEF E
  <2>3. list \in Seq({1, 2}) /\ Len(list) = Len(E) + Len(B2) /\ \A i \in 1 .. Len(E) : list[i] = E[i]
    BY <1>4, <1>7, <2>1, <2>2
  <2>4. Len(C) \in Nat /\ Len(A2) \in Nat /\ Len(B2) \in Nat /\ Len(E) \in Nat
    BY <1>4, <1>7, <1>8, <2>1
  <2>5. \A i \in 1 .. Len(C) : i \in 1 .. Len(E) /\ i \in 1 .. Len(list)
    BY <2>1, <2>3, <2>4
  <2> QED
    BY <2>1, <2>3, <2>5
<1>12. ASSUME NEW i \in 1 .. 2, i \in 1 .. Len(C)
       PROVE  \E p \in DOMAIN RoundRobin(x, y) : p <= i /\ RoundRobin(x, y)[p] = C[i]
  <2>1. i \in 1 .. Len(list) /\ list[i] = C[i]
    BY <1>11, <1>12
  <2>2. PICK p \in DOMAIN Distinct(list) : p <= i /\ Distinct(list)[p] = list[i]
    BY <1>11, <2>1, DistinctKeeps
  <2> QED
    BY <1>1, <2>1, <2>2
<1>13. RoundRobin(x, y) \in Seq({1, 2})
  BY <1>1, <1>11, DistinctKeeps
<1> QED
  BY <1>9, <1>12, <1>13

(* The invariant. *)
SettledLane(a, b) ==
    [state |-> IF a.ok \/ b.ok THEN "ok" ELSE "failed", values |-> <<a, b>>,
     hits |-> Leading(RoundRobin(a.hits, b.hits), SourceLimit)]
LaneOK(l) == l = Searching \/ \E a, b \in VariantAnswers : l = SettledLane(a, b)
PerLane == [i \in Lanes |-> lanes[i].hits]
Merged == Rotation(PerLane)
Targets == {h \in ToSet(Leading(Merged, fanCall.readTop)) : previewable(h)}
AllSettled == \A i \in Lanes : lanes[i].state # "searching"

CallsAreInTime ==
    /\ fanCall \in [readTop : {1, 3}, late : {0, FanBudget - NssDeadline}]
    /\ fanClock \in Nat /\ fanClock <= CallEnd
LanesAreSettled == DOMAIN lanes = Lanes /\ lanes = [i \in Lanes |-> lanes[i]] /\ \A i \in Lanes : LaneOK(lanes[i])
FetchesEndInTime ==
    fetches \in [FanHits -> [state : {"none", "reading", "over"}, until : {t \in Nat : t <= CallEnd}]]
EarlyReads ==
    fanAnswer = NoFanAnswer =>
        \A h \in FanHits : fetches[h] # NoFetch =>
            lanes[h[1]].state # "searching" /\ h \in LeadingHit(h[1], lanes[h[1]].hits)
AnswerIsMerged ==
    fanAnswer # NoFanAnswer =>
        /\ AllSettled
        /\ fanAnswer = [says |-> EmptyLine(Merged), items |-> Merged, targets |-> Targets]
        /\ \A h \in FanHits : fetches[h] # NoFetch => h \in Targets
FanInv == CallsAreInTime /\ LanesAreSettled /\ FetchesEndInTime /\ EarlyReads /\ AnswerIsMerged

LEMMA VariantTypes ==
    ASSUME NEW v \in VariantAnswers
    PROVE  v.ok \in BOOLEAN /\ v.hits \in Seq({1, 2}) /\ (~v.ok => v.hits = <<>>)
<1>1. <<>> \in Seq({1, 2}) /\ <<1, 2>> \in Seq({1, 2}) /\ <<2>> \in Seq({1, 2})
  OBVIOUS
<1>2. CASE v = [ok |-> FALSE, hits |-> <<>>]
  BY <1>1, <1>2
<1>3. CASE v \in [ok : {TRUE}, hits : {<<>>, <<1, 2>>, <<2>>}]
  <2>1. v.ok = TRUE /\ v.hits \in {<<>>, <<1, 2>>, <<2>>}
    BY <1>3
  <2> QED
    BY <1>1, <2>1
<1> QED
  BY <1>2, <1>3 DEF VariantAnswers

LEMMA SettledTypes ==
    ASSUME NEW a \in VariantAnswers, NEW b \in VariantAnswers
    PROVE  /\ SettledLane(a, b).state # "searching" /\ SettledLane(a, b) # Searching
           /\ SettledLane(a, b).state = (IF a.ok \/ b.ok THEN "ok" ELSE "failed")
           /\ ToSet(SettledLane(a, b).values) = {a, b}
           /\ SettledLane(a, b).hits \in Seq({1, 2})
           /\ \A v \in {a, b} : v.hits # <<>> =>
                 /\ SettledLane(a, b).hits # <<>>
                 /\ SourceLimit >= 2 =>
                       \E p \in DOMAIN SettledLane(a, b).hits : p \in {1, 2} /\ SettledLane(a, b).hits[p] = v.hits[1]
<1> DEFINE R == RoundRobin(a.hits, b.hits)
           shown == Leading(R, SourceLimit)
<1>1. a.hits \in Seq({1, 2}) /\ b.hits \in Seq({1, 2})
  BY VariantTypes
<1>2. /\ R \in Seq({1, 2})
      /\ \A v \in {a, b} : v.hits # <<>> => \E p \in DOMAIN R : p <= 2 /\ R[p] = v.hits[1]
      /\ \A v \in {a, b} : v.hits # <<>> => R # <<>>
  <2>1. /\ a.hits # <<>> => \E p \in DOMAIN R : p <= 1 /\ R[p] = a.hits[1]
        /\ b.hits # <<>> => \E p \in DOMAIN R : p <= (IF a.hits = <<>> THEN 1 ELSE 2) /\ R[p] = b.hits[1]
        /\ R \in Seq({1, 2})
    BY <1>1, FirstsAreKept
  <2> HIDE DEF R
  <2>2. \A p \in DOMAIN R : p \in Nat /\ (p <= 1 => p <= 2)
    BY <2>1
  <2>3. R = <<>> => DOMAIN R = {}
    OBVIOUS
  <2> QED
    BY <2>1, <2>2, <2>3
<1> HIDE DEF R
<1>3. SourceLimit \in Nat /\ SourceLimit >= 1
  BY FanTypes
<1>4. shown \in Seq({1, 2})
  BY <1>2, <1>3, LeadingOnes
<1>5. \A p \in DOMAIN R : p \in Nat \ {0} /\ 1 \in DOMAIN R
  BY <1>2
<1>6. ASSUME NEW v \in {a, b}, v.hits # <<>>
      PROVE  /\ shown # <<>>
             /\ SourceLimit >= 2 => \E p \in DOMAIN shown : p \in {1, 2} /\ shown[p] = v.hits[1]
  <2>1. PICK p \in DOMAIN R : p <= 2 /\ R[p] = v.hits[1]
    BY <1>2, <1>6
  <2>2. 1 \in DOMAIN shown
    BY <1>2, <1>3, <1>5, <2>1, LeadingOnes
  <2>3. shown # <<>>
    BY <2>2
  <2>4. ASSUME SourceLimit >= 2 PROVE p \in DOMAIN shown /\ shown[p] = R[p]
    <3>1. p <= SourceLimit
      BY <1>3, <1>5, <2>1, <2>4
    <3> QED
      BY <1>2, <1>3, <3>1, LeadingOnes
  <2>5. p \in {1, 2}
    BY <1>5, <2>1
  <2> QED
    BY <2>1, <2>3, <2>4, <2>5
<1>7. SettledLane(a, b).hits = shown
  BY DEF SettledLane, R
<1>8. SettledLane(a, b).state = (IF a.ok \/ b.ok THEN "ok" ELSE "failed")
  BY DEF SettledLane
<1>9. ToSet(SettledLane(a, b).values) = {a, b}
  <2>1. SettledLane(a, b).values = <<a, b>>
    BY DEF SettledLane
  <2>2. ToSet(<<a, b>>) = {a, b}
    BY DEF ToSet
  <2> QED
    BY <2>1, <2>2
<1> HIDE DEF shown
<1> QED
  BY <1>4, <1>6, <1>7, <1>8, <1>9 DEF Searching

LEMMA LaneTypes ==
    ASSUME LanesAreSettled
    PROVE  /\ PerLane \in [Lanes -> LaneHits]
           /\ Merged \in Seq(FanHits)
           /\ \A i \in Lanes : lanes[i].hits # <<>> =>
                 lanes[i].hits[1] \in {1, 2} /\ \E p \in DOMAIN Merged : p <= i /\ Merged[p] = <<i, lanes[i].hits[1]>>
<1>1. ASSUME NEW i \in Lanes PROVE lanes[i].hits \in Seq({1, 2})
  <2>1. CASE lanes[i] = Searching
    <3>1. <<>> \in Seq({1, 2})
      OBVIOUS
    <3> QED
      BY <2>1, <3>1 DEF Searching
  <2>2. CASE \E a, b \in VariantAnswers : lanes[i] = SettledLane(a, b)
    BY <2>2, SettledTypes
  <2> QED
    BY <2>1, <2>2 DEF LanesAreSettled, LaneOK
<1>2. PerLane \in [Lanes -> LaneHits] /\ \A i \in Lanes : PerLane[i] = lanes[i].hits
  BY <1>1 DEF PerLane, LaneHits
<1>3. \A i \in Lanes : lanes[i].hits # <<>> => lanes[i].hits[1] \in {1, 2}
  BY <1>1
<1>4. \A i \in Lanes : PerLane[i] # <<>> => \E p \in DOMAIN Merged : p <= i /\ Merged[p] = <<i, PerLane[i][1]>>
  BY <1>2, MergedList DEF Merged
<1>5. Merged \in Seq(FanHits)
  BY <1>2, MergedList DEF Merged
<1> QED
  BY <1>2, <1>3, <1>4, <1>5

LEMMA TimeTypes ==
    ASSUME CallsAreInTime
    PROVE  /\ CallEnd \in Nat /\ fanClock \in Nat /\ fanClock <= CallEnd
           /\ \A i \in Lanes : Deadline(i) \in Nat /\ Deadline(i) <= CallEnd
           /\ PreviewEnd(fanClock) \in {t \in Nat : t <= CallEnd}
<1>1. CallEnd \in Nat /\ NssDeadline <= CallEnd
  BY FanAssumption DEF CallsAreInTime, CallEnd
<1>2. \A i \in Lanes : Deadline(i) \in Nat /\ Deadline(i) <= CallEnd
  BY <1>1, FanAssumption DEF Deadline
<1>3. fanClock + PreviewTime \in Nat
  BY FanAssumption DEF CallsAreInTime
<1>4. PreviewEnd(fanClock) \in {t \in Nat : t <= CallEnd}
  BY <1>1, <1>3 DEF PreviewEnd, Earlier
<1> QED
  BY <1>1, <1>2, <1>4 DEF CallsAreInTime

LEMMA PreviewTypes ==
    ASSUME CallsAreInTime, FetchesEndInTime, NEW asked
    PROVE  /\ previewText(asked, fetches) \in [FanHits -> [state : {"none", "reading", "over"}, until : {t \in Nat : t <= CallEnd}]]
           /\ \A h \in FanHits : previewText(asked, fetches)[h] # NoFetch => h \in asked \/ fetches[h] # NoFetch
BY TimeTypes DEF previewText, FetchesEndInTime

LEMMA FanStarts == FanInit => FanInv
<1> SUFFICES ASSUME FanInit PROVE FanInv
  OBVIOUS
<1>1. CallsAreInTime
  BY FanAssumption DEF FanInit, CallsAreInTime, CallEnd
<1>2. LanesAreSettled
  BY DEF FanInit, LanesAreSettled, LaneOK
<1>3. FetchesEndInTime
  BY <1>1, TimeTypes DEF FanInit, FetchesEndInTime, NoFetch
<1>4. EarlyReads /\ AnswerIsMerged
  BY DEF FanInit, EarlyReads, AnswerIsMerged
<1> QED
  BY <1>1, <1>2, <1>3, <1>4 DEF FanInv

LEMMA SettlesStep ==
    ASSUME FanInv, NEW i \in Lanes, LaneSettles(i)
    PROVE  FanInv'
<1>1. PICK a \in VariantAnswers, b \in VariantAnswers :
        /\ lanes' = [lanes EXCEPT ![i] = SettledLane(a, b)]
        /\ fetches' = previewText(LeadingHit(i, SettledLane(a, b).hits), fetches)
  BY DEF LaneSettles, SettledLane
<1>2. lanes[i].state = "searching" /\ UNCHANGED <<fanCall, fanClock, fanAnswer>>
  BY DEF LaneSettles
<1> USE DEF FanInv
<1>3. CallsAreInTime' /\ CallEnd' = CallEnd
  BY <1>2 DEF CallsAreInTime, CallEnd
<1>4. /\ DOMAIN lanes' = Lanes /\ lanes'[i] = SettledLane(a, b)
      /\ \A j \in Lanes : j # i => lanes'[j] = lanes[j]
      /\ lanes' = [j \in Lanes |-> lanes'[j]]
  BY <1>1 DEF LanesAreSettled
<1>5. LanesAreSettled'
  BY <1>4 DEF LanesAreSettled, LaneOK
<1>6. FetchesEndInTime'
  BY <1>1, <1>3, PreviewTypes DEF FetchesEndInTime
<1>7. fanAnswer = NoFanAnswer /\ fanAnswer' = NoFanAnswer
  BY <1>2 DEF AnswerIsMerged, AllSettled
<1>8. EarlyReads'
  <2> SUFFICES ASSUME NEW h \in FanHits, fetches'[h] # NoFetch
               PROVE  lanes'[h[1]].state # "searching" /\ (h \in LeadingHit(h[1], lanes[h[1]].hits))'
    BY DEF EarlyReads
  <2>1. \A j, s : LeadingHit(j, s)' = LeadingHit(j, s')
    BY <1>2 DEF LeadingHit, previewable
  <2>2. CASE h \in LeadingHit(i, SettledLane(a, b).hits)
    <3>1. h[1] = i
      BY <2>2 DEF LeadingHit
    <3>2. SettledLane(a, b).state # "searching"
      BY SettledTypes
    <3> QED
      BY <1>2, <1>4, <2>2, <3>1, <3>2 DEF LeadingHit, previewable
  <2>3. CASE fetches[h] # NoFetch
    <3>1. lanes[h[1]].state # "searching" /\ h \in LeadingHit(h[1], lanes[h[1]].hits)
      BY <1>7, <2>3 DEF EarlyReads
    <3>2. h[1] # i /\ h[1] \in Lanes
      BY <1>2, <3>1 DEF FanHits
    <3>3. lanes'[h[1]] = lanes[h[1]]
      BY <1>4, <3>2
    <3> QED
      BY <1>2, <3>1, <3>3 DEF LeadingHit, previewable
  <2> QED
    BY <1>1, <2>2, <2>3, PreviewTypes
<1>9. AnswerIsMerged'
  BY <1>7 DEF AnswerIsMerged
<1> QED
  BY <1>3, <1>5, <1>6, <1>8, <1>9

\* What the answer is made of stays while the lanes and the call do.
LEMMA MergedStays ==
    ASSUME lanes' = lanes, fanCall' = fanCall
    PROVE  Merged' = Merged /\ Targets' = Targets /\ AllSettled' = AllSettled /\ EmptyLine(Merged)' = EmptyLine(Merged)
<1>1. PerLane' = PerLane
  BY DEF PerLane
<1>2. Merged' = Merged
  BY <1>1 DEF Merged, Rotation, FoldLeft, MapThenFoldSet
<1>3. \A h : previewable(h)' = previewable(h)
  BY DEF previewable
<1>4. Targets' = Targets
  BY <1>2, <1>3 DEF Targets, previewable
<1> HIDE DEF Merged
<1> QED
  BY <1>2, <1>4 DEF AllSettled, EmptyLine

LEMMA PreviewEndsStep ==
    ASSUME FanInv, NEW g \in FanHits, PreviewEnds(g)
    PROVE  FanInv'
<1> USE DEF FanInv
<1>1. fetches[g].state = "reading" /\ fetches' = [fetches EXCEPT ![g] = [state |-> "over", until |-> 0]]
      /\ UNCHANGED <<fanCall, fanClock, lanes, fanAnswer>>
  BY DEF PreviewEnds
<1>2. CallsAreInTime' /\ CallEnd' = CallEnd
  BY <1>1 DEF CallsAreInTime, CallEnd
<1>3. LanesAreSettled'
  BY <1>1 DEF LanesAreSettled, LaneOK
<1>4. FetchesEndInTime'
  BY <1>1, <1>2, TimeTypes DEF FetchesEndInTime
<1>5. \A h \in FanHits : fetches'[h] # NoFetch => fetches[h] # NoFetch
  BY <1>1 DEF FetchesEndInTime, NoFetch
<1>6. EarlyReads'
  BY <1>1, <1>5 DEF EarlyReads, LeadingHit, previewable
<1>7. AnswerIsMerged'
  BY <1>1, <1>5, MergedStays DEF AnswerIsMerged
<1> QED
  BY <1>2, <1>3, <1>4, <1>6, <1>7

LEMMA AllSettleStep ==
    ASSUME FanInv, AllSettle
    PROVE  FanInv'
<1> USE DEF FanInv
<1>1. /\ fanAnswer = NoFanAnswer /\ AllSettled /\ UNCHANGED <<fanCall, fanClock, lanes>>
      /\ fanAnswer' = [says |-> EmptyLine(Merged), items |-> Merged, targets |-> Targets]
      /\ fetches' = previewText(Targets, fetches)
  BY DEF AllSettle, AllSettled, Merged, PerLane, Targets
<1>2. CallsAreInTime' /\ CallEnd' = CallEnd
  BY <1>1 DEF CallsAreInTime, CallEnd
<1>3. LanesAreSettled'
  BY <1>1 DEF LanesAreSettled, LaneOK
<1>4. FetchesEndInTime'
  BY <1>1, <1>2, PreviewTypes DEF FetchesEndInTime
<1>5. fanAnswer' # NoFanAnswer
  <2>1. EmptyLine(Merged) # "nothing yet"
    BY DEF EmptyLine
  <2> QED
    BY <1>1, <2>1 DEF NoFanAnswer
<1>6. EarlyReads'
  BY <1>5 DEF EarlyReads
<1>7. ASSUME NEW h \in FanHits, fetches[h] # NoFetch PROVE h \in Targets
  <2> DEFINE i == h[1]
             shown == lanes[i].hits
  <2>1. i \in Lanes
    BY DEF FanHits
  <2>2. h \in LeadingHit(i, shown)
    BY <1>1, <1>7 DEF EarlyReads
  <2>3. 1 \in DOMAIN shown /\ i - 1 < fanCall.readTop /\ previewable(<<i, shown[1]>>) /\ h = <<i, shown[1]>>
    BY <2>2 DEF LeadingHit
  <2> HIDE DEF shown
  <2>4. shown # <<>>
    BY <2>3
  <2>5. PICK p \in DOMAIN Merged : p <= i /\ Merged[p] = h
    BY <2>1, <2>3, <2>4, LaneTypes DEF shown
  <2>6. fanCall.readTop \in Nat /\ i \in Nat /\ p \in Nat
    BY <2>1, FanTypes, LaneTypes DEF CallsAreInTime
  <2>7. p <= fanCall.readTop
    BY <2>3, <2>5, <2>6
  <2>8. p \in DOMAIN Leading(Merged, fanCall.readTop) /\ Leading(Merged, fanCall.readTop)[p] = h
    BY <2>5, <2>6, <2>7, LaneTypes, LeadingOnes
  <2>9. h \in ToSet(Leading(Merged, fanCall.readTop)) /\ previewable(h)
    BY <2>3, <2>8 DEF ToSet
  <2> QED
    BY <2>9 DEF Targets
<1>8. AnswerIsMerged'
  <2>1. \A h \in FanHits : fetches'[h] # NoFetch => h \in Targets
    BY <1>1, <1>7, PreviewTypes
  <2> QED
    BY <1>1, <2>1, MergedStays DEF AnswerIsMerged
<1> QED
  BY <1>2, <1>3, <1>4, <1>6, <1>8

LEMMA FanTickStep ==
    ASSUME FanInv, FanTick
    PROVE  FanInv'
<1> USE DEF FanInv
<1>1. /\ \A i \in Lanes : lanes[i].state = "searching" => fanClock < Deadline(i)
      /\ \A h \in FanHits : fetches[h].state = "reading" => fanClock < fetches[h].until
      /\ \E i \in Lanes : lanes[i].state = "searching" \/ \E h \in FanHits : fetches[h].state = "reading"
      /\ fanClock' = fanClock + 1 /\ UNCHANGED <<fanCall, lanes, fetches, fanAnswer>>
  BY DEF FanTick
<1>2. fanClock < CallEnd
  <2>1. \A h \in FanHits : fetches[h].until \in Nat /\ fetches[h].until <= CallEnd
    BY DEF FetchesEndInTime
  <2>2. CallEnd \in Nat /\ fanClock \in Nat /\ \A i \in Lanes : Deadline(i) \in Nat /\ Deadline(i) <= CallEnd
    BY TimeTypes
  <2> QED
    BY <1>1, <2>1, <2>2
<1>3. CallsAreInTime' /\ CallEnd' = CallEnd
  BY <1>1, <1>2, TimeTypes DEF CallsAreInTime, CallEnd
<1>4. LanesAreSettled' /\ FetchesEndInTime'
  BY <1>1, <1>3 DEF LanesAreSettled, LaneOK, FetchesEndInTime
<1>5. EarlyReads'
  BY <1>1 DEF EarlyReads, LeadingHit, previewable
<1>6. AnswerIsMerged'
  BY <1>1, MergedStays DEF AnswerIsMerged
<1> QED
  BY <1>3, <1>4, <1>5, <1>6

LEMMA FanSteps == FanInv /\ FanNext => FanInv'
BY SettlesStep, PreviewEndsStep, AllSettleStep, FanTickStep DEF FanNext

\* In the behaviours of another part.
NoFanOut == fanAnswer = NoFanAnswer /\ fanClock = 0 /\ fanCall.late = 0

LEMMA FanStays == FanInv /\ UNCHANGED fanVars => FanInv'
<1> SUFFICES ASSUME FanInv, UNCHANGED fanVars PROVE FanInv'
  OBVIOUS
<1> USE DEF FanInv, fanVars
<1>1. CallsAreInTime' /\ CallEnd' = CallEnd
  BY DEF CallsAreInTime, CallEnd
<1>2. LanesAreSettled' /\ FetchesEndInTime'
  BY <1>1 DEF LanesAreSettled, LaneOK, FetchesEndInTime
<1>3. EarlyReads'
  BY DEF EarlyReads, LeadingHit, previewable
<1>4. AnswerIsMerged'
  BY MergedStays DEF AnswerIsMerged
<1> QED
  BY <1>1, <1>2, <1>3, <1>4

LEMMA FanHolds == FanInv => FanOutIsHonest
<1> SUFFICES ASSUME FanInv PROVE FanOutIsHonest
  OBVIOUS
<1> USE DEF FanInv
<1>1. EarlyReadsAreTargets
  BY DEF EarlyReadsAreTargets, AnswerIsMerged
<1>2. AnswersInTime
  BY DEF AnswersInTime, CallsAreInTime
<1>3. CourtsAreReported
  <2> SUFFICES ASSUME fanAnswer # NoFanAnswer
      PROVE  /\ fanAnswer.says = "no hits in any court" =>
                   \A i \in Lanes : \A v \in ToSet(lanes[i].values) : v.ok /\ v.hits = <<>>
             /\ fanAnswer.says = "no court answered" => \A i \in Lanes : \A v \in ToSet(lanes[i].values) : ~v.ok
             /\ \A i \in Lanes : \A v \in ToSet(lanes[i].values) :
                   SourceLimit >= 2 /\ v.hits # <<>> => <<i, v.hits[1]>> \in ToSet(fanAnswer.items)
             /\ \A i \in Lanes : lanes[i].hits # <<>> =>
                   <<i, lanes[i].hits[1]>> \in ToSet(Leading(fanAnswer.items, Len(FanLanes)))
    BY DEF CourtsAreReported
  <2>1. AllSettled /\ fanAnswer.says = EmptyLine(Merged) /\ fanAnswer.items = Merged
    BY DEF AnswerIsMerged
  <2>2. PerLane \in [Lanes -> LaneHits] /\ Merged \in Seq(FanHits)
    BY LaneTypes
  <2>3. ASSUME NEW i \in Lanes
        PROVE  /\ \A v \in ToSet(lanes[i].values) : v.ok \in BOOLEAN /\ (v.hits # <<>> => lanes[i].hits # <<>>)
               /\ lanes[i].state = "failed" => \A v \in ToSet(lanes[i].values) : ~v.ok
               /\ lanes[i].hits \in Seq({1, 2})
               /\ \A v \in ToSet(lanes[i].values) : v.hits # <<>> /\ SourceLimit >= 2 =>
                     \E p \in DOMAIN lanes[i].hits : p \in {1, 2} /\ lanes[i].hits[p] = v.hits[1]
    <3>1. lanes[i] # Searching
      BY <2>1 DEF AllSettled, Searching
    <3>2. PICK a \in VariantAnswers, b \in VariantAnswers : lanes[i] = SettledLane(a, b)
      BY <3>1 DEF LanesAreSettled, LaneOK
    <3>3. ToSet(lanes[i].values) = {a, b} /\ lanes[i].hits \in Seq({1, 2})
          /\ lanes[i].state = (IF a.ok \/ b.ok THEN "ok" ELSE "failed")
      <4> DEFINE T == SettledLane(a, b)
      <4>1. ToSet(T.values) = {a, b} /\ T.hits \in Seq({1, 2}) /\ T.state = (IF a.ok \/ b.ok THEN "ok" ELSE "failed")
        BY SettledTypes
      <4>2. lanes[i] = T
        BY <3>2
      <4> HIDE DEF T
      <4> QED
        BY <4>1, <4>2
    <3>4. a.ok \in BOOLEAN /\ b.ok \in BOOLEAN
      BY VariantTypes
    <3>5. \A v \in {a, b} : v.hits # <<>> =>
             /\ lanes[i].hits # <<>>
             /\ SourceLimit >= 2 => \E p \in DOMAIN lanes[i].hits : p \in {1, 2} /\ lanes[i].hits[p] = v.hits[1]
      BY <3>2, SettledTypes
    <3>6. lanes[i].state = "failed" => ~a.ok /\ ~b.ok
      BY <3>3
    <3> QED
      BY <3>3, <3>4, <3>5, <3>6
  <2>4. ASSUME NEW i \in Lanes, lanes[i].hits # <<>>
        PROVE  \E p \in DOMAIN Merged : p <= i /\ Merged[p] = <<i, lanes[i].hits[1]>>
    BY <2>4, LaneTypes
  <2>5. \A i \in Lanes : lanes[i].hits # <<>> => Merged # <<>>
    BY <2>4
  <2>6. fanAnswer.says = "no hits in any court" =>
           \A i \in Lanes : \A v \in ToSet(lanes[i].values) : v.ok /\ v.hits = <<>>
    BY <2>1, <2>3, <2>5 DEF EmptyLine
  <2>7. fanAnswer.says = "no court answered" => \A i \in Lanes : \A v \in ToSet(lanes[i].values) : ~v.ok
    BY <2>1, <2>3 DEF EmptyLine
  <2>8. ASSUME NEW i \in Lanes, NEW v \in ToSet(lanes[i].values), SourceLimit >= 2, v.hits # <<>>
        PROVE  <<i, v.hits[1]>> \in ToSet(fanAnswer.items)
    <3>1. PICK p \in DOMAIN lanes[i].hits : p \in {1, 2} /\ lanes[i].hits[p] = v.hits[1]
      BY <2>3, <2>8
    <3>2. CASE p = 1
      <4>1. lanes[i].hits # <<>>
        BY <3>1
      <4>2. PICK q \in DOMAIN Merged : Merged[q] = <<i, lanes[i].hits[1]>>
        BY <2>4, <4>1
      <4> QED
        BY <2>1, <3>1, <3>2, <4>2 DEF ToSet
    <3>3. CASE p = 2
      <4>1. Len(lanes[i].hits) >= 2 /\ PerLane[i] = lanes[i].hits
        BY <2>3, <3>3 DEF PerLane
      <4>2. PICK q \in DOMAIN Merged : Merged[q] = <<i, PerLane[i][2]>>
        BY <2>2, <2>8, <4>1, MergedList DEF Merged
      <4> QED
        BY <2>1, <3>1, <3>3, <4>1, <4>2 DEF ToSet
    <3> QED
      BY <3>1, <3>2, <3>3
  <2>9. ASSUME NEW i \in Lanes, lanes[i].hits # <<>>
        PROVE  <<i, lanes[i].hits[1]>> \in ToSet(Leading(fanAnswer.items, Len(FanLanes)))
    <3>1. PICK p \in DOMAIN Merged : p <= i /\ Merged[p] = <<i, lanes[i].hits[1]>>
      BY <2>4, <2>9
    <3>2. i \in Nat /\ i <= Len(FanLanes) /\ Len(FanLanes) \in Nat /\ p \in Nat
      BY <2>2, FanTypes
    <3>3. p <= Len(FanLanes)
      BY <3>1, <3>2
    <3>4. p \in DOMAIN Leading(Merged, Len(FanLanes)) /\ Leading(Merged, Len(FanLanes))[p] = Merged[p]
      BY <2>2, <3>2, <3>3, LeadingOnes
    <3> QED
      BY <2>1, <3>1, <3>4 DEF ToSet
  <2> QED
    BY <2>6, <2>7, <2>8, <2>9
<1> QED
  BY <1>1, <1>2, <1>3 DEF FanOutIsHonest

-----------------------------------------------------------------------------
(* The parts together.                                                     *)

ServicesInv ==
    /\ part = "save" => SaveInv
    /\ part # "save" => sent = <<>> /\ applied = {} /\ items = 0 /\ said = "nothing"
    /\ part = "takedown" => DownInv
    /\ part = "guards" => GuardsInv
    /\ part = "cache" => CacheInv
    /\ part = "handshake" => NssInv
    /\ part = "gate" => GateInv
    /\ part = "acts" => FetchInv
    /\ part = "courts" => NalusInv /\ CutInv
    /\ part = "reads" => ReadsInv
    /\ part = "text" => TextInv
    /\ part = "search" => SearchInv
    /\ part = "eu" => EuInv
    /\ part = "fanout" => FanInv
    /\ part # "fanout" => NoFanOut

LEMMA PartsStart == ASSUME Init PROVE ServicesInv
<1>1. part = "save" => SaveInv
  BY SaveStarts DEF Init
<1>2. part # "save" => sent = <<>> /\ applied = {} /\ items = 0 /\ said = "nothing"
  BY DEF Init
<1>3. part = "takedown" => DownInv
  BY DownStarts DEF Init
<1>4. part = "guards" => GuardsInv
  BY GuardsStarts DEF Init
<1>5. part = "cache" => CacheInv
  BY CacheStarts DEF Init
<1>6. part = "handshake" => NssInv
  BY NssStarts DEF Init
<1>7. part = "gate" => GateInv
  BY GateBegins DEF Init
<1>8. part = "acts" => FetchInv
  BY ActsStarts DEF Init
<1>9. part = "courts" => NalusInv /\ CutInv
  BY NalusStarts, CutStarts DEF Init
<1>10. part = "reads" => ReadsInv
  BY ReadsStarts DEF Init
<1>11. part = "text" => TextInv
  BY TextStarts DEF Init
<1>12. part = "search" => SearchInv
  BY ScanStarts DEF Init
<1>13. part = "eu" => EuInv
  BY EuStarts DEF Init
<1>14. part = "fanout" => FanInv
  BY FanStarts DEF Init
<1>15. part # "fanout" => NoFanOut
  BY DEF Init, NoFanOut
<1> QED
  BY <1>1, <1>2, <1>3, <1>4, <1>5, <1>6, <1>7, <1>8, <1>9, <1>10, <1>11, <1>12, <1>13, <1>14, <1>15 DEF ServicesInv

\* A step of a behaviour is a step of its part.
LEMMA PartSteps ==
    ASSUME Next
    PROVE  /\ part' = part
           /\ part = "save" => SaveNext
           /\ part # "save" => UNCHANGED saveVars
           /\ part = "takedown" => TakedownNext
           /\ part = "guards" => GuardsNext
           /\ part = "cache" => CacheNext
           /\ part = "handshake" => NssNext
           /\ part = "gate" => GateNext
           /\ part = "acts" => ActsNext
           /\ part = "courts" => CourtNext
           /\ part = "reads" => ReadsNext
           /\ part = "text" => TextNext
           /\ part = "search" => SearchNext
           /\ part = "eu" => EuNext
           /\ part = "fanout" => FanNext
           /\ part # "fanout" => UNCHANGED fanVars
<1>1. part' = part
  BY DEF Next
<1>2. /\ part = "save" => SaveNext
      /\ part = "takedown" => TakedownNext
      /\ part = "guards" => GuardsNext
      /\ part = "cache" => CacheNext
      /\ part = "handshake" => NssNext
      /\ part = "gate" => GateNext
      /\ part = "acts" => ActsNext
      /\ part = "courts" => CourtNext
      /\ part = "reads" => ReadsNext
      /\ part = "text" => TextNext
      /\ part = "search" => SearchNext
      /\ part = "eu" => EuNext
      /\ part = "fanout" => FanNext
  BY DEF Next
<1>3. part # "save" => UNCHANGED saveVars
  BY DEF Next, zoteroVars
<1>4. part # "fanout" => UNCHANGED fanVars
  BY DEF Next, sourceVars
<1> QED
  BY <1>1, <1>2, <1>3, <1>4

(* A step of another part leaves a part's variables as they are. *)
LEMMA GuardsStay == ASSUME GuardsInv, UNCHANGED guardsVars PROVE GuardsInv'
BY DEF guardsVars, GuardsInv, GuardsTypes, HistoryInv, MeasureInv, KeptInv, AccessInv, DecidedInv,
       UntilNextMonth, ModeOf, Stricter, AutoMode, Rank

LEMMA DownStays == ASSUME DownInv, UNCHANGED takedownVars PROVE DownInv'
BY DEF takedownVars, DownInv, UnderWay, Copies

LEMMA ReadsStay == ASSUME ReadsInv, UNCHANGED readsVars PROVE ReadsInv'
BY DEF readsVars, ReadsInv

LEMMA SaveStays == ASSUME SaveInv, UNCHANGED saveVars PROVE SaveInv'
BY DEF saveVars, SaveInv, MayCreate

LEMMA CacheStays == ASSUME CacheInv, UNCHANGED cacheVars PROVE CacheInv'
BY DEF cacheVars, CacheInv

LEMMA NssStays == ASSUME NssInv, UNCHANGED nssVars PROVE NssInv'
BY DEF nssVars, NssInv, SessionsInv

LEMMA GateStays == ASSUME GateInv, UNCHANGED gateVars PROVE GateInv'
BY DEF gateVars, GateInv, WithSlot, Queued

LEMMA ActsStay == ASSUME FetchInv, UNCHANGED actsVars PROVE FetchInv'
BY DEF actsVars, FetchInv

\* The search and the decision of NALUS take turns and share nothing.
LEMMA NalusStays == ASSUME NalusInv, UNCHANGED <<rows, sessions, keptSession, calls>> PROVE NalusInv'
BY DEF NalusInv

LEMMA CutStays == ASSUME CutInv, UNCHANGED decision PROVE CutInv'
BY DEF CutInv

LEMMA SearchLeavesDecision == ASSUME SearchSteps PROVE UNCHANGED decision
BY DEF SearchSteps, NalusAsks, ReadsKept, KeptFails, Posts, ReadsResults, SearchFails, CallSettles,
       SessionExpires, KeptLapses, RowsChange

LEMMA CourtsStep ==
    ASSUME NalusInv, CutInv, CourtNext \/ UNCHANGED courtVars
    PROVE  NalusInv' /\ CutInv'
<1>1. CASE SearchSteps
  BY <1>1, NalusSteps, CutStays, SearchLeavesDecision
<1>2. CASE DecisionSteps
  <2>1. UNCHANGED <<rows, sessions, keptSession, calls>>
    BY <1>2 DEF DecisionSteps
  <2> QED
    BY <1>2, <2>1, NalusStays, CutSteps
<1>3. CASE UNCHANGED courtVars
  BY <1>3, NalusStays, CutStays DEF courtVars
<1> QED
  BY <1>1, <1>2, <1>3 DEF CourtNext

LEMMA PartsStep == ASSUME ServicesInv, [Next]_vars PROVE ServicesInv'
<1>0. /\ part' = part
      /\ part = "save" => SaveNext \/ UNCHANGED saveVars
      /\ part # "save" => UNCHANGED saveVars
      /\ part = "takedown" => TakedownNext \/ UNCHANGED takedownVars
      /\ part = "guards" => GuardsNext \/ UNCHANGED guardsVars
      /\ part = "cache" => CacheNext \/ UNCHANGED cacheVars
      /\ part = "handshake" => NssNext \/ UNCHANGED nssVars
      /\ part = "gate" => GateNext \/ UNCHANGED gateVars
      /\ part = "acts" => ActsNext \/ UNCHANGED actsVars
      /\ part = "courts" => CourtNext \/ UNCHANGED courtVars
      /\ part = "reads" => ReadsNext \/ UNCHANGED readsVars
      /\ part = "text" => TextNext \/ UNCHANGED textVars
      /\ part = "search" => SearchNext \/ UNCHANGED searchVars
      /\ part = "eu" => EuNext \/ UNCHANGED euVars
      /\ part = "fanout" => FanNext \/ UNCHANGED fanVars
      /\ part # "fanout" => UNCHANGED fanVars
  <2>1. CASE Next
    BY <2>1, PartSteps
  <2>2. CASE UNCHANGED vars
    BY <2>2 DEF vars, filesVars, zoteroVars, sourceVars, esbirkaVars, courtsVars
  <2> QED
    BY <2>1, <2>2
<1>1. (part = "save" => SaveInv)'
  BY <1>0, SaveSteps, SaveStays DEF ServicesInv
<1>2. (part # "save" => sent = <<>> /\ applied = {} /\ items = 0 /\ said = "nothing")'
  BY <1>0 DEF ServicesInv, saveVars
<1>3. (part = "takedown" => DownInv)'
  BY <1>0, DownSteps, DownStays DEF ServicesInv
<1>4. (part = "guards" => GuardsInv)'
  BY <1>0, GuardsSteps, GuardsStay DEF ServicesInv
<1>5. (part = "cache" => CacheInv)'
  BY <1>0, CacheSteps, CacheStays DEF ServicesInv
<1>6. (part = "handshake" => NssInv)'
  BY <1>0, NssSteps, NssStays DEF ServicesInv
<1>7. (part = "gate" => GateInv)'
  BY <1>0, GateSteps, GateStays DEF ServicesInv
<1>8. (part = "acts" => FetchInv)'
  BY <1>0, ActsSteps, ActsStay DEF ServicesInv
<1>9. (part = "courts" => NalusInv /\ CutInv)'
  BY <1>0, CourtsStep DEF ServicesInv
<1>10. (part = "reads" => ReadsInv)'
  BY <1>0, ReadsSteps, ReadsStay DEF ServicesInv
<1>11. (part = "text" => TextInv)'
  BY <1>0, TextSteps, TextStays DEF ServicesInv
<1>12. (part = "search" => SearchInv)'
  BY <1>0, LibrarySearchSteps, SearchStays DEF ServicesInv
<1>13. (part = "eu" => EuInv)'
  BY <1>0, EuSteps, EuStays DEF ServicesInv
<1>14. (part = "fanout" => FanInv)'
  BY <1>0, FanSteps, FanStays DEF ServicesInv
<1>15. (part # "fanout" => NoFanOut)'
  BY <1>0 DEF ServicesInv, NoFanOut, fanVars
<1> QED
  BY <1>1, <1>2, <1>3, <1>4, <1>5, <1>6, <1>7, <1>8, <1>9, <1>10, <1>11, <1>12, <1>13, <1>14, <1>15 DEF ServicesInv

(* However calls of a Zotero library join a load, give it up and fail, each *)
(* answer is what was current when its load began or later, a 304 confirms  *)
(* only what is still so, and a load runs as long as somebody waits for it. *)
THEOREM SharedReadsAreSafe == Spec => []SharedReadsAreSound
<1>1. Init => ServicesInv
  BY PartsStart
<1>2. ServicesInv /\ [Next]_vars => ServicesInv'
  BY PartsStep
<1>3. ServicesInv => SharedReadsAreSound
  BY ReadsHold DEF ServicesInv, SharedReadsAreSound
<1> QED
  BY <1>1, <1>2, <1>3, PTL DEF Spec

(* However much room the text before it takes, the window a call is given   *)
(* holds the page it asked for; and while only a call that is sent back     *)
(* makes progress, what is left before the page gets less with every        *)
(* refusal: asking once more gets there.                                    *)
THEOREM PdfTextsAreReached == Spec => []PdfTextIsReached
<1>1. Init => ServicesInv
  BY PartsStart
<1>2. ServicesInv /\ [Next]_vars => ServicesInv'
  BY PartsStep
<1>3. ServicesInv => PdfTextIsReached
  BY TextHolds DEF ServicesInv, PdfTextIsReached
<1> QED
  BY <1>1, <1>2, <1>3, PTL DEF Spec

(* However many libraries share the pages of a scan, each is given what    *)
(* the ones before it have left, and "nothing found" is said without a     *)
(* warning only where every list was empty, every library was searched or  *)
(* named as left out, and no scan failed (one skipped or cut short is      *)
(* named in the answer).  A text of the EU is said not to exist only where *)
(* each place said so or gave a stub, but for InfoCuria's English left     *)
(* unasked out of time; an outage never reads as an absence, and English   *)
(* stands in only for a text that is not there or is a stub.               *)
THEOREM SearchesAreHonest == Spec => []SearchIsHonest
<1>1. Init => ServicesInv
  BY PartsStart
<1>2. ServicesInv /\ [Next]_vars => ServicesInv'
  BY PartsStep
<1>3. ServicesInv => SearchIsHonest
  BY SearchHolds, EuHolds DEF ServicesInv, SearchIsHonest
<1> QED
  BY <1>1, <1>2, <1>3, PTL DEF Spec

(* However the courts answer a search and whenever its previews arrive:     *)
(* what is read early is among the hits that are shown, no court is dropped *)
(* in silence, none comes first but in its turn, and the answer with its    *)
(* previews is there before the call ends.                                  *)
THEOREM FanOutsAreHonest == Spec => []FanOutIsHonest
<1>1. Init => ServicesInv
  BY PartsStart
<1>2. ServicesInv /\ [Next]_vars => ServicesInv'
  BY PartsStep
<1>3. ServicesInv => FanOutIsHonest
  <2>1. CASE part = "fanout"
    BY <2>1, FanHolds DEF ServicesInv
  <2>2. CASE part # "fanout"
    BY <2>2, FanAssumption
    DEF ServicesInv, NoFanOut, FanOutIsHonest, EarlyReadsAreTargets, CourtsAreReported, AnswersInTime, CallEnd
  <2> QED
    BY <2>1, <2>2
<1> QED
  BY <1>1, <1>2, <1>3, PTL DEF Spec

(* The next page of a text that Cellar served costs no request, unless an   *)
(* answer of the first was a stub or has lapsed (the part of PagingIsWhole  *)
(* that is about the chain of the EU).                                      *)
THEOREM EuPagesAreAskedForOnce == Spec => [](part = "eu" => PagingAsksNothingAgain)
<1>1. Init => ServicesInv
  BY PartsStart
<1>2. ServicesInv /\ [Next]_vars => ServicesInv'
  BY PartsStep
<1>3. ServicesInv => (part = "eu" => PagingAsksNothingAgain)
  BY EuHolds DEF ServicesInv
<1> QED
  BY <1>1, <1>2, <1>3, PTL DEF Spec

(* However often zotero_save_item sends its request, and whatever is lost  *)
(* on the way, one reference makes at most one item; the call says it was  *)
(* saved only if it was, and "nothing was saved" only if nothing will be.  *)
THEOREM SavesAreHonest == Spec => []OneItemHonestly
<1>1. Init => ServicesInv
  BY PartsStart
<1>2. ServicesInv /\ [Next]_vars => ServicesInv'
  BY PartsStep
<1>3. ServicesInv => OneItemHonestly
  <2>1. CASE part = "save"
    BY <2>1, SaveHolds DEF ServicesInv
  <2>2. CASE part # "save"
    BY <2>2 DEF ServicesInv, OneItemHonestly, Denies
  <2> QED
    BY <2>1, <2>2
<1> QED
  BY <1>1, <1>2, <1>3, PTL DEF Spec

(* An instance never works by an operating mode or an access that was not  *)
(* in force within its time; and however uploads of a text and calls of    *)
(* the operator interleave, the only copies of it after a call has ended   *)
(* are of uploads that had looked at the block before its commit and had   *)
(* not committed when the call listed the copies.                          *)
THEOREM TheOperatorIsObeyed == Spec => []OperatorIsObeyed
<1>1. Init => ServicesInv
  BY PartsStart
<1>2. ServicesInv /\ [Next]_vars => ServicesInv'
  BY PartsStep
<1>3. ServicesInv => OperatorIsObeyed
  BY GuardsHold, DownHolds DEF ServicesInv, OperatorIsObeyed
<1> QED
  BY <1>1, <1>2, <1>3, PTL DEF Spec

(* However many searches share them: the cache never keeps a value that    *)
(* was found dead, an expiry of the session of NSS costs one handshake,    *)
(* the slots of NS never leak, a 404, a rejection or a search that breaks  *)
(* the service never closes the registered channel of e-Sbirka, a search   *)
(* of NALUS shows the page it asked for whosever session it read, and a    *)
(* decision without its abstract is not kept.                              *)
THEOREM SourcesAreSharedFairly == Spec => []SourcesAreShared
<1>1. Init => ServicesInv
  BY PartsStart
<1>2. ServicesInv /\ [Next]_vars => ServicesInv'
  BY PartsStep
<1>3. ServicesInv => SourcesAreShared
  BY CacheHolds, NssHolds, GateHolds, ActsHold, NalusHolds, CutHolds DEF ServicesInv, SourcesAreShared
<1> QED
  BY <1>1, <1>2, <1>3, PTL DEF Spec
-----------------------------------------------------------------------------
(* The months: what LifecycleProofs shows of every life cycle is said here *)
(* of the one in MCServices, action by action the same.                    *)
Proved == INSTANCE LifecycleProofs WITH
    Libraries <- 1, RevokedDays <- 3, GraceDays <- 3, PurgePerRun <- 5, ChecksPerRun <- 50,
    CronIsReliable <- TRUE, HistoryBound <- 12, DayBound <- 1, Null <- NoDate

LEMMA MonthsConstants == Proved!LifecycleAssumption /\ Proved!CronReachesAll
<1>1. Proved!LifecycleAssumption
  BY ServicesAssumption DEF Proved!LifecycleAssumption
<1>2. Proved!CronReachesAll
  BY DEF Proved!CronReachesAll
<1> QED
  BY <1>1, <1>2

LEMMA MonthsSliced == ASSUME NEW S, NEW n PROVE Months!Sliced(S, n) = Proved!Sliced(S, n)
BY DEF Months!Sliced, Proved!Sliced, Months!Cardinality, Proved!Cardinality

LEMMA MonthsRotate == ASSUME NEW S, NEW n PROVE Months!Rotate(S, n) = Proved!Rotate(S, n)
BY DEF Months!Rotate, Proved!Rotate, Months!Cardinality, Proved!Cardinality

LEMMA MonthsDecide == ASSUME NEW l, Months!CronDecides(l) PROVE Proved!CronDecides(l)
<1>1. Months!markLibraryForPurge(l, 0) <=> Proved!markLibraryForPurge(l, 0)
  BY DEF Months!markLibraryForPurge, Proved!markLibraryForPurge, Months!Sooner, Proved!Sooner
<1>2. Months!markLibraryForPurge(l, Months!GraceTicks) <=> Proved!markLibraryForPurge(l, Proved!GraceTicks)
  BY DEF Months!markLibraryForPurge, Proved!markLibraryForPurge, Months!Sooner, Proved!Sooner,
         Months!GraceTicks, Proved!GraceTicks, Months!Ticks, Proved!Ticks
<1>3. Months!reviveLibrary(l) <=> Proved!reviveLibrary(l)
  BY DEF Months!reviveLibrary, Proved!reviveLibrary
<1>4. ASSUME NEW revoked \in BOOLEAN PROVE Months!setProRevoked(l, revoked) <=> Proved!setProRevoked(l, revoked)
  BY DEF Months!setProRevoked, Proved!setProRevoked
<1>5. Months!RevokedTicks = Proved!RevokedTicks
  BY DEF Months!RevokedTicks, Proved!RevokedTicks, Months!Ticks, Proved!Ticks
<1> QED
  BY <1>1, <1>2, <1>3, <1>4, <1>5 DEF Months!CronDecides, Proved!CronDecides

LEMMA MonthsSteps == Months!LifecycleNext => Proved!LifecycleNext
<1>1. ASSUME NEW l, NEW state, Months!OwnerChanges(l, state) PROVE Proved!OwnerChanges(l, state)
  BY <1>1 DEF Months!OwnerChanges, Proved!OwnerChanges, Months!columns, Proved!columns, Months!clock, Proved!clock
<1>2. ASSUME NEW l, Months!AccessRefreshed(l) PROVE Proved!AccessRefreshed(l)
  BY <1>2 DEF Months!AccessRefreshed, Proved!AccessRefreshed, Months!columns, Proved!columns, Months!clock, Proved!clock,
       Months!history, Proved!history
<1>3. ASSUME NEW l, NEW again, Months!Webhook(l, again) PROVE Proved!Webhook(l, again)
  BY <1>3 DEF Months!Webhook, Proved!Webhook, Months!markLibraryForPurge, Proved!markLibraryForPurge, Months!Sooner,
       Proved!Sooner, Months!GraceTicks, Proved!GraceTicks, Months!Ticks, Proved!Ticks, Months!clock, Proved!clock,
       Months!history, Proved!history
<1>4. ASSUME NEW l, Months!WebhookLost(l) PROVE Proved!WebhookLost(l)
  BY <1>4 DEF Months!WebhookLost, Proved!WebhookLost, Months!columns, Proved!columns, Months!clock, Proved!clock,
       Months!history, Proved!history
<1>5. ASSUME NEW l, Months!Upload(l) PROVE Proved!Upload(l)
  BY <1>5 DEF Months!Upload, Proved!Upload, Months!clerk, Proved!clerk, Months!clock, Proved!clock
<1>6. Months!CronLists => Proved!CronLists
  BY MonthsSliced DEF Months!CronLists, Proved!CronLists, Months!LibraryId, Proved!LibraryId, Months!Idle, Proved!Idle, Months!clerk,
       Proved!clerk, Months!columns, Proved!columns, Months!clock, Proved!clock, Months!history, Proved!history
<1>7. Months!CronPurges => Proved!CronPurges
  BY DEF Months!CronPurges, Proved!CronPurges, Months!Foremost, Proved!Foremost, Months!PurgeIsDue,
       Proved!PurgeIsDue, Months!clerk, Proved!clerk, Months!clock, Proved!clock, Months!history, Proved!history
<1>8. Months!CronTurnsToOwners => Proved!CronTurnsToOwners
  BY MonthsRotate DEF Months!CronTurnsToOwners, Proved!CronTurnsToOwners, Months!clerk, Proved!clerk, Months!columns,
       Proved!columns, Months!clock, Proved!clock, Months!history, Proved!history
<1>9. Months!CronAsks => Proved!CronAsks
  BY DEF Months!CronAsks, Proved!CronAsks, Months!Foremost, Proved!Foremost, Months!clerk, Proved!clerk,
       Months!columns, Proved!columns, Months!clock, Proved!clock, Months!history, Proved!history
<1>10. Months!CronSettles => Proved!CronSettles
  BY MonthsDecide DEF Months!CronSettles, Proved!CronSettles, Months!Foremost, Proved!Foremost,
       Months!clerk, Proved!clerk, Months!clock, Proved!clock, Months!history, Proved!history
<1>11. Months!CronEnds => Proved!CronEnds
  BY DEF Months!CronEnds, Proved!CronEnds, Months!Idle, Proved!Idle, Months!clerk, Proved!clerk, Months!columns,
       Proved!columns, Months!clock, Proved!clock, Months!history, Proved!history
<1>12. Months!Tick => Proved!Tick
  BY DEF Months!Tick, Proved!Tick, Months!Idle, Proved!Idle, Months!Older, Proved!Older, Months!LibraryId,
       Proved!LibraryId, Months!RevokedTicks, Proved!RevokedTicks, Months!Ticks, Proved!Ticks
<1> QED
  BY <1>1, <1>2, <1>3, <1>4, <1>5, <1>6, <1>7, <1>8, <1>9, <1>10, <1>11, <1>12
  DEF Months!LifecycleNext, Proved!LifecycleNext, Months!CronStep, Proved!CronStep, Months!LibraryId, Proved!LibraryId,
       Months!OwnerState, Proved!OwnerState

(* With a cron that works every day, a library whose owner lost Pro is     *)
(* empty two days after the longer of the two periods, over months: for    *)
(* the six days of the code, on the eighth (PurgedWithinAWeek fails).      *)
THEOREM MonthsAreTimely == Spec => []PurgedInTime
<1>1. Init => Proved!LifecycleInit
  <2>1. Init => Months!LifecycleInit
    BY DEF Init
  <2>2. Months!LifecycleInit => Proved!LifecycleInit
    BY DEF Months!LifecycleInit, Proved!LifecycleInit, Months!LibraryId, Proved!LibraryId, Months!Idle, Proved!Idle
  <2> QED
    BY <2>1, <2>2
<1>2. [Next]_vars => [Proved!LifecycleNext]_(Proved!lifecycleVars)
  <2>1. ASSUME UNCHANGED monthsVars PROVE UNCHANGED Proved!lifecycleVars
    BY <2>1 DEF monthsVars, Proved!lifecycleVars, Proved!clerk, Proved!columns, Proved!clock, Proved!history
  <2>2. Next => Months!LifecycleNext \/ UNCHANGED monthsVars
    BY DEF Next
  <2>3. UNCHANGED vars => UNCHANGED monthsVars
    BY DEF vars
  <2> QED
    BY <2>1, <2>2, <2>3, MonthsSteps
<1>3. Proved!LifecycleSpec => []Proved!PurgedInTime
  BY MonthsConstants, Proved!PurgesAreTimely
<1>4. Proved!PurgedInTime => PurgedInTime
  BY DEF PurgedInTime, Months!PurgedInTime, Proved!PurgedInTime, Months!LibraryId, Proved!LibraryId, Months!Ticks, Proved!Ticks
<1> QED
  BY <1>1, <1>2, <1>3, <1>4, PTL DEF Spec, Proved!LifecycleSpec
=============================================================================
