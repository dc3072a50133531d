# A formal model of Dawmain

Dawmain is an MCP server for Czech legal research.  It asks public sources,
reshapes their answers and hands them to an assistant; beside that it keeps
users' own documents and reads their Zotero libraries.  This directory models

* **Vlastní zdroje** (`src/files`, `app/api/cron/files`, `app/api/webhooks`):
  users' libraries of documents in PostgreSQL, with page quotas, an ingest
  queue, a search index, a daily cron and the purge of abandoned libraries,
  and the tools that search and read them (`mcp/tools/files.ts`);
* **Zotero** (`src/zotero`, `mcp/tools/zotero.ts`): the connection, one shared
  door per server instance to an API that punishes a client that does not keep
  its rules, and the tools behind it;
* **public sources** (`src/sources`, `mcp/tools`): what searches share on an
  instance, and the pages their answers are cut into;
* the **page** (`app/_zdroje`), whose client state follows all of that.

Paths below are relative to the repository.  In `PROJECT.json` they begin with
`src/`, the name of the checkout.

## 1. Inventory

| Component | State | Operations | What makes it hard |
|---|---|---|---|
| Store (`files/db`, `files/upload`, `files/ingest`) | `documents` (status, run token, lease, attempts, text), `libraries` (three page counters, purge columns) | upload, claim, commit, failure, confirm, delete, takedown, purge, recount | overlapping runs, expired leases, lost commit acknowledgements, crashes, quotas under concurrency |
| Transactions (`files/db/client`) | row locks, an advisory lock, open transactions | the statements of the above | READ COMMITTED, lock order, deadlock |
| Library life cycle (webhook, cron's purge and owners tasks) | `purge_after`, `pro_revoked_at`, `purged_at`; Clerk | mark, revive, revoke, purge | stale listings, repeated or lost webhooks, two tasks in one run |
| Re-derivation (`files/reindex`, `files/web`) | `reindex_requested_at`, `meta_version`, a daily budget | save, admission, run, catch-up | coalescing, deferral, saves during a run |
| Access (`files/access`, `files/scope`) | per-instance cache of Clerk's answers, 60 s or 10 s old | read, refresh | cached rights |
| Guards and modes (`files/guards`, `files/operator`) | cached mode, override row, token buckets, block list | measure, override, takedown | a 30 s cache, content check against a concurrent upload |
| Usage (`files/db/usage`) | counters per library and day | bump, refund, sum | bump-then-read budgets |
| DMD and index (`files/dmd`, `index`) | the parser's: page, block, stack of sections, open note, refs without a note | one line, a window, the chunks | footnotes whose numbers start again, notes pages behind their refs, markers inside lines |
| Conversion, metadata, text analysis (`convert`, `meta`, `text`) | none | pure functions over text | normalization |
| Search and reading (`files/db/search`, `reading`, `mcp/tools/files`) | none | queries | windows and paging |
| Zotero door (`zotero/http`) | slots, waiting lines, pauses, rejected keys, breaker | one call | slots handed over, pauses that grow while one sleeps |
| Zotero connection (`zotero/store`, `oauth`, `web`) | Clerk metadata, a cache and reads in flight per instance | connect, disconnect, revoke | no conditional write, two instances |
| Zotero client and tools (`zotero/client`, `mcp/tools/zotero`) | shared loads, kept scans, pages and PDF chunks per instance | searches, lists, text of attachments, saves | callers that share a load and give up, budgets of pages, a write whose answer is lost |
| Clients of public sources (`sources/*`) | sessions, gates, caches per instance | search, fetch | shared handshakes, cache eviction during a load, slots handed over at a deadline |
| Tools of public sources (`mcp/tools/*`) | none | searches of one or several variants | a page is a slice of lists that are read anew, deadlines of several sources |
| MCP server and auth (`mcp/*`) | none | one request | – |
| Web UI (`app/_zdroje`, `app/*`) | client state of React components, the browser's history | modals, uploads, lists, an editor, polling | late and lost answers, several tabs, Back |

Interactions: an **upload** inserts a `queued` document and reserves its pages
in one transaction, then starts an **ingest run** after the response; the run,
another upload's kick and the cron all claim from the same queue.  A **save**
of metadata commits and then asks for a **re-derivation**.  The **cron** lists
libraries once and its tasks work on that list, while uploads, saves, deletes
and webhooks go on.  Everything goes through PostgreSQL transactions
(`withScope`); the caches of access, mode and Zotero connections are per
instance.

What makes each part correct:

* store: counters equal what the rows add up to; caps hold; a document is
  never lost in the queue, settled twice, or revived by a late run; attempts
  are bounded; the queue drains;
* transactions: the same for committed data, and ordinary work does not
  deadlock;
* life cycle: the right library is emptied, in time, and no other;
* re-derivation: an index that is behind is always going to be re-derived, and
  never goes backwards;
* Zotero door: no slot is lost, pauses are kept, a dead key is not sent again,
  and the breaker opens when it should and only then;
* connection: an instance reads its own writes, a key that was replaced or
  disconnected is not left behind, a rejection clears only its own key;
* guards: an override takes effect everywhere in 30 s; a text taken down
  is gone from every library;
* Zotero tools: nothing is said to be absent that was not looked for, shared
  loads are current and watched, an item is saved once and the answer says so;
* sources: a dead cached value does not come back, one handshake serves all
  waiting searches, no slot leaks, a session shared by searches shows each its
  page; page after page every hit is shown once, and an act, a § or a document is
  read whole or said not to be there only when every place said so;
* documents: the structure found is the one the lines have, a note belongs to the
  right ref, and neither a window nor a chunk loses or repeats anything;
* search and reading: counts are honest, and following what the answers offer
  reads everything that was asked for;
* page: what it shows is the server's or is still being followed, and no work
  is lost unasked.

`PROJECT.json` lists the hazards, each at its line, with the properties that
would catch it, or why none does.

## 2. Modules

| Module | Models | Notes |
|---|---|---|
| `Sums` | `sum(...)` over a set of rows, counted in units so that it needs no recursion | used by the three store modules |
| `PageLedger` | what the page accounting promises: reserve, settle, drop | abstract specification |
| `FilesStore` | the store, one action per transaction | implements `PageLedger` |
| `StoreTransactions` | the same transactions, statement by statement | shows that the atomic steps of `FilesStore` are justified |
| `LibraryLifecycle` | owner, webhook, purge and owners tasks | |
| `Reindex` | saves, admission, runs, the cron's catch-up | |
| `FilesGuards` | cached mode and access an upload is decided by | |
| `FilesTakedown` | block list, takedown and daily volume against uploads | |
| `FilesSearch` | one `files_search` call and the pages of its hits | |
| `SearchFusion` | channels, reciprocal rank fusion, merged variants | |
| `ReadWindows` | `files_get_document`: windows and the calls offered next | |
| `DmdParse` | the parser of documents, line by line | |
| `DmdWindows` | what a window of a document shows of text and footnotes | extends `DmdParse` |
| `DmdChunks` | the chunks search looks in | extends `DmdParse` |
| `ZoteroHttp` | `zoteroFetch` of one instance | |
| `ZoteroConnection` | connect, disconnect, rejection on two instances | |
| `ZoteroSearch` | `zotero_search` for a docket: rounds and the scan | |
| `ZoteroReads` | shared loads, the kept scan and search pages | |
| `ZoteroText` | `zotero_get_text`: chunks of a PDF, index, refusals | |
| `ZoteroSave` | `zotero_save` and its write token | |
| `SourceCache` | `TtlCache` with `delete` | |
| `NssHandshake` | the session NSS searches share | |
| `NsGate` | the line in front of NS | |
| `PublicPaging` | pages of six search tools | |
| `CaselawFanOut` | `cz_caselaw_search`: lanes, deadlines, previews | |
| `EsbirkaSection` | a § or an article of an act: the scan, the endpoint raced with it | |
| `EsbirkaActs` | the two channels of e-Sbírka; an act read page by page | |
| `CourtSessions` | NALUS's kept session and decisions; later pages of NSS | |
| `EuDocuments` | a document of the EU: its identifiers, languages and time budget | |
| `WebModals`, `WebRefresh`, `WebEditor`, `WebZotero` | the page | |
| `MCFilesStore`, `MCStoreTransactions` | small instances | the second follows the transactions or the life cycle |
| `MCCron`, `MCClients`, `MCServices` | several parts in one run | see section 3 |
| `DataTheorems` | theorems about sums, folds, lines, orders and counting | |
| `FilesStoreProofs`, `TransactionsProofs`, `LifecycleProofs`, `ReindexProofs`, `UpstreamProofs`, `ClientsProofs`, `ServicesProofs` | theorems about the specifications | section 4 |

Definitions named `<definition>_<bug>` are variants with a plausible bug.
Nothing uses them in the specifications; each documents which property guards
the definition it stands before.

### FilesStore

The variables are columns.  A row that does not exist has status `absent`.
`lease_until` is reduced to null, held or expired and `purge_after` to null,
later or due; the passing of time is an action (`LeaseExpires`,
`PurgeDatePasses`) that may come at any moment, also under a live run.  `run`
holds, for each call of `ingestDocument`, what it knows between two of its
transactions.

| Action | Code |
|---|---|
| `Upload` | upload.ts:443-505, with `reservePages` (SQL function in 0002_rls.sql) and `reviveLibrary` |
| `ClaimForIngest` | ingest.ts:386-414, documents.ts:438-457: the claim and the decision taken from what it read |
| `IngestThrows` | `prepare` or the commit throws; final or retryable is a free choice |
| `CommitIngest`, `LoseLease` | ingest.ts:281-327; `ackLost`: the commit took place, its acknowledgement did not arrive |
| `FailIngest` | `recordFailure`, ingest.ts:357-371 |
| `RunDies` | the function instance dies |
| `ConfirmDocument`, `DeleteDocument`, `ClearStalePending` | documents.ts |
| `MarkLibraryForPurge`, `PurgeDatePasses`, `ReviveByCron`, `PurgeLibrary` | libraries.ts, with a free choice of when |
| `RecountLibraries` | files_recount_libraries, 0003_ops.sql |

A purge is one step here.  That is right for a library of at most
`PURGE_BATCH` = 20 documents, and `StoreTransactions` shows what happens above
that (section 5).

Left out: `replaces` of documents an older version wrote
(ingest.ts:330-342), the daily upload caps (upload.ts:480-490; they only
refuse), modes, audit rows, and the index tables, which are written in the
commit and deleted with the row.

### StoreTransactions

A transaction is a sequence of statements.  A statement sees committed rows and
its own changes; a write waits for the row lock and then works on the latest
committed row; commit publishes, rollback (at any statement) drops.  Status is
reduced to in flight, settled and error.  `MaxDrift` lets a counter start off,
so that the recount has something to correct while others work.  The rows of
`usage_daily` are left out: every transaction that bumps them does so last and
in the same order, the library's row before the global one, so they cannot
close a circle.  Foreign-key locks and `SET LOCAL` are left out too.  Deadlock is a
property rather than TLC's check: any transaction may roll back, as PostgreSQL's
detector would make it.

### LibraryLifecycle

Time runs in half days with the cron at every second tick.  Dates are relative
to now, so behaviours have no end although the model is finite.  The run lists
the libraries once (`CronLists`), and each later step works with that listing
and with the answer Clerk gave, exactly as the code's two tasks do; between any
two steps uploads, webhooks and changes at Clerk happen.

### Reindex

Derived data is represented by the version of the metadata it was derived from.
`SaveWrites`, `Admit`, `Lease`/`Finish` and `CronGivesUp` are the transactions
of web.ts and reindex.ts.  The row lock is explicit because a run keeps it while
it derives.

### ZoteroHttp

JavaScript switches between calls at an `await`, so an action is what a call
does between two of them.  A slot passes directly to the next call in line.
Zotero may reject any key at any moment, which allows more than it would do.
The limit of 1000 remembered rejected keys is not modelled; a key that is
evicted is one the instance has forgotten, as after its ten minutes.

### ZoteroConnection and the Zotero tools

A handler reads the record, decides and writes, with the other instance between
any two of these; a cached state may expire at any moment.  `ZoteroSearch` fixes
at the start what each library holds and which scan fails, and lets the answers
come in any order: the outcome must not show it.  `ZoteroReads` fixes what each
version of the library holds and lets the version grow between two pages.  In
`ZoteroSave` zotero.org may apply a request whenever it likes after it was
sent.  Key rights and the validity of an item do not change within a call.

### FilesGuards and FilesTakedown

`FilesGuards` counts time in ticks and keeps, for each tick, the modes that were
in force; an upload is decided by a measurement some callers share.
`FilesTakedown` has the takedown statement by statement up to its commit: the
text is looked up (`Begins`), the copies are listed (`ListsCopies`), the block
is seen by others (`CommitsBlock`); then one transaction for each library.  It
takes no lock that an upload takes, so an upload may look at the block, be
stored, or do either, between any two of these.  An upload holds the
reservation's advisory lock from its look at the block to its commit; its
commit is one step.  `spared` remembers, over all calls that have ended, the
uploads each of them could have missed.  The limit of 1000 rows of
`documents_by_hash` is not reached.

### FilesSearch, SearchFusion, ReadWindows

A call of `files_search` runs its variants next to the look-up of the document
and a measurement of the guards; what a variant finds is an input here.
`SearchFusion` searches the variants of a call one by one and merges them;
relevance is the order of the passages.  `ReadWindows` is a reader who asks for
something and makes every call that is offered next; a document is where its
pages, sections, marginal numbers and lines begin.

### DmdParse, DmdWindows, DmdChunks

The parser is one action, `ReadNextLine`; `ReadLine`, `Dispatch` and the
operators below them are the methods of `Parser` (parse.ts:501-901) as functions
on a record of its fields, and `FinishParse` is `finish`, taken after every line
so that every prefix of a text is checked as a document.  A line is its kind and
a body of units one character long: a word, a space, an escape, a ref, an inline
page marker.  Classifying a line and naming a section are regular expressions; a
line brings their result with it.  `StructureIsFound` says what the document is
in terms of the lines and their offsets: it looks for refs, headings and markers
around a place, where the parser carries them along.  The four `Foci` choose the
lines a text is made of: footnotes, headings and authors, marginal numbers, pages.

`DmdWindows` reads a text and then asks for windows one after another, each
ending where one may: where a page begins, inside a line too, or a line that
does not continue a footnote.  The text behind a window is loaded as far as
`TAIL_REACH` only (files.ts:1383-1385): a note whose definition ends beyond that
is named by the window that cites it, without its text (render.ts:185-187), and
`winUnread` keeps it.  `DmdChunks` grows a text by paragraphs and derives
the chunks of each: blocks into pieces, pieces and headings into atoms, atoms
packed by the cost of their cuts.  Sizes are of the order of a line; what a
bracketed token or a surrogate pair does to a cut has no counterpart where every
unit is one character.

Left out: the limits that reject a text, endnotes and the label of marginal
numbers, labels that are not valid, the wording of a window, the weights and
identifier keys of a chunk (`key`, the paragraph of the act it is under, is kept).
`slice.ts` cuts DMD too but nothing in the application calls it.

### Sources and pages

`SourceCache`, `NssHandshake` and `NsGate` are what callers of one instance
share, with one action between two awaits.  `PublicPaging` compares all pages
of a search with what the source would list, for each tool: what the source
lists does not change between two pages.  `CaselawFanOut` counts time in steps
of ten seconds from the handler's start.

`EsbirkaSection` scans acts that are given as pages of §§ of a body and of annexes;
each batch of pages is one read.  In `EsbirkaActs` a host may go down between any two
requests, a request may itself be at fault, and a host that works may still fail a
single request (a timeout, HTTP 5xx or 429); the act read whole does not change
but for the version the reader is moved to.  `CourtSessions` lets NALUS forget a
session at any moment and show, where a request does not name its page, the page it
rendered last.  `EuDocuments` is two calls for one document, the second for its next
page; an attempt takes no time or all that it may.

### The page

Each module is one component with its requests, whose answers are late, lost or
out of order.  `WebModals` models the browser's history as a sequence of
entries; a move through it is made later than it is asked for.

## 3. Runs

| Run | Question | Instance | Shows |
|---|---|---|---|
| `store` | Are the counters, caps and purges right? | 2 libraries with quotas 3 and 2, global cap 3, texts of 1 and 2 pages, 2 documents, 2 runs, 1 attempt | `CountersExact`, `CapsHeld`, `PurgedIsEmpty`, and that the store implements `PageLedger` (`LedgerSpec`) |
| `cron` | Are the queues the cron empties safe, and do they drain? | uploads: 1 document, 3 overlapping runs, the real 3 attempts; requests to derive again: 2 savers, 3 saves, budget of 1 run a day, 2 types, with and without failures | `QueueIntact`, `SettledOrFailedForGood`, `RetryBudget`, `QueueDrains`; `NeverDropped`, `IndexNeverRegresses`, `CatchesUp`, `RequestOutlivesFailures` |
| `transactions` | May a transaction be taken for one step?  Is a purge ever wrong? | 3 connections, 2 libraries with a document each, global cap for one of the two, a drift of 1 page, batches of 1 row, so that a purge takes two; and 2 libraries over the days, a cron that may fail anywhere, repeated and lost webhooks | the same invariants of committed data (`CommittedIsSound`); `OrdinaryWorkNeverDeadlocks`; `UploadOutlivesTheRun`, `KeptProKeepsDocuments` |
| `transactions_purge` | Does a purge of several batches empty the library? | batch of 1, 2 documents, 2 connections | it does not: a finding |
| `lifecycle_live` | Does every library get its turn? | 2 libraries, 1 purge and 1 owner check per run | `LostIsPurged`, `RestoredIsLeftAlone` |
| `lifecycle_restored` | Does Pro that came back in time save the library? | 1 library, the real 6 days | it does not: a finding |
| `purged_within_a_week` | Is a lost library empty in the week that is promised? | 1 library, the real 6 days, a cron that never fails | it is not: a finding |
| `reindex_gives_up` | Is a request lost when the cron gives up? | 3 types, 2 saves | it is: a finding |
| `replaced_key` | Is a replaced key revoked? | 2 instances, 2 handlers, no answer lost | it is not always: a finding |
| `takedown_complete` | Does a takedown leave no copy? | 2 uploads, 2 libraries, 1 call | it may leave one: a finding |
| `clients` | Is what a client of the server is shown, and may do next, right? | 2 instances and 3 handlers; 4 calls to Zotero of 2 users with a key each, 2 slots, breaker at 2 keys, 2 ticks; a history of 4 pages, 2 files; 2 rows, 2 tabs; searches of 2 variants over 2 documents; documents of 7 and 15 characters with windows of 8; texts of 4 or 5 lines, of 5 paragraphs for chunks of 3 to 5 characters | thirteen properties, see below |
| `services` | Do the services behind the tools share what they may, and say only what they know? | 3 or 4 calls on an instance; 3 libraries with 2 pages of cases; PDFs of 3 chunks; sources that list up to 3 hits a variant; 3 lanes; acts of 5 §§ in pages of two; 2 searches of NALUS on 2 sessions; 3 places of an EU text in 2 languages; 1 library over months | nine properties, see below |

`clients`, `services`, `cron` and `transactions` hold several modules that share no
state.  One run checks them together: a behaviour follows one part, chosen at the start,
and the variables of the others rest in an initial state, so the states of the
parts add up instead of multiplying.

| Property | Module | Says |
|---|---|---|
| `ConnectionIsTheUsers`, `RejectionClearsOnlyItsKey` | `ZoteroConnection` | a request never gets a record older than its instance's last write before it began; where every answer came and nobody overwrote a record other than the one it had loaded, no key is left at Zotero but the stored one; a rejection takes away only the key it was about, unless another is stored between its read and its write |
| `SlotsHeld`, `RejectedKeyCosts`, `OneKeyNeverTrips`, `PauseHonoured` | `ZoteroHttp` | slots and the line exact; a rejected key costs at most one answer a slot; the breaker counts keys, not answers; no request during a pause |
| `PageIsCurrent` | `WebRefresh`, `WebZotero` | what is shown is the server's, or somebody will look again |
| `ModalsKeepWork` | `WebModals` | nothing lost unasked; Back reopens nothing |
| `NothingSavedUnseen` | `WebEditor` | a save never replaces what its tab has not shown, but for a tab whose type switch was answered with another tab's later save |
| `AnswersFollowTheRecord` | `SearchFusion`, `FilesSearch` | honest counts, the guards' verdict first, pages that tile the hits |
| `ReadingIsWhole` | `ReadWindows`, `DmdWindows` | following the offered calls reads all of the range; hits are shown; windows show all text once and every footnote once, or the window that cites a note says that it is left out |
| `StructureIsFound` | `DmdParse` | notes find their refs; sections, blocks, pages and marginal numbers are where the lines put them; what is billed is what search sees |
| `ChunksAreWhole` | `DmdChunks` | all text to be searched is in one chunk, under its heading, with its notes, in its place |
| `SearchIsHonest` | `ZoteroSearch`, `EuDocuments` | "nothing found" without a warning only where every list was empty, every library searched or named, and no scan failed; a text is in the language it is said to be in, and "not found" only where no place failed and each was asked, InfoCuria's English excepted |
| `SharedReadsAreSound` | `ZoteroReads` | shared loads are current and watched |
| `PdfTextIsReached` | `ZoteroText` | a window holds the page asked for; repeated calls get there |
| `OneItemHonestly` | `ZoteroSave` | one item, and never "not saved" of a saved one |
| `OperatorIsObeyed` | `FilesGuards`, `FilesTakedown` | an upload is decided by a mode and an access that were in force within the promised time; the only copies left of a text taken down are of uploads under way while the call blocked and listed |
| `SourcesAreShared` | `SourceCache`, `NssHandshake`, `NsGate`, `EsbirkaActs`, `CourtSessions` | a dead or cut value stays out, one expiry costs one handshake, slots do not leak, a 404, a rejection or a failed search closes no channel, a shared session shows the page asked for |
| `PagingIsWhole` | `PublicPaging`, `EsbirkaSection`, `EsbirkaActs`, `CourtSessions`, `EuDocuments` | every hit on exactly one page (but for `sdeu_search` with variants and a filter); acts whole, §§ and articles that are served whole; the end said only at the end; a text kept is not asked for again |
| `FanOutIsHonest` | `CaselawFanOut` | previews belong to the first hits, no court is dropped in silence, the answer is in time |
| `PurgedInTime` | `LibraryLifecycle` | a lost library is empty two days after the period at the latest, over months of grace |

Why the bounds are enough.  In `store` either cap can be the one that refuses,
a document can be refused, deleted, purged and uploaded again, and two runs can
hold the same document; the theorems of section 4 do not depend on the numbers
at all.  Three runs on one document are what a late run, its successor and the
successor's successor need.  Two transactions make every race of two; the third
is there for a chain of waits.  Rotation needs more libraries than checks per
run, hence two and one.  A save can be lost behind another one and a third can
still come while the second is being derived, hence three.  Three calls of one
user against two slots put one in line, so that a key can be rejected while a
third call with it waits; the other user's key tells the breaker's count of keys
from a count of answers, and lets a rejection come while it is open.  A pause takes 2 ticks: too long to wait for at first, short
enough after one.  Only an answer with Retry-After 0 is tried again there, so a
retry meets the pauses of other answers but does not sleep itself.

Bounds in guards or saturation: `AttemptsBound` (attempts saturate one above the
maximum), `VersionBound` (saves per document), `HistoryBound` and `DayBound`
(history and the day of the rotation), `MaxDrift`.  A saturated history still
answers the comparison its property makes.

A note needs three lines to go wrong (two refs of one label and a definition) and
five when its page and its section are to differ from its ref's.  A chunk is cut
differently when a note, a page marker or a long paragraph comes between two
others, hence five paragraphs.

Symmetry is used only in runs whose properties are safety properties.

Fairness:

* `FilesStore!FairSpec`: leases expire (time passes); a claimable document is
  claimed again and again, because the cron takes candidates oldest first
  (SF: a document may be claimable only now and then); a call goes on until it
  ends or dies; and not every call that has only its failure left to write dies
  first.  Without the last, an instance that died each time just before that
  write would leave a document that is over its attempts in the queue for ever.
  All this presumes mode `on`: a read-only deployment does not ingest.
* `LibraryLifecycle!FairSpec`: time passes and a run goes on; that nothing cuts
  it short is the constant `CronIsReliable`.
* `Reindex!FairSpec`: requests go on (strong: they may have to wait for a row
  lock), the cron takes old requests now and then while the CPU allowance has
  room, and the allowance comes back.  Saves are not fair: `VersionBound` ends
  them.

TLC's deadlock check is on in every run but `clients`, `services`,
`takedown_complete` and `replaced_key`, whose calls end.

## 4. Proofs

What follows holds for all values of the constants, finite or not, that meet
the named assumptions of the modules: any sets of libraries, documents, texts,
runs, calls, keys, tabs and instances, all page sizes, quotas, bounds and
limits.  The assumptions say what kinds of values the constants are (NULLs are
no values of a column, counts are natural numbers, at least one attempt or
slot), that only finitely many calls use `ZoteroHttp`, that
`StoreTransactions` has finitely many libraries and documents, and that
`SearchFusion` ranks finitely many chunks of finitely many documents.

* `DataTheorems`: the sum over finitely many rows is a natural number, changes
  by a row's pages when a row joins, leaves or changes, is monotonic, and a sum
  of sums over disjoint sets is the sum over their union.  `Sums` counts pairs
  of a row and a unit, so all of this follows from the library's theorems on
  cardinality, without induction.  The second part is about lines in which
  everybody stands once: what joining at the end, leaving at the front or being
  taken out of the middle does to who stands in them.  `LeastOfNats` finds the
  least member of a set of numbers (the library a run visits next) as a set of
  predecessors that contains no other one (`MinimalOfFinite`).  The library's
  induction theorems take an operator as their parameter and cannot be used
  here; `UpTo` takes a *set* in the predicate's place (a set that holds 0 and,
  with every number, the next one up to n holds all of them), and that is
  enough to unfold a fold of the community modules step by step (`FoldExists`,
  `FoldOfPrefix`, `FoldOfInterval`, `FoldIsTotal`).  The rest counts: intervals
  and images (`UpToCounts`, `ImageCounts`), and the places in a strict order on
  a finite set, each taken once, so that a limit takes the first of them
  (`PlacesAreTaken`, `FirstOnesAre`).
* `FilesStoreProofs`: `StoreInvariant`, with the inductive invariant `StoreInv`.
  `CountersExact` alone is not inductive.  A commit or a delete charges the
  library of the row, which is a library only because a row belongs to one
  exactly while it exists (`RowsOwned`); a run's step is about a document
  (`RunsHaveDocument`); and a sum changes by the pages of a row only while the
  library has finitely many (`FiniteRows`), which holds although `Document` may
  be infinite, because every step adds at most one row.  The floors
  `greatest(n - k, 0)` turn out never to cut, because the row that is given
  back is part of the sum.  `TypeCorrect` and `CountersAreExact` are immediate.
  `QueueStaysIntact` and `PurgedStaysEmpty` are inductive together with
  `StoreInv`.  The caps are proved over the documents: `CapsInvariant` adds
  that purged libraries are empty, without which the global sum over the live
  libraries, which the reservation checks, would leave documents out;
  `CapsAreHeld` follows.  `SettledOrFailedStays` and `RetriesAreBounded` are
  action properties proved from the same invariant, the second with
  `AbsentIsFresh`: a row that does not exist has no attempts on it.
  `StoreImplementsLedger`: every step of the store is a step of `PageLedger` or a
  stutter under the mapping of `Ledger`.
* `TransactionsProofs`: what `FilesStore` takes for granted, for any number of
  transactions.  `TransactionsInvariant`, with the invariant `TransactionsInv`,
  says for every statement where its transaction stands before it (`Phase`):
  which rows it has locked, and what these would do to the counters if they were
  committed.  It rests on two things that a transaction keeps while others
  commit: the rows it has locked are as they were, but for documents in 'error'
  that are deleted without their library's row (`Carries`); and while it holds
  the advisory lock nobody else adds pages (`Spares`).  `PhaseFrame` is the lemma
  that the commit of one transaction leaves the phase of the others, and
  `LocalStepKeepsInv` that a statement concerns its own transaction only.
  `CommittedStaysSound` (`CommittedIsSound`): the sum over the committed rows
  that the reservation checks covers all documents (`UsageCoversCharged`),
  because a library that is not live has none.  `NeverDeadlocks`
  (`OrdinaryWorkNeverDeadlocks`): in a circle of waiting transactions without a
  purge and without the upload of a stored text, only a recount that is locking
  holds a library's row, so that the circle has one, and the library it waits
  for is larger than all it holds; among finitely many libraries one is the
  largest (`NoneIsLargest`).  These three theorems have a hypothesis,
  `BatchesSuffice`: a library has no more documents than one batch of a purge
  deletes.  It is needed: beyond it the loop of a purge may stop early and set
  the counters of a library that is not empty to zero, which the run
  `transactions_purge` shows (section 5), and no counter or cap is sound afterwards.
* `LifecycleProofs`: `LifecycleInvariant`.  `KeptProIsKept`, with the invariant
  `KeptClean`: nothing of an owner who had Pro all along is marked, and a run has
  listed no mark and holds no other answer about him, which is where an answer
  kept from another library would break it.  `UploadsOutliveTheRun`
  (`UploadsKept`): a mark made since the last upload is two ticks from due, or was
  made by a run that is past its purge task.  It assumes only that the history
  counts that far.  Both hold whatever fails in a run.  `PurgesAreTimely` assumes
  `CronReachesAll`: no task of the cron fails, and a run's limits are not below
  the number of libraries; beyond that a library waits for its turn, which
  `LostIsPurged` is about.  Its invariant `TimelyInv` gives every library without Pro a
  number of ticks it still owes (`OwedBy`), from its mark, its revocation, the
  owner's state and where the run is.  Every tick pays one (`MorningPays`,
  `EveningPays`), no step of a run or of the webhook adds to it, and the time that
  has passed with what is owed stays within the bound.  Two more parts are
  needed: the run knows the library as it is (`InHand`), since whatever its owner
  does starts its time again; and revocations fall on the ticks of a run
  (`Even`), without which half a day would be lost to rounding.
* `ReindexProofs`: `ReindexInvariant`.  A run holds the lock of its row from the
  moment it reads it (`LocksHeld`), so what it derives from is what is saved
  (`RunsReadLatest`) and no index is ahead of its metadata (`IndexNotAhead`).
  From it `IndexMovesForward` and `RequestsOutliveFailures`, both action
  properties.  `NothingIsDropped` has a hypothesis, that no run fails
  (`"fail" \notin faults`): where one does, the cron may clear a request that was
  made in between (reindex.ts:275), which the run `reindex_gives_up` shows.
  There it is proved without the excuse of a type given up
  (`BehindIsPending`); where runs fail, that excuse is model-checked.
* `UpstreamProofs`, on the door to Zotero: `SlotsInv` says that a user's slots are taken by as many
  calls as hold one, and that the line holds exactly the calls that wait, each
  once and only while all slots are taken; a slot handed to the wrong call, or
  twice, would break the second part first.  `PausesAreHonoured`: a call past
  the check finds a pause in force only if it was set in the very same tick
  (`GoIsClear`), because no await lies between the check and the request.
  `EnoughKeysTrip`: rejections are counted once per key, so that they map into
  the rejected keys injectively.  `RejectedKeyCostsLittle`: after its first
  rejection a key is sent only by calls already in flight, whose number the
  slots of its users bound (`CostsOK`, `InFlightBound`).
  On e-Sbírka, for any bounds of a scan and any pages, `SectionsAreWhole` with the
  invariant `SectionInv`: `ScanStands` says, for every step of the scan, where the
  pages it has read stand to those of the body's § (a jump forwards leaves none
  behind, a step back stops where the § begins), which is what "nothing is left
  behind" rests on whichever way the page was found.  `ArticlesAreWhole`
  (`ArticleInv`): what is taken of the first m pages is what is designated in the
  part of the first fragment found, and, in an act without designations, a text
  that is closed by a heading in the lines of some pages is that of all lines.
  `ActsAreWhole`: the chunks of an act's fragments flatten to its pieces, each
  within a page's length; page by page the reader has seen the first of them; and
  the rows of a ranking are read in as many upstream pages as the window needs.
  These are folds, unfolded step by step through `UpTo`.
  On the merged pages of the search tools: `MergeIsWhole` says of `interleave` what
  `NothingFallsBetween` compares on samples (every item, each once, rank r of one of
  n lists among the first n * r), and `PagesAreOfOneMerge` that a page merged anew
  from lists cut at some length is the slice of the merge of the whole lists: the
  turns of the shorter merge are the first turns of the longer one
  (`CutMergesFirst`), and a list that was cut is long enough to fill the page, since
  nothing stands in it twice (`DistinctFits`).
* `ClientsProofs`: one invariant for each part of `MCClients` that is about
  several actors.  `ConnInv`: every handler and every cache has seen what was
  Clerk's record at some time, a cache nothing older than its own instance's
  last write; and a key accepted at zotero.org is the stored one or in the
  hands of a callback that will revoke or name it.  From it
  `ConnectionStaysTheUsers` and the action property `OnlyTheRejectedKey`.
  `SummaryInv`, `ListInv` and `StatusInv` give `PageStaysCurrent`: what is shown
  is current, or a request or a loop is under way that will show what is.
  `ModalsInv` gives `ModalsKeepTheWork`: only the last entry of the history
  shows a modal, and what a close by `history.back()` loses was agreed to.
  `EditsAreSeen` (`EditorInv`) assumes nothing of when a save's answer is read:
  a tab's form is the fields of the version it would save against, or is older
  together with that version, so that the server refuses it; the tabs for which
  a type switch was answered with another tab's save (`overtaken`) are named in
  the invariant and left out of the property (section 5).
  `AnswersSayWhatIsKnown` is about a search of own documents, for any hits, ranks
  and limits.  In one call, hits are there only of a document that has been ready,
  and the guards' verdict is the answer (`CallInv`); over its pages, what lies before
  the next page was shown (`PagesInv`).  In the fusion (`FusionInv`), a channel returns
  its first rows in a strict order, so that one below its limit is whole; hence what
  is shown and what is counted besides are together never more than there is, a
  search in which no channel was cut lists all of it, and the merge of variants takes
  the first of each variant first.
  `WindowsReadTheRange`: the pages and gaps of a range tile it, a fold over them
  keeps a plan that tiles what it has seen (`PlansSoFar`), and two windows that
  share a soft end move it to the same place, or the later one to an earlier place
  where a footnote continues past what the first had loaded; it needs that no part
  is cut so evenly that its last piece is shorter than the slack, which
  `TextsCutLong` shows for any text a store can hold.  `ReadersReadAll` (`ReadInv`)
  follows a reader through such windows, for documents of the sampled shapes and
  of any length.
* `ServicesProofs`: eight properties of `MCServices` and a part of a ninth, with an
  invariant for each part they are about.  `SharedReadsAreSafe` (`ReadsInv`): a load that is found
  under way still runs and covers all who wait for it, and the pages of a kept
  scan were read from the version of its first page on.  `SavesAreHonest`
  (`SaveInv`): one call sends one token, however often it repeats.
  `TheOperatorIsObeyed` (`DownInv`, `GuardsInv`): a document is held only where
  an upload stored it, and what is there of the text was listed, or is of an
  upload under way between the list and the commit, and after the commit no upload
  passes the block: so only such an upload is spared (`Copies \cup UnderWay \subseteq
  spared`); every cached mode or right was in force at
  a tick no longer ago than its age allows.  `SourcesAreSharedFairly` (`CacheInv`,
  `NssInv`, `GateInv`, `FetchInv`, `NalusInv`, `CutInv`): the load under way has
  asked the source since the last value was found dead; sessions are numbered
  and an older one never replaces a newer; the line in front of NS is the
  requests that are queued, each once, and the slots taken are those of the
  requests that have one; a fresh NALUS session is nobody else's and on its
  first page; a decision kept although it was cut is in the hands of a reader
  that will forget it.
  `PdfTextsAreReached` (`TextInv`): a page's chunk is found by a sum over the
  chunks before it, and every call that is sent back leaves the lengths of as many
  more chunks known as it could convert, so that refusals end, for any lengths.
  `SearchesAreHonest`: libraries are scanned at the same time, but what is left for
  each is the common total less what those before it have spent or been granted,
  and so never below what scanning them in turn would leave (`SearchInv`); a text of
  the EU is looked for along a chain of places, and each place behind the walk had
  nothing, had a stub or failed (`EuInv`).  `FanOutsAreHonest` (`FanInv`): the answer
  is a rotation of the courts' settled lists, and a decision read early is the first
  hit of a court that has settled.  `EuPagesAreAskedForOnce` is the part of
  `PagingIsWhole` about the EU, from the same `EuInv`.
  `MonthsAreTimely` takes `PurgesAreTimely` over to the life cycle inside
  `MCServices`, through an instance of `LifecycleProofs` with the same constants.
  A step of the composition is a step of the part it follows, and the other
  parts rest (`PartSteps`, `PartsStep`).

Only model-checked:

* liveness (`QueueDrains`, `LostIsPurged`, `RestoredIsLeftAlone`, `CatchesUp`): the
  prover has no rules for fairness and `ENABLED`;
* `PagingIsWhole` as a whole.  Its parts about a §, an article, an act, a ranking
  and the EU are theorems about their components.  Of `PagesAreWhole` the theorems
  give the merge and its slices; that the pages of all six tools, read one after
  another, are exactly that list, also depends on how the bounds of a run relate
  (a listing of psp.cz has as many rows as its calls find), and where the later
  pages of NSS end is one definition's guard;
* `StructureIsFound`, `ChunksAreWhole` and, of `ReadingIsWhole`, the calls hits offer
  and what windows show of footnotes: what recursive functions over lines, blocks
  and characters compute.  The library's induction theorems cannot be instantiated
  here, and `UpTo`, which does for sums, folds, orders and concatenations, would
  have to be carried through the whole grammar of a document; the runs enumerate
  all documents up to their bounds instead.

## 5. What the checks found

1. **A purge can leave documents behind** (`transactions_purge`).
   `purgeLibraryContent` deletes in batches of 20 and stops at the first batch
   that returned fewer.  If another transaction deletes a row of that batch
   while the purge waits for its lock, the batch returns 19 and the loop takes
   it for the last.  The library is then marked purged with documents in it,
   and a purged library is not purged again.
2. **Pro that came back in time does not save the library**
   (`lifecycle_restored`).  For revoked Pro the owners task writes a mark that
   is due at once, and the next run purges before it asks Clerk again, although
   a comment and the documentation say it would notice.
3. **A deferred request can be lost** (`reindex_gives_up`).  After a failed run
   the cron clears the request in a second transaction, and with it one that a
   save made in between.

4. **The promised week is eight days** (`purged_within_a_week`).  A run notices
   the loss up to a day after it, waits six days and marks the library, and only the
   next run's purge task empties it.  route.ts:39-42, docs/development.md:530 and
   tests/files-legal-texts.test.ts:70 say that it is at most seven.  `PurgedInTime` and
   `PurgesAreTimely` have the bound that holds: two days after the period.
5. **A takedown can leave a copy** (`takedown_complete`).  An upload that looked at
   the block before the takedown's commit and commits after its list of copies is
   neither refused nor deleted, although operator.ts:194-195 and
   docs/development.md:693 speak of every copy.  `OperatorIsObeyed` says that no other
   copy is left; a further call for the same hash that ends removes it.
6. **A replaced key can stay valid** (`replaced_key`).  The callback takes the
   connection it replaces from its instance's cache, or from a read made before
   another instance's write; the key stored there meanwhile is overwritten and never
   revoked, although web.ts:32-33 says that the replaced key is.

Known gaps, which are not stated as properties because the code does not
promise otherwise, or says so itself:

* a library that an upload revives while the owners task has Clerk's older
  answer in hand can be marked again at once, and so lose its days of grace
  (route.ts:248); the document does outlive that run;
* an instance that dies between a save's commit and its callback leaves the
  index behind the saved type until the next save (web.ts:362), so `NeverDropped`
  excepts behaviours in which instances die;
* a save's answer is read after its commit, in a transaction of its own (web.ts:366);
  if another tab saves in between, the editor takes a version whose fields it does
  not show, and its next save replaces them: `NothingSavedUnseen` leaves that tab out;
* `markRevoked` reads and then writes, and a key stored in between is cleared
  (store.ts:304-308 accepts it): `RejectionClearsOnlyItsKey` leaves that write out;
* a circle of waiting transactions with a purge in it can close (it locks a library
  before its documents, libraries.ts:210): `OrdinaryWorkNeverDeadlocks` permits it, and
  `CommittedIsSound` says what is left when PostgreSQL has aborted one of them;
* a rejection that was under way when the breaker was reset counts if it arrives
  later, and one that arrived before is forgotten (http.ts:180-187): `OneKeyNeverTrips`
  is about counting twice only;
* one GET that times out, gets a 5xx or 429 closes e-Sbírka's registered channel for
  five minutes for everybody, as esbirka.ts:72-77 says, and so does one whose answer is
  too large (http.ts:115-126), which that comment does not name; the gateway serves
  meanwhile;
* `patchFor` reads `ident_keys` before the row lock and writes them after it, so
  keys derived in between are lost (web.ts:334, documents-web.ts:106-107).

The following would each be a violated property; they are recorded here, and the
modules state the property that does hold:

* own documents: a measurement of the guards that fails makes its callers act on
  the environment's mode, not on the last override (guards.ts:207-215);
  a takedown of a document's id that failed half-way cannot be finished with that
  id once the document itself is deleted: it ends at "takedown target not found"
  while copies the first try had listed are still there, although the comment says
  that a retry finishes the job (operator.ts:198-199; `Begins` has that answer, and
  only a retry by hash goes on);
* `zotero_get_text` remembers as unreadable also a PDF of which a part was read
  (`FailureMeansUnreadable`; mcp/tools/zotero.ts:2302, against the comment at :2260);
* cache.ts:76 says that loads take no signal of one caller; the loads of NALUS and
  NS take the deadline of the caller that started them;
* reading: an end of a window that falls on a footnote's continuation at the edge
  of what was loaded repeats text on the next window (never loses any); hints name
  a page by its label, also where labels repeat; the rest of a page longer than a
  window is not offered after `at`; a hint's § is ambiguous where its key repeats;
* a note whose definition ends more than `TAIL_REACH` (20 000 characters) behind the
  window that cites it is shown by none: that window names it, and the one that
  holds the definition leaves it out (render.ts:144), although render.ts:14-15 says
  that a window never loses a note; a tool call for that footnote shows it
  (`winUnread` in `DmdWindows`);
* documents: a block is on the page its line begins on (types.ts:57), also a line
  that begins with an inline page marker, which then counts as text of the page
  before; so does a line of nothing but markers;
* `files_search` with in_footnotes: false drops hits after the cut, so a later page
  can repeat hits;
* `sdeu_search` with several variants and a filter drops cases after a prefix of
  each list was read, and the next page reads another prefix: cases are skipped or
  repeated (sources/curia.ts:574), hence `NothingFallsBetween` leaves that combination
  out and only `EmptyPagesAreHonest` is about it; a
  document of a case shown on an earlier page is never shown; a variant that fails
  on one page only shifts the slices;
* `psp_search` says "No more tisky" without its note where the listing was cut;
* `cz_caselaw_search` starts an early preview that is then not shown where there
  are no terms to excerpt; a call that starts more than 21 s late may overrun;
* e-Sbírka: an act whose §§ are out of order between pages that were not read may
  be told "not found" falsely, since a jump trusts the pages read
  (esbirka.ts:1080-1100), against the comment at :1045-1046 that anything out of order
  falls back to reading page by page; `SectionIsWhole` says exactly when; a § that ends where its page ends may take an annex's § of
  the same number from the next; several §§ of one number on a page mix;
* `sdeu_get_document` whose InfoCuria text in the requested language is missing and
  whose budget is then spent says "not found" without having asked for the English
  one (curia.ts:699), against the comment at :696-698; `EuAnswersAreHonest` leaves
  that case out;
* `doctrine_search` past the last page says that nothing was found;
* the page: a discarded conversion goes on and is uploaded (upload.tsx:156-175);
  Back to another page, or a summary that turns Pro off, unmounts the uploader with
  its files (upload.tsx:31, files-modal.tsx:236); a summary that was under way at
  a change of account shows the old account's; polling stops after a failed fetch
  of the summary or of the list.

## 6. What is left

In this order:

1. `StoreTransactions` with the daily budgets and `replaces`.
2. That every `Commit` of `StoreTransactions` is a step of `FilesStore`, as a
   refinement; today both have the same invariants of committed data.

### Not modelled

Conversion of file formats, stemming and the recognition of names in text,
the heuristics for metadata, scraping of the public sources' pages, cryptography,
the operator's pages and all wording.  They keep no state that more
than one actor changes, and what could be wrong in them is a matter of strings
that unit tests reach.
