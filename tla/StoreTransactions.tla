-------------------------- MODULE StoreTransactions --------------------------
(***************************************************************************)
(* The transactions of the store, statement by statement.                  *)
(*                                                                         *)
(* FilesStore takes a transaction for one step.  Here it is a sequence of  *)
(* statements that other transactions run between, as PostgreSQL runs them *)
(* at READ COMMITTED: a statement sees what is committed when it runs, and *)
(* the changes of its own transaction; an UPDATE, a DELETE or a SELECT     *)
(* ... FOR UPDATE waits for the row lock and then works on the latest      *)
(* committed row; the commit publishes all changes and frees all locks,    *)
(* a rollback (an error, a timeout, a dead instance, a victim of the       *)
(* deadlock detector) drops them.                                          *)
(*                                                                         *)
(* A row that a transaction has locked is in its draft, changed or not.    *)
(* `queued` and `processing` are one status here, as are `review` and      *)
(* `ready`: the counters do not tell them apart.                           *)
(***************************************************************************)
EXTENDS Sums, TLC

CONSTANTS
    Library,       \* library ids: numbers, for ORDER BY id
    Document,      \* texts that may be stored, each in the library LibraryOf
    LibraryOf,     \* LibraryOf[d]
    Pages,         \* Pages[d]: billable pages
    QuotaPages, GlobalPages,   \* the caps
    PurgeBatch,    \* PURGE_BATCH
    Transaction,   \* connections, each with at most one open transaction
    NoDocument, NoLibrary, NoTransaction,
    MaxDrift       \* how far a counter is off at first, for the recount to find

ASSUME TransactionsAssumption ==
    /\ Library \subseteq Nat /\ IsFiniteSet(Library)
    /\ IsFiniteSet(Document)
    /\ LibraryOf \in [Document -> Library]
    /\ Pages \in [Document -> Nat \ {0}]
    /\ QuotaPages \in [Library -> Nat]
    /\ {GlobalPages, PurgeBatch, MaxDrift} \subseteq Nat
    /\ PurgeBatch > 0
    /\ NoDocument \notin Document
    /\ NoLibrary \notin Library
    /\ NoTransaction \notin Transaction

VARIABLES
    library,      \* the committed rows of libraries
    status,       \* the committed status of the row of each document
    libraryDraft, \* libraryDraft[t]: the library rows t has locked, as t sees them
    statusDraft,  \* statusDraft[t]: the same of the documents
    reserving,    \* who holds the advisory lock of files_reserve_pages
    tx,           \* the open transactions
    drift         \* history: the pages by which pages_reserved is off

vars == <<library, status, libraryDraft, statusDraft, reserving, tx, drift>>
drafts == <<libraryDraft, statusDraft>>

LibraryRow == [row : {"none", "live", "purged"}, due : BOOLEAN,
               page_count : Nat, pages_reserved : Nat, doc_count : Nat]
Status == {"absent", "in_flight", "settled", "error"}

(* The statement a transaction runs next. *)
Statement == {"idle", "ensure", "advisory", "reserve", "insert",  \* upload
              "index", "settle",                                   \* ingest
              "record", "release",                                 \* failure
              "delete", "give_back",                               \* delete
              "lock_due", "batch", "wipe", "zero",                 \* purge
              "list", "lock", "count", "correct",                  \* recount
              "commit"}

(* next: the statement; doc, lib: the rows it is for; was: the status that *)
(* DELETE ... RETURNING gave; todo: rows a loop has still to visit; n: rows*)
(* deleted in the batch; counted: what the recount counted; corrected: the *)
(* libraries whose counters it, or a purge, has set.                       *)
Nothing == [x \in {} |-> x]
NoTx == [next |-> "idle", doc |-> NoDocument, lib |-> NoLibrary, was |-> "absent",
         todo |-> {}, n |-> 0, counted |-> Nothing, corrected |-> {}]

(* The type invariant. *)
TypeOK ==
    /\ library \in [Library -> LibraryRow]
    /\ status \in [Document -> Status]
    /\ \A t \in Transaction :
         /\ DOMAIN libraryDraft[t] \subseteq Library
         /\ \A l \in DOMAIN libraryDraft[t] : libraryDraft[t][l] \in LibraryRow
         /\ DOMAIN statusDraft[t] \subseteq Document
         /\ \A d \in DOMAIN statusDraft[t] : statusDraft[t][d] \in Status
         /\ tx[t].next \in Statement
         /\ tx[t].doc \in Document \cup {NoDocument}
         /\ tx[t].lib \in Library \cup {NoLibrary}
         /\ tx[t].n \in 0 .. PurgeBatch
    /\ reserving \in Transaction \cup {NoTransaction}
    /\ \A t, u \in Transaction : t # u =>
         /\ DOMAIN libraryDraft[t] \cap DOMAIN libraryDraft[u] = {}
         /\ DOMAIN statusDraft[t] \cap DOMAIN statusDraft[u] = {}

(* New libraries, one of them perhaps live already, with reservations that *)
(* have drifted.                                                           *)
Init ==
    /\ drift \in [Library -> 0 .. MaxDrift]
    /\ Cardinality({l \in Library : drift[l] > 0}) <= 1
    /\ library = [l \in Library |-> [row |-> IF drift[l] > 0 THEN "live" ELSE "none", due |-> FALSE,
                                     page_count |-> 0, pages_reserved |-> drift[l],
                                     doc_count |-> 0]]
    /\ status = [d \in Document |-> "absent"]
    /\ libraryDraft = [t \in Transaction |-> Nothing]
    /\ statusDraft = [t \in Transaction |-> Nothing]
    /\ reserving = NoTransaction
    /\ tx = [t \in Transaction |-> NoTx]
-----------------------------------------------------------------------------
(* Rows and locks.  Variants with a plausible bug are named                *)
(* <definition>_<bug>; each breaks a property that the definition it       *)
(* stands before keeps.                                                    *)

HolderOfLibrary(l) == {u \in Transaction : l \in DOMAIN libraryDraft[u]}
HolderOfDocument(d) == {u \in Transaction : d \in DOMAIN statusDraft[u]}
LibraryIsFree(t, l) == HolderOfLibrary(l) \subseteq {t}
DocumentIsFree(t, d) == HolderOfDocument(d) \subseteq {t}

(* What a statement of t reads. *)
LibrarySeen(t, l) == IF l \in DOMAIN libraryDraft[t] THEN libraryDraft[t][l] ELSE library[l]
StatusSeen(t, d) == IF d \in DOMAIN statusDraft[t] THEN statusDraft[t][d] ELSE status[d]

Written(draft, x, row) == [y \in DOMAIN draft \cup {x} |-> IF y = x THEN row ELSE draft[y]]
WriteLibrary(t, l, row) ==
    libraryDraft' = [libraryDraft EXCEPT ![t] = Written(libraryDraft[t], l, row)]
WriteStatus(t, d, s) == statusDraft' = [statusDraft EXCEPT ![t] = Written(statusDraft[t], d, s)]
Goto(t, statement) == tx' = [tx EXCEPT ![t].next = statement]

Floored(n, k) == IF n >= k THEN n - k ELSE 0
Usage(row) == row.page_count + row.pages_reserved

(* The transaction ends without its changes. *)
DropDrafts(t) ==
    /\ libraryDraft' = [libraryDraft EXCEPT ![t] = Nothing]
    /\ statusDraft' = [statusDraft EXCEPT ![t] = Nothing]
    /\ reserving' = IF reserving = t THEN NoTransaction ELSE reserving
    /\ tx' = [tx EXCEPT ![t] = NoTx]

Rollback(t) ==
    /\ tx[t].next # "idle"
    /\ DropDrafts(t)
    /\ UNCHANGED <<library, status, drift>>

Commit(t) ==
    /\ tx[t].next = "commit"
    /\ library' = [l \in Library |-> LibrarySeen(t, l)]
    /\ status' = [d \in Document |-> StatusSeen(t, d)]
    /\ drift' = [l \in Library |-> IF l \in tx[t].corrected THEN 0 ELSE drift[l]]
    /\ DropDrafts(t)

Begin(t, statement, d, l) ==
    /\ tx[t].next = "idle"
    /\ tx' = [tx EXCEPT ![t] = [NoTx EXCEPT !.next = statement, !.doc = d, !.lib = l]]
    /\ UNCHANGED <<library, status, drafts, reserving, drift>>
-----------------------------------------------------------------------------
(* Upload: ensureLibrary, files_reserve_pages, reviveLibrary, the insert *)

(* INSERT ... ON CONFLICT DO UPDATE locks the row, also one it leaves as   *)
(* it is.                                                                  *)
EnsureLibrary(t) ==
    LET l == tx[t].lib
        row == library[l]
    IN  /\ tx[t].next = "ensure"
        /\ LibraryIsFree(t, l)
        /\ WriteLibrary(t, l, [row EXCEPT !.row = IF @ = "none" THEN "live" ELSE @])
        /\ Goto(t, "advisory")
        /\ UNCHANGED <<library, status, statusDraft, reserving, drift>>

AdvisoryLock_missing(t) ==
    /\ tx[t].next = "advisory"
    /\ Goto(t, "reserve")
    /\ UNCHANGED <<library, status, drafts, reserving, drift>>

(* pg_advisory_xact_lock: until the end of the transaction. *)
AdvisoryLock(t) ==
    /\ tx[t].next = "advisory"
    /\ reserving = NoTransaction
    /\ reserving' = t
    /\ Goto(t, "reserve")
    /\ UNCHANGED <<library, status, drafts, drift>>

(* The global sum over the committed rows, the conditional update of the   *)
(* library's own row (locked since ensureLibrary) and its revival.  A      *)
(* refusal commits: nothing but the ensured row.                           *)
ReservePages(t) ==
    LET l == tx[t].lib
        n == Pages[tx[t].doc]
        row == LibrarySeen(t, l)
        live == {k \in Library : LibrarySeen(t, k).row = "live"}
        used == Total(live, [k \in Library |-> Usage(LibrarySeen(t, k))])
    IN  /\ tx[t].next = "reserve"
        /\ \/ /\ used + n <= GlobalPages
              /\ Usage(row) + n <= QuotaPages[l]
              /\ WriteLibrary(t, l, [row EXCEPT !.pages_reserved = @ + n, !.row = "live",
                                                !.due = FALSE])
              /\ Goto(t, "insert")
           \/ /\ used + n > GlobalPages \/ Usage(row) + n > QuotaPages[l]
              /\ Goto(t, "commit")
              /\ UNCHANGED libraryDraft
        /\ UNCHANGED <<library, status, statusDraft, reserving, drift>>

(* INSERT ... ON CONFLICT DO NOTHING waits for a transaction that is about *)
(* to change the row of the same text; a duplicate rolls back.             *)
InsertDocument(t) ==
    LET d == tx[t].doc
    IN  /\ tx[t].next = "insert"
        /\ DocumentIsFree(t, d)
        /\ status[d] = "absent"
        /\ WriteStatus(t, d, "in_flight")
        /\ Goto(t, "commit")
        /\ UNCHANGED <<library, status, libraryDraft, reserving, drift>>
-----------------------------------------------------------------------------
(* Ingest: the commit of a run, and its failure *)

(* The row belongs to the run, or the transaction rolls back (LeaseLost):  *)
(* writeDocumentIndex and finishIngest.                                    *)
WriteIndex(t) ==
    LET d == tx[t].doc
    IN  /\ tx[t].next = "index"
        /\ DocumentIsFree(t, d)
        /\ status[d] = "in_flight"
        /\ WriteStatus(t, d, "settled")
        /\ Goto(t, "settle")
        /\ UNCHANGED <<library, status, libraryDraft, reserving, drift>>

SettlePages(t) ==
    LET l == tx[t].lib
        n == Pages[tx[t].doc]
    IN  /\ tx[t].next = "settle"
        /\ LibraryIsFree(t, l)
        /\ WriteLibrary(t, l, [library[l] EXCEPT !.pages_reserved = Floored(@, n),
                                                 !.page_count = @ + n, !.doc_count = @ + 1])
        /\ Goto(t, "commit")
        /\ UNCHANGED <<library, status, statusDraft, reserving, drift>>

(* failIngest: for good, or (again) back to the queue. *)
RecordFailure(t, again) ==
    LET d == tx[t].doc
    IN  /\ tx[t].next = "record"
        /\ DocumentIsFree(t, d)
        /\ status[d] = "in_flight"
        /\ WriteStatus(t, d, IF again THEN "in_flight" ELSE "error")
        /\ Goto(t, IF again THEN "commit" ELSE "release")
        /\ UNCHANGED <<library, status, libraryDraft, reserving, drift>>

ReleasePages(t) ==
    LET l == tx[t].lib
    IN  /\ tx[t].next = "release"
        /\ LibraryIsFree(t, l)
        /\ WriteLibrary(t, l, [library[l] EXCEPT !.pages_reserved = Floored(@, Pages[tx[t].doc])])
        /\ Goto(t, "commit")
        /\ UNCHANGED <<library, status, statusDraft, reserving, drift>>
-----------------------------------------------------------------------------
(* Delete *)

DeleteDocument_locksLibraryFirst(t) ==
    LET d == tx[t].doc
        l == tx[t].lib
    IN  /\ tx[t].next = "delete"
        /\ \/ /\ LibraryIsFree(t, l)
              /\ WriteLibrary(t, l, library[l])
              /\ UNCHANGED <<statusDraft, tx>>
           \/ /\ l \in DOMAIN libraryDraft[t]
              /\ DocumentIsFree(t, d)
              /\ status[d] # "absent"
              /\ WriteStatus(t, d, "absent")
              /\ tx' = [tx EXCEPT ![t].was = status[d],
                                  ![t].next = IF status[d] = "error" THEN "commit" ELSE "give_back"]
              /\ UNCHANGED libraryDraft
        /\ UNCHANGED <<library, status, reserving, drift>>

(* DELETE ... RETURNING status: the latest one.  A document in 'error' has *)
(* nothing to give back, so its delete never touches the library.          *)
DeleteDocument(t) ==
    LET d == tx[t].doc
    IN  /\ tx[t].next = "delete"
        /\ DocumentIsFree(t, d)
        /\ status[d] # "absent"
        /\ WriteStatus(t, d, "absent")
        /\ tx' = [tx EXCEPT ![t].was = status[d],
                            ![t].next = IF status[d] = "error" THEN "commit" ELSE "give_back"]
        /\ UNCHANGED <<library, status, libraryDraft, reserving, drift>>

(* forgetPages or releasePages *)
GivePagesBack(t) ==
    LET l == tx[t].lib
        n == Pages[tx[t].doc]
    IN  /\ tx[t].next = "give_back"
        /\ LibraryIsFree(t, l)
        /\ WriteLibrary(t, l,
             IF tx[t].was = "settled"
             THEN [library[l] EXCEPT !.page_count = Floored(@, n), !.doc_count = Floored(@, 1)]
             ELSE [library[l] EXCEPT !.pages_reserved = Floored(@, n)])
        /\ Goto(t, "commit")
        /\ UNCHANGED <<library, status, statusDraft, reserving, drift>>
-----------------------------------------------------------------------------
(* Purge *)

LockDuePurge_withoutLock(t) ==
    LET l == tx[t].lib
    IN  /\ tx[t].next = "lock_due"
        /\ library[l].row = "live" /\ library[l].due
        /\ Goto(t, "batch")
        /\ UNCHANGED <<library, status, drafts, reserving, drift>>

LockDuePurge(t) ==
    LET l == tx[t].lib
    IN  /\ tx[t].next = "lock_due"
        /\ LibraryIsFree(t, l)
        /\ library[l].row = "live" /\ library[l].due
        /\ WriteLibrary(t, l, library[l])
        /\ Goto(t, "batch")
        /\ UNCHANGED <<library, status, statusDraft, reserving, drift>>

(* The subquery of a DELETE: at most PurgeBatch rows, as of its start. *)
SelectBatch(t) ==
    LET left == {d \in Document : LibraryOf[d] = tx[t].lib /\ StatusSeen(t, d) # "absent"}
        size == IF Cardinality(left) < PurgeBatch THEN Cardinality(left) ELSE PurgeBatch
    IN  /\ tx[t].next = "batch"
        /\ \E batch \in SUBSET left :
             /\ Cardinality(batch) = size
             /\ tx' = [tx EXCEPT ![t].todo = batch, ![t].n = 0, ![t].next = "wipe"]
        /\ UNCHANGED <<library, status, drafts, reserving, drift>>

FirstOf(S) == CHOOSE x \in S : TRUE

(* One row of the batch, when its lock is free; a row that is gone by then *)
(* does not count.                                                         *)
WipeDocument(t) ==
    LET d == FirstOf(tx[t].todo)
    IN  /\ tx[t].next = "wipe"
        /\ tx[t].todo # {}
        /\ DocumentIsFree(t, d)
        /\ \/ /\ status[d] # "absent"
              /\ WriteStatus(t, d, "absent")
              /\ tx' = [tx EXCEPT ![t].todo = @ \ {d}, ![t].n = @ + 1]
           \/ /\ status[d] = "absent"
              /\ tx' = [tx EXCEPT ![t].todo = @ \ {d}]
              /\ UNCHANGED statusDraft
        /\ UNCHANGED <<library, status, libraryDraft, reserving, drift>>

(* The loop ends with a batch that deleted fewer rows than it may. *)
EndBatch(t) ==
    /\ tx[t].next = "wipe"
    /\ tx[t].todo = {}
    /\ Goto(t, IF tx[t].n < PurgeBatch THEN "zero" ELSE "batch")
    /\ UNCHANGED <<library, status, drafts, reserving, drift>>

ZeroCounters(t) ==
    LET l == tx[t].lib
    IN  /\ tx[t].next = "zero"
        /\ LibraryIsFree(t, l)
        /\ WriteLibrary(t, l, [LibrarySeen(t, l) EXCEPT !.page_count = 0, !.pages_reserved = 0,
                                                        !.doc_count = 0, !.row = "purged"])
        /\ tx' = [tx EXCEPT ![t].next = "commit", ![t].corrected = {l}]
        /\ UNCHANGED <<library, status, statusDraft, reserving, drift>>
-----------------------------------------------------------------------------
(* Recount: files_recount_libraries, each statement with a snapshot of its *)
(* own                                                                     *)

ListLibraries(t) ==
    /\ tx[t].next = "list"
    /\ tx' = [tx EXCEPT ![t].todo = {l \in Library : library[l].row = "live"}, ![t].next = "lock"]
    /\ UNCHANGED <<library, status, drafts, reserving, drift>>

SmallestOf(S) == CHOOSE l \in S : \A k \in S : l <= k

(* FOR UPDATE in id order; a row purged while waiting is left out. *)
LockLibrary(t) ==
    LET l == SmallestOf(tx[t].todo)
    IN  /\ tx[t].next = "lock"
        /\ tx[t].todo # {}
        /\ LibraryIsFree(t, l)
        /\ IF library[l].row = "live" THEN WriteLibrary(t, l, library[l])
           ELSE UNCHANGED libraryDraft
        /\ tx' = [tx EXCEPT ![t].todo = @ \ {l}]
        /\ UNCHANGED <<library, status, statusDraft, reserving, drift>>

PagesIn(s, l) == Total({d \in Document : LibraryOf[d] = l /\ status[d] = s}, Pages)

Counted(l) ==
    [page_count |-> PagesIn("settled", l), pages_reserved |-> PagesIn("in_flight", l),
     doc_count |-> Cardinality({d \in Document : LibraryOf[d] = l /\ status[d] = "settled"})]
IsOff(l, c) ==
    \/ library[l].page_count # c.page_count
    \/ library[l].pages_reserved # c.pages_reserved
    \/ library[l].doc_count # c.doc_count

CountAndCompare(t) ==
    LET off == {l \in Library : library[l].row = "live" /\ IsOff(l, Counted(l))}
    IN  tx' = [tx EXCEPT ![t].counted = [l \in off |-> Counted(l)],
                         ![t].todo = off, ![t].next = "correct"]

CountDocuments_beforeLocking(t) ==
    /\ tx[t].next = "lock"
    /\ CountAndCompare(t)
    /\ UNCHANGED <<library, status, drafts, reserving, drift>>

(* The UPDATE counts and picks the libraries that are off by one snapshot. *)
CountDocuments(t) ==
    /\ tx[t].next = "lock"
    /\ tx[t].todo = {}
    /\ CountAndCompare(t)
    /\ UNCHANGED <<library, status, drafts, reserving, drift>>

(* It then updates their rows; it waits for one it has not locked, and     *)
(* compares again.                                                         *)
CorrectLibrary(t) ==
    LET l == FirstOf(tx[t].todo)
        c == tx[t].counted[l]
    IN  /\ tx[t].next = "correct"
        /\ tx[t].todo # {}
        /\ LibraryIsFree(t, l)
        /\ IF IsOff(l, c)
           THEN /\ WriteLibrary(t, l, [library[l] EXCEPT !.page_count = c.page_count,
                                                         !.pages_reserved = c.pages_reserved,
                                                         !.doc_count = c.doc_count])
                /\ tx' = [tx EXCEPT ![t].todo = @ \ {l}, ![t].corrected = @ \cup {l}]
           ELSE /\ tx' = [tx EXCEPT ![t].todo = @ \ {l}]
                /\ UNCHANGED libraryDraft
        /\ UNCHANGED <<library, status, statusDraft, reserving, drift>>

EndRecount(t) ==
    /\ tx[t].next = "correct"
    /\ tx[t].todo = {}
    /\ Goto(t, "commit")
    /\ UNCHANGED <<library, status, drafts, reserving, drift>>
-----------------------------------------------------------------------------
(* markLibraryForPurge, a transaction of one statement; the date has       *)
(* passed at once.                                                         *)
MarkDue(l) ==
    /\ HolderOfLibrary(l) = {}
    /\ library[l].row = "live"
    /\ library' = [library EXCEPT ![l].due = TRUE]
    /\ UNCHANGED <<status, drafts, reserving, tx, drift>>

UploadStep(t) == EnsureLibrary(t) \/ AdvisoryLock(t) \/ ReservePages(t) \/ InsertDocument(t)
IngestStep(t) ==
    \/ WriteIndex(t) \/ SettlePages(t) \/ ReleasePages(t)
    \/ \E again \in BOOLEAN : RecordFailure(t, again)
DeleteStep(t) == DeleteDocument(t) \/ GivePagesBack(t)
PurgeStep(t) ==
    LockDuePurge(t) \/ SelectBatch(t) \/ WipeDocument(t) \/ EndBatch(t) \/ ZeroCounters(t)
RecountStep(t) ==
    ListLibraries(t) \/ LockLibrary(t) \/ CountDocuments(t) \/ CorrectLibrary(t) \/ EndRecount(t)

Next ==
    \/ \E t \in Transaction :
         \/ \E d \in Document :
              \/ Begin(t, "ensure", d, LibraryOf[d])
              \/ \E statement \in {"index", "record", "delete"} :
                   status[d] # "absent" /\ Begin(t, statement, d, LibraryOf[d])
         \/ \E l \in Library : library[l].due /\ Begin(t, "lock_due", NoDocument, l)
         \/ Begin(t, "list", NoDocument, NoLibrary)
         \/ UploadStep(t) \/ IngestStep(t) \/ DeleteStep(t) \/ PurgeStep(t) \/ RecountStep(t)
         \/ Commit(t) \/ Rollback(t)
    \/ \E l \in Library : MarkDue(l)

Spec == Init /\ [][Next]_vars
-----------------------------------------------------------------------------
InFlight(l) == {d \in Document : LibraryOf[d] = l /\ status[d] = "in_flight"}
Settled(l) == {d \in Document : LibraryOf[d] = l /\ status[d] = "settled"}

(* What is committed always adds up, but for the drift it began with,      *)
(* whatever statements of other transactions ran in between and whoever    *)
(* was rolled back; a recount corrects the drift and nothing else.  It     *)
(* locks the libraries before it counts (0003_ops.sql:113-119), a delete   *)
(* gives back by the status its own statement returned, and the rest are   *)
(* relative updates.                                                       *)
CountersExact ==
    \A l \in Library :
        /\ library[l].page_count = Total(Settled(l), Pages)
        /\ library[l].pages_reserved = Total(InFlight(l), Pages) + drift[l]
        /\ library[l].doc_count = Cardinality(Settled(l))

(* Two uploads that check the caps at the same time never both get the     *)
(* last pages, of their library or of all libraries (0002_rls.sql:76-78).  *)
CapsHeld ==
    /\ \A l \in Library : Total(Settled(l) \cup InFlight(l), Pages) <= QuotaPages[l]
    /\ Total({d \in Document : status[d] \in {"in_flight", "settled"}}, Pages) <= GlobalPages

(* A committed purge leaves no document behind, nor does one that is       *)
(* committed later get into a purged library (libraries.ts:201-209 "Delete *)
(* every document of the library").                                        *)
PurgedIsEmpty == \A d \in Document : status[d] # "absent" => library[LibraryOf[d]].row = "live"

(* The rows the next statement of t has to lock. *)
LibrariesAwaited(t) ==
    {l \in Library :
        \/ tx[t].lib = l /\ tx[t].next \in {"ensure", "settle", "release", "give_back", "lock_due", "zero"}
        \/ tx[t].todo # {} /\ tx[t].next = "lock" /\ l = SmallestOf(tx[t].todo)
        \/ tx[t].todo # {} /\ tx[t].next = "correct" /\ l = FirstOf(tx[t].todo)}
DocumentsAwaited(t) ==
    {d \in Document :
        \/ tx[t].doc = d /\ tx[t].next \in {"insert", "index", "record", "delete"}
        \/ tx[t].todo # {} /\ tx[t].next = "wipe" /\ d = FirstOf(tx[t].todo)}
WaitsFor(t) ==
    {u \in Transaction \ {t} :
        \/ \E l \in LibrariesAwaited(t) : u \in HolderOfLibrary(l)
        \/ \E d \in DocumentsAwaited(t) : u \in HolderOfDocument(d)
        \/ tx[t].next = "advisory" /\ u = reserving}

(* Transactions wait for each other in a circle only with a purge, or the  *)
(* upload of a text that is stored already, among them: these lock the     *)
(* library before a document, all others the document first.  Uploads,     *)
(* ingests, deletes and the recount (in id order) never deadlock among     *)
(* themselves.                                                             *)
OrdinaryWorkNeverDeadlocks ==
    \A D \in SUBSET Transaction :
        D # {} /\ (\A t \in D : WaitsFor(t) \cap D # {})
            => \E t \in D : tx[t].next \in {"insert", "wipe"}

=============================================================================
