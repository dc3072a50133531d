----------------------------- MODULE FilesStore -----------------------------
(***************************************************************************)
(* Vlastni zdroje: the documents of the libraries, the page counters their *)
(* quotas are enforced against, and the ingest queue.                      *)
(*                                                                         *)
(* One step is one database transaction (withScope) of an upload, an       *)
(* ingest run, a delete, a metadata confirmation, the daily cron or a      *)
(* webhook; between two transactions of a run anything else may happen,    *)
(* and a run may die.  The variables are the columns of `documents` and    *)
(* `libraries` (0001_init.sql) that decide what a transaction does.        *)
(***************************************************************************)
EXTENDS Sums

CONSTANTS
    Library,      \* library ids
    Document,     \* document ids
    Content,      \* normalized texts, told apart by their SHA-256
    Run,          \* concurrent calls of ingestDocument; a call's run token is
                  \* its own name: gen_random_uuid() never repeats one
    NoLibrary, NoContent, NoRun,   \* NULL in the columns below
    NoDocument,   \* the document of a run that has none
    Pages,        \* Pages[c]: billable pages of the text c (billablePages)
    QuotaPages,   \* QuotaPages[l]: the owner's cap (access.ts, quotaFrom)
    GlobalPages,  \* the cap over all libraries (LIMITS.globalPages)
    MaxAttempts   \* MAX_INGEST_ATTEMPTS

ASSUME FilesStoreAssumption ==
    /\ NoLibrary \notin Library
    /\ NoContent \notin Content
    /\ NoRun \notin Run
    /\ NoDocument \notin Document
    /\ Pages \in [Content -> Nat \ {0}]
    /\ QuotaPages \in [Library -> Nat]
    /\ GlobalPages \in Nat
    /\ MaxAttempts \in Nat \ {0}

VARIABLES
    status, library_id, content_sha256, billable_pages, pending_gz,
    run_token, lease_until, attempts,                      \* documents
    page_count, pages_reserved, doc_count,                 \* libraries: counters
    purge_after, purged_at,                                \* libraries: purge
    run                                                    \* the ingest calls

documentColumns == <<status, library_id, content_sha256, billable_pages,
                     pending_gz, run_token, lease_until, attempts>>
counters == <<page_count, pages_reserved, doc_count>>
purgeColumns == <<purge_after, purged_at>>
vars == <<documentColumns, counters, purgeColumns, run>>
-----------------------------------------------------------------------------
InFlightStatus == {"queued", "processing"}
SettledStatus == {"review", "ready"}

(* "absent": no row.  The status 'deleting' is in the schema but no code     *)
(* ever writes it.                                                           *)
Status == {"absent", "error"} \cup InFlightStatus \cup SettledStatus

(* lease_until: NULL, in the future, or before now(). *)
LeaseState == {"null", "held", "expired"}

(* purge_after: NULL, in the future, or passed. *)
PurgeDate == {"null", "later", "due"}

(* Where a call of ingestDocument is between two of its transactions:      *)
(* "prepare" is the parse and the AI proposal, with the lease in hand;     *)
(* "fail" is a failure that recordFailure has yet to write.                *)
IdleRun == [step |-> "idle", doc |-> NoDocument, retryable |-> FALSE]
RunState == [step : {"idle", "prepare", "fail"},
             doc : Document \cup {NoDocument}, retryable : BOOLEAN]

(* attempts is compared with MaxAttempts only: it saturates one above it. *)
AttemptsBound == MaxAttempts + 1

(* The type invariant. *)
TypeOK ==
    /\ status \in [Document -> Status]
    /\ library_id \in [Document -> Library \cup {NoLibrary}]
    /\ content_sha256 \in [Document -> Content \cup {NoContent}]
    /\ billable_pages \in [Document -> Nat]
    /\ pending_gz \in [Document -> BOOLEAN]
    /\ run_token \in [Document -> Run \cup {NoRun}]
    /\ lease_until \in [Document -> LeaseState]
    /\ attempts \in [Document -> 0 .. AttemptsBound]
    /\ page_count \in [Library -> Nat]
    /\ pages_reserved \in [Library -> Nat]
    /\ doc_count \in [Library -> Nat]
    /\ purge_after \in [Library -> PurgeDate]
    /\ purged_at \in [Library -> BOOLEAN]
    /\ run \in [Run -> RunState]

(* A library without a row and an empty one are the same to every guard    *)
(* (ensureLibrary inserts the row before the first reservation).           *)
Init ==
    /\ status = [d \in Document |-> "absent"]
    /\ library_id = [d \in Document |-> NoLibrary]
    /\ content_sha256 = [d \in Document |-> NoContent]
    /\ billable_pages = [d \in Document |-> 0]
    /\ pending_gz = [d \in Document |-> FALSE]
    /\ run_token = [d \in Document |-> NoRun]
    /\ lease_until = [d \in Document |-> "null"]
    /\ attempts = [d \in Document |-> 0]
    /\ page_count = [l \in Library |-> 0]
    /\ pages_reserved = [l \in Library |-> 0]
    /\ doc_count = [l \in Library |-> 0]
    /\ purge_after = [l \in Library |-> "null"]
    /\ purged_at = [l \in Library |-> FALSE]
    /\ run = [r \in Run |-> IdleRun]
-----------------------------------------------------------------------------
(* The rows of a library that hold a reservation, and those that hold      *)
(* stored pages.                                                           *)
InFlight(l) == {d \in Document : library_id[d] = l /\ status[d] \in InFlightStatus}
Settled(l) == {d \in Document : library_id[d] = l /\ status[d] \in SettledStatus}

LiveLibraries == {l \in Library : ~purged_at[l]}
Usage == [l \in Library |-> page_count[l] + pages_reserved[l]]

(* greatest(n - k, 0) *)
Floored(n, k) == IF n >= k THEN n - k ELSE 0

settlePages(l, n) ==
    /\ pages_reserved' = [pages_reserved EXCEPT ![l] = Floored(@, n)]
    /\ page_count' = [page_count EXCEPT ![l] = @ + n]
    /\ doc_count' = [doc_count EXCEPT ![l] = @ + 1]

releasePages(l, n) ==
    /\ pages_reserved' = [pages_reserved EXCEPT ![l] = Floored(@, n)]
    /\ UNCHANGED <<page_count, doc_count>>

forgetPages(l, n) ==
    /\ page_count' = [page_count EXCEPT ![l] = Floored(@, n)]
    /\ doc_count' = [doc_count EXCEPT ![l] = Floored(@, 1)]
    /\ UNCHANGED pages_reserved

(* Variants with a plausible bug are named <definition>_<bug>; each breaks  *)
(* a property that the definition it stands before keeps.                  *)
GlobalRoom_storedOnly(n) == Total(LiveLibraries, page_count) + n <= GlobalPages
LibraryRoom_storedOnly(l, n) == page_count[l] + n <= QuotaPages[l]

(* files_reserve_pages: the global sum over the libraries that are not     *)
(* purged, then the conditional update of the library's row.               *)
GlobalRoom(n) == Total(LiveLibraries, Usage) + n <= GlobalPages
LibraryRoom(l, n) == Usage[l] + n <= QuotaPages[l]

reservePages(l, n) ==
    /\ GlobalRoom(n)
    /\ LibraryRoom(l, n)
    /\ pages_reserved' = [pages_reserved EXCEPT ![l] = @ + n]
    /\ UNCHANGED <<page_count, doc_count>>

reviveLibrary_keepsPurged(l) ==
    /\ purge_after' = [purge_after EXCEPT ![l] = "null"]
    /\ UNCHANGED purged_at

reviveLibrary(l) ==
    /\ purge_after' = [purge_after EXCEPT ![l] = "null"]
    /\ purged_at' = [purged_at EXCEPT ![l] = FALSE]
-----------------------------------------------------------------------------
(* Upload *)

(* The unique index documents_content_uniq (library_id, content_sha256). *)
IsDuplicate(l, c) == \E d \in Document : library_id[d] = l /\ content_sha256[d] = c

(* POST /api/files/documents, the transaction of its step 6.  A refusal    *)
(* (no room) and a duplicate leave the rows as they are.                   *)
Upload(l, c, d) ==
    /\ status[d] = "absent"
    /\ ~IsDuplicate(l, c)
    /\ reservePages(l, Pages[c])
    /\ reviveLibrary(l)
    /\ status' = [status EXCEPT ![d] = "queued"]
    /\ library_id' = [library_id EXCEPT ![d] = l]
    /\ content_sha256' = [content_sha256 EXCEPT ![d] = c]
    /\ billable_pages' = [billable_pages EXCEPT ![d] = Pages[c]]
    /\ pending_gz' = [pending_gz EXCEPT ![d] = TRUE]
    /\ run_token' = [run_token EXCEPT ![d] = NoRun]
    /\ lease_until' = [lease_until EXCEPT ![d] = "null"]
    /\ attempts' = [attempts EXCEPT ![d] = 0]
    /\ UNCHANGED run
-----------------------------------------------------------------------------
(* Ingest *)

Claimable_queuedOnly(d) ==
    /\ status[d] = "queued"
    /\ lease_until[d] \in {"null", "expired"}
    /\ pending_gz[d]

(* The lease compare-and-set of claimForIngest. *)
Claimable(d) ==
    /\ status[d] \in InFlightStatus
    /\ lease_until[d] \in {"null", "expired"}
    /\ pending_gz[d]

ClaimForIngest_countsQueuedOnly(r, d) ==
    LET tried == IF status[d] = "queued" THEN attempts[d] + 1 ELSE attempts[d]
        hopeless == tried > MaxAttempts \/ purge_after[library_id[d]] # "null"
    IN  /\ run[r].step = "idle"
        /\ Claimable(d)
        /\ status' = [status EXCEPT ![d] = "processing"]
        /\ run_token' = [run_token EXCEPT ![d] = r]
        /\ lease_until' = [lease_until EXCEPT ![d] = "held"]
        /\ attempts' = [attempts EXCEPT ![d] = tried]
        /\ run' = [run EXCEPT ![r] = [step |-> IF hopeless THEN "fail" ELSE "prepare",
                                      doc |-> d, retryable |-> FALSE]]
        /\ UNCHANGED <<library_id, content_sha256, billable_pages, pending_gz,
                       counters, purgeColumns>>

(* The claim transaction of ingestDocument and what the call decides from  *)
(* the rows it read there: a document over its attempts, or one of a       *)
(* library marked for a purge, is failed for good; any other is prepared.  *)
ClaimForIngest(r, d) ==
    LET tried == IF attempts[d] < AttemptsBound THEN attempts[d] + 1 ELSE AttemptsBound
        hopeless == tried > MaxAttempts \/ purge_after[library_id[d]] # "null"
    IN  /\ run[r].step = "idle"
        /\ Claimable(d)
        /\ status' = [status EXCEPT ![d] = "processing"]
        /\ run_token' = [run_token EXCEPT ![d] = r]
        /\ lease_until' = [lease_until EXCEPT ![d] = "held"]
        /\ attempts' = [attempts EXCEPT ![d] = tried]
        /\ run' = [run EXCEPT ![r] = [step |-> IF hopeless THEN "fail" ELSE "prepare",
                                      doc |-> d, retryable |-> FALSE]]
        /\ UNCHANGED <<library_id, content_sha256, billable_pages, pending_gz,
                       counters, purgeColumns>>

(* prepare or the commit transaction throws: a corrupt text or a DMD limit *)
(* is final, anything else (database, unexpected) may be tried again.      *)
IngestThrows(r, retryable) ==
    /\ run[r].step = "prepare"
    /\ run' = [run EXCEPT ![r] = [step |-> "fail", doc |-> run[r].doc,
                                  retryable |-> retryable]]
    /\ UNCHANGED <<documentColumns, counters, purgeColumns>>

(* The row is still this run's: run_token matches and it is 'processing'. *)
HoldsLease(r) ==
    /\ status[run[r].doc] = "processing"
    /\ run_token[run[r].doc] = r

(* The commit transaction: writeDocumentIndex, finishIngest, settlePages.  *)
(* ackLost: it committed but its acknowledgement never arrived, so the     *)
(* call goes on to record a (retryable) failure.                           *)
CommitIngest(r, settledStatus, ackLost) ==
    LET d == run[r].doc
    IN  /\ run[r].step = "prepare"
        /\ HoldsLease(r)
        /\ status' = [status EXCEPT ![d] = settledStatus]
        /\ pending_gz' = [pending_gz EXCEPT ![d] = FALSE]
        /\ lease_until' = [lease_until EXCEPT ![d] = "null"]
        /\ run_token' = [run_token EXCEPT ![d] = NoRun]
        /\ settlePages(library_id[d], billable_pages[d])
        /\ run' = [run EXCEPT ![r] = IF ackLost
                                     THEN [step |-> "fail", doc |-> d, retryable |-> TRUE]
                                     ELSE IdleRun]
        /\ UNCHANGED <<library_id, content_sha256, billable_pages, attempts,
                       purgeColumns>>

(* LeaseLost: the commit transaction rolls back and the call stops. *)
LoseLease(r) ==
    /\ run[r].step = "prepare"
    /\ ~HoldsLease(r)
    /\ run' = [run EXCEPT ![r] = IdleRun]
    /\ UNCHANGED <<documentColumns, counters, purgeColumns>>

FailIngest_releasesWhenLost(r) ==
    LET d == run[r].doc
    IN  /\ run[r].step = "fail"
        /\ status[d] # "absent"
        /\ run' = [run EXCEPT ![r] = IdleRun]
        /\ releasePages(library_id[d], billable_pages[d])
        /\ UNCHANGED <<documentColumns, purgeColumns>>

FailIngest_unchecked(r) ==
    LET d == run[r].doc
    IN  /\ run[r].step = "fail"
        /\ run' = [run EXCEPT ![r] = IdleRun]
        /\ status' = [status EXCEPT ![d] = "queued"]
        /\ lease_until' = [lease_until EXCEPT ![d] = "null"]
        /\ run_token' = [run_token EXCEPT ![d] = NoRun]
        /\ UNCHANGED <<library_id, content_sha256, billable_pages, pending_gz,
                       attempts, counters, purgeColumns>>

(* recordFailure: failIngest and, for a document that ends in 'error',     *)
(* releasePages, in one transaction; nothing when the lease was lost.      *)
FailIngest(r) ==
    LET d == run[r].doc
        again == run[r].retryable /\ attempts[d] < MaxAttempts
    IN  /\ run[r].step = "fail"
        /\ run' = [run EXCEPT ![r] = IdleRun]
        /\ \/ /\ status[d] \in InFlightStatus
              /\ run_token[d] = r
              /\ status' = [status EXCEPT ![d] = IF again THEN "queued" ELSE "error"]
              /\ lease_until' = [lease_until EXCEPT ![d] = "null"]
              /\ run_token' = [run_token EXCEPT ![d] = NoRun]
              /\ IF again THEN UNCHANGED counters
                          ELSE releasePages(library_id[d], billable_pages[d])
              /\ UNCHANGED <<library_id, content_sha256, billable_pages,
                             pending_gz, attempts, purgeColumns>>
           \/ /\ ~(status[d] \in InFlightStatus /\ run_token[d] = r)
              /\ UNCHANGED <<documentColumns, counters, purgeColumns>>

(* The function instance dies, or recordFailure itself cannot be written:  *)
(* the row keeps its lease until it expires.                               *)
RunDies(r) ==
    /\ run[r].step # "idle"
    /\ run' = [run EXCEPT ![r] = IdleRun]
    /\ UNCHANGED <<documentColumns, counters, purgeColumns>>

(* lease_until passes, whether or not the run is still alive. *)
LeaseExpires(d) ==
    /\ lease_until[d] = "held"
    /\ lease_until' = [lease_until EXCEPT ![d] = "expired"]
    /\ UNCHANGED <<status, library_id, content_sha256, billable_pages,
                   pending_gz, run_token, attempts, counters, purgeColumns, run>>
-----------------------------------------------------------------------------
(* Web, operator and cron *)

(* confirmDocument: only from review or ready. *)
ConfirmDocument(d) ==
    /\ status[d] \in SettledStatus
    /\ status' = [status EXCEPT ![d] = "ready"]
    /\ UNCHANGED <<library_id, content_sha256, billable_pages, pending_gz,
                   run_token, lease_until, attempts, counters, purgeColumns, run>>

(* The columns of a set of rows that is deleted. *)
DeleteRows(D) ==
    /\ status' = [d \in Document |-> IF d \in D THEN "absent" ELSE status[d]]
    /\ library_id' = [d \in Document |-> IF d \in D THEN NoLibrary ELSE library_id[d]]
    /\ content_sha256' = [d \in Document |-> IF d \in D THEN NoContent ELSE content_sha256[d]]
    /\ billable_pages' = [d \in Document |-> IF d \in D THEN 0 ELSE billable_pages[d]]
    /\ pending_gz' = [d \in Document |-> IF d \in D THEN FALSE ELSE pending_gz[d]]
    /\ run_token' = [d \in Document |-> IF d \in D THEN NoRun ELSE run_token[d]]
    /\ lease_until' = [d \in Document |-> IF d \in D THEN "null" ELSE lease_until[d]]
    /\ attempts' = [d \in Document |-> IF d \in D THEN 0 ELSE attempts[d]]

(* deleteFor (the owner) and takedownContent (the operator), per document: *)
(* the row goes, its pages are given back according to the status it had.  *)
DeleteDocument(d) ==
    /\ status[d] # "absent"
    /\ DeleteRows({d})
    /\ \/ status[d] \in SettledStatus /\ forgetPages(library_id[d], billable_pages[d])
       \/ status[d] \in InFlightStatus /\ releasePages(library_id[d], billable_pages[d])
       \/ status[d] = "error" /\ UNCHANGED counters
    /\ UNCHANGED <<purgeColumns, run>>

ClearStalePending_anyStatus(d) ==
    /\ status[d] # "absent"
    /\ pending_gz' = [pending_gz EXCEPT ![d] = FALSE]
    /\ UNCHANGED <<status, library_id, content_sha256, billable_pages,
                   run_token, lease_until, attempts, counters, purgeColumns, run>>

(* clearStalePending: the text of a document that failed 7 days ago. *)
ClearStalePending(d) ==
    /\ status[d] = "error"
    /\ pending_gz[d]
    /\ pending_gz' = [pending_gz EXCEPT ![d] = FALSE]
    /\ UNCHANGED <<status, library_id, content_sha256, billable_pages,
                   run_token, lease_until, attempts, counters, purgeColumns, run>>

(* markLibraryForPurge: an earlier date is never postponed. *)
MarkLibraryForPurge(l, date) ==
    /\ ~purged_at[l]
    /\ purge_after' = [purge_after EXCEPT ![l] = IF @ = "due" THEN "due" ELSE date]
    /\ UNCHANGED <<documentColumns, counters, purged_at, run>>

PurgeDatePasses(l) ==
    /\ purge_after[l] = "later"
    /\ purge_after' = [purge_after EXCEPT ![l] = "due"]
    /\ UNCHANGED <<documentColumns, counters, purged_at, run>>

(* The cron finds the owner of a marked library with Pro again. *)
ReviveByCron(l) ==
    /\ reviveLibrary(l)
    /\ UNCHANGED <<documentColumns, counters, run>>

(* purgeLibraryContent behind lockDuePurge, one transaction. *)
PurgeLibrary(l) ==
    /\ ~purged_at[l]
    /\ purge_after[l] = "due"
    /\ DeleteRows({d \in Document : library_id[d] = l})
    /\ page_count' = [page_count EXCEPT ![l] = 0]
    /\ pages_reserved' = [pages_reserved EXCEPT ![l] = 0]
    /\ doc_count' = [doc_count EXCEPT ![l] = 0]
    /\ purged_at' = [purged_at EXCEPT ![l] = TRUE]
    /\ UNCHANGED <<purge_after, run>>

(* files_recount_libraries: every live library, from its rows. *)
RecountLibraries ==
    /\ page_count' = [l \in Library |-> IF purged_at[l] THEN page_count[l]
                                        ELSE Total(Settled(l), billable_pages)]
    /\ pages_reserved' = [l \in Library |-> IF purged_at[l] THEN pages_reserved[l]
                                            ELSE Total(InFlight(l), billable_pages)]
    /\ doc_count' = [l \in Library |-> IF purged_at[l] THEN doc_count[l]
                                       ELSE Cardinality(Settled(l))]
    /\ UNCHANGED <<documentColumns, purgeColumns, run>>
-----------------------------------------------------------------------------
RunStep(r) ==
    \/ \E retryable \in BOOLEAN : IngestThrows(r, retryable)
    \/ \E s \in SettledStatus, ackLost \in BOOLEAN : CommitIngest(r, s, ackLost)
    \/ LoseLease(r)
    \/ FailIngest(r)
    \/ RunDies(r)

DocumentStep(d) ==
    \/ \E l \in Library, c \in Content : Upload(l, c, d)
    \/ \E r \in Run : ClaimForIngest(r, d)
    \/ LeaseExpires(d)
    \/ ConfirmDocument(d)
    \/ DeleteDocument(d)
    \/ ClearStalePending(d)

LibraryStep(l) ==
    \/ \E date \in {"later", "due"} : MarkLibraryForPurge(l, date)
    \/ PurgeDatePasses(l)
    \/ ReviveByCron(l)
    \/ PurgeLibrary(l)

Next ==
    \/ \E r \in Run : RunStep(r)
    \/ \E d \in Document : DocumentStep(d)
    \/ \E l \in Library : LibraryStep(l)
    \/ RecountLibraries

Spec == Init /\ [][Next]_vars
-----------------------------------------------------------------------------
(* Liveness assumes a deployment in mode "on" whose cron keeps running: it *)
(* takes the candidates oldest first, so a claimable document gets its     *)
(* turn again and again (SF); leases expire; a call makes progress until   *)
(* its instance dies; and of the calls that hold a document's lease and    *)
(* only have its failure left to write, not all die first (SF).            *)
WriteFailure(r, d) == FailIngest(r) /\ run[r].doc = d /\ run_token[d] = r

Fairness ==
    /\ \A d \in Document :
        /\ WF_vars(LeaseExpires(d))
        /\ SF_vars(\E r \in Run : ClaimForIngest(r, d))
    /\ \A r \in Run :
        /\ WF_vars(RunStep(r))
        /\ \A d \in Document : SF_vars(WriteFailure(r, d))

FairSpec == Spec /\ Fairness
-----------------------------------------------------------------------------
(* The counters of every library are exactly what its rows add up to, in   *)
(* every interleaving of uploads, runs that crash, overlap or finish late, *)
(* deletes and purges: no page is charged twice or given back twice        *)
(* (reservePages, settlePages, releasePages, forgetPages).                 *)
CountersExact ==
    \A l \in Library :
        /\ page_count[l] = Total(Settled(l), billable_pages)
        /\ pages_reserved[l] = Total(InFlight(l), billable_pages)
        /\ doc_count[l] = Cardinality(Settled(l))

(* No library ever holds more pages than its quota, nor all of them more   *)
(* than the global cap, counted over the documents themselves.             *)
CapsHeld ==
    /\ \A l \in Library : Total(Settled(l) \cup InFlight(l), billable_pages) <= QuotaPages[l]
    /\ Total({d \in Document : status[d] \in SettledStatus \cup InFlightStatus},
             billable_pages) <= GlobalPages

(* A document waiting for ingest can always be claimed, now or when its    *)
(* lease runs out: it has its text, and it is leased exactly while it is   *)
(* 'processing' (claimForIngest would skip it for ever otherwise); a       *)
(* settled one keeps neither text nor lease.                               *)
QueueIntact ==
    \A d \in Document :
        /\ status[d] \in InFlightStatus => pending_gz[d]
        /\ status[d] \in SettledStatus => ~pending_gz[d]
        /\ status[d] = "processing" <=> lease_until[d] # "null"
        /\ status[d] = "processing" <=> run_token[d] # NoRun

(* A purged library holds no document until an upload revives it. *)
PurgedIsEmpty ==
    \A d \in Document : library_id[d] # NoLibrary => ~purged_at[library_id[d]]

(* Whatever a late or repeated run writes, a document that was settled is  *)
(* never sent back to the queue or to 'error', and one that failed is      *)
(* never settled behind its back: failed and settled documents leave that  *)
(* state only with their row.                                              *)
SettledOrFailedForGood ==
    [][\A d \in Document :
        /\ status[d] \in SettledStatus => status'[d] \in SettledStatus \cup {"absent"}
        /\ status[d] = "error" => status'[d] \in {"error", "absent"}]_vars

(* A document is prepared (parsed, sent to the AI) at most MaxAttempts     *)
(* times, crashes included: each new preparation uses up an attempt and    *)
(* attempts never come back.                                               *)
RetryBudget ==
    [][\A d \in Document :
        status'[d] # "absent" =>
            /\ attempts'[d] >= attempts[d]
            /\ (\E r \in Run : /\ run'[r].step = "prepare"
                               /\ run'[r].doc = d
                               /\ run'[r] # run[r])
               => attempts[d] < attempts'[d] /\ attempts'[d] <= MaxAttempts]_vars

(* Every uploaded document leaves the queue: ready, in review, failed with *)
(* its reservation given back, or deleted.                                 *)
QueueDrains ==
    \A d \in Document : status[d] \in InFlightStatus ~> status[d] \notin InFlightStatus

(* The store keeps the promise of PageLedger. *)
Ledger == INSTANCE PageLedger WITH
    reserved <- [l \in Library |-> InFlight(l)],
    stored <- [l \in Library |-> Settled(l)],
    size <- [d \in Document |->
               IF status[d] \in InFlightStatus \cup SettledStatus THEN billable_pages[d] ELSE 0]

LedgerSpec == Ledger!LedgerSpec
=============================================================================
