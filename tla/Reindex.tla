------------------------------ MODULE Reindex ------------------------------
(***************************************************************************)
(* Keeping the search index in step with the saved metadata: a save that   *)
(* changes the document type commits first and asks for a re-derivation    *)
(* after the response; requests coalesce, are deferred by a daily budget   *)
(* and by the CPU allowance, and the daily cron catches up (reindex.ts).   *)
(*                                                                         *)
(* A step is one transaction or one statement that other transactions can  *)
(* be ordered around.  Derived data is represented by the version of the   *)
(* metadata it was derived from.                                           *)
(***************************************************************************)
EXTENDS Naturals, FiniteSets

CONSTANTS
    Indexed,       \* documents of one library, past ingest
    Saver,         \* requests that save metadata, with their after() callback
    Cron,          \* the reindex task of the daily run
    DocType,       \* what of the metadata the index depends on
    Nobody,        \* no transaction holds the row lock
    Budget,        \* REINDEXES_PER_LIBRARY_DAY
    VersionBound,  \* saves per document, to keep the model finite
    FaultSets      \* what may go wrong: one of these sets of faults in a behaviour

\* "die": a function instance may die between two transactions; "fail": deriving
\* or writing an index may fail.
Faults == {"die", "fail"}

ASSUME ReindexAssumption ==
    /\ Indexed # {} /\ DocType # {}
    /\ Cron \notin Saver
    /\ Nobody \notin Saver \cup {Cron}
    /\ Budget \in Nat
    /\ VersionBound \in Nat
    /\ FaultSets \subseteq SUBSET Faults

VARIABLES
    doc_type,       \* doc_type[d][v]: the type as of version v; 0 when not saved yet
    meta_version,   \* meta_version[d]
    index,          \* index[d]: the version the chunks were derived from
    reindex_requested_at,   \* NULL, less than 10 minutes old, or older
    row_lock,       \* who holds the lock of the document's row
    reindexes,      \* usage_daily: runs that saves started today
    cpuLeft,        \* cpuAllowanceLeft
    faults,         \* what may go wrong
    givenUp,        \* history: the version whose run failed last in the cron, if any
    work            \* what each request, and the cron, is at

reindexVars == <<doc_type, meta_version, index, reindex_requested_at, row_lock,
          reindexes, cpuLeft, givenUp, faults, work>>

Worker == Saver \cup {Cron}
Version == 0 .. VersionBound
IdleWork == [step |-> "idle", doc |-> CHOOSE d \in Indexed : TRUE,
             type |-> CHOOSE t \in DocType : TRUE, version |-> 0]

(* "edit": the save has read the row and its version;           *)
(* "after": committed, its after() callback still to run; "admitted": may  *)
(* start a run; "leased": the run's transaction; "failed": the cron's run  *)
(* failed and its request is to be cleared.                                *)
Step == {"idle", "edit", "after", "admitted", "leased", "failed"}

(* The type invariant. *)
ReindexTypeOK ==
    /\ doc_type \in [Indexed -> [Version -> DocType \cup {0}]]
    /\ meta_version \in [Indexed -> Version]
    /\ index \in [Indexed -> Version]
    /\ reindex_requested_at \in [Indexed -> {"null", "fresh", "old"}]
    /\ row_lock \in [Indexed -> Worker \cup {Nobody}]
    /\ reindexes \in 0 .. Budget
    /\ cpuLeft \in BOOLEAN
    /\ givenUp \in [Indexed -> SUBSET Version]
    /\ faults \in FaultSets
    /\ work \in [Worker -> [step : Step, doc : Indexed, type : DocType,
                            version : Version]]

ReindexInit ==
    /\ \E t \in DocType :
         doc_type = [d \in Indexed |-> [v \in Version |-> IF v = 0 THEN t ELSE 0]]
    /\ meta_version = [d \in Indexed |-> 0]
    /\ index = [d \in Indexed |-> 0]
    /\ reindex_requested_at = [d \in Indexed |-> "null"]
    /\ row_lock = [d \in Indexed |-> Nobody]
    /\ reindexes = 0
    /\ cpuLeft = TRUE
    /\ givenUp = [d \in Indexed |-> {}]
    /\ faults \in FaultSets
    /\ work = [w \in Worker |-> IdleWork]

TypeNow(d) == doc_type[d][meta_version[d]]
TypeOf(d, v) == doc_type[d][v]
-----------------------------------------------------------------------------
(* Saving metadata *)

(* The form is loaded; the save compares the version it was loaded with.   *)
SaveReads(s, d, t) ==
    /\ work[s].step = "idle"
    /\ meta_version[d] < VersionBound
    /\ work' = [work EXCEPT ![s] = [step |-> "edit", doc |-> d, type |-> t,
                                    version |-> meta_version[d]]]
    /\ UNCHANGED <<doc_type, meta_version, index, reindex_requested_at, row_lock,
                   reindexes, cpuLeft, givenUp, faults>>

(* tryUpdateMeta and the commit: waits for the row lock, then compares the *)
(* version.  after() is called when the type changed (indexInputsChanged). *)
SaveWrites(s) ==
    LET d == work[s].doc
        v == work[s].version + 1
    IN  /\ work[s].step = "edit"
        /\ row_lock[d] = Nobody
        /\ \/ /\ meta_version[d] = work[s].version
              /\ meta_version' = [meta_version EXCEPT ![d] = v]
              /\ doc_type' = [doc_type EXCEPT ![d][v] = work[s].type]
              /\ work' = [work EXCEPT ![s] =
                            IF TypeNow(d) # work[s].type
                            THEN [IdleWork EXCEPT !.step = "after", !.doc = d]
                            ELSE IdleWork]
           \/ /\ meta_version[d] # work[s].version
              /\ work' = [work EXCEPT ![s] = IdleWork]
              /\ UNCHANGED <<doc_type, meta_version>>
        /\ UNCHANGED <<index, reindex_requested_at, row_lock, reindexes, cpuLeft, givenUp, faults>>

-----------------------------------------------------------------------------
(* Admission *)

Admit_forgetsDeferred(s) ==
    LET d == work[s].doc
    IN  /\ work[s].step = "after"
        /\ row_lock[d] = Nobody
        /\ \/ /\ reindex_requested_at[d] = "fresh"
              /\ work' = [work EXCEPT ![s] = IdleWork]
              /\ UNCHANGED <<reindex_requested_at, reindexes>>
           \/ /\ reindex_requested_at[d] # "fresh"
              /\ ~cpuLeft \/ reindexes = Budget
              /\ work' = [work EXCEPT ![s] = IdleWork]
              /\ UNCHANGED <<reindex_requested_at, reindexes>>
           \/ /\ reindex_requested_at[d] # "fresh"
              /\ cpuLeft /\ reindexes < Budget
              /\ reindex_requested_at' = [reindex_requested_at EXCEPT ![d] = "fresh"]
              /\ reindexes' = reindexes + 1
              /\ work' = [work EXCEPT ![s].step = "admitted"]
        /\ UNCHANGED <<doc_type, meta_version, index, row_lock, cpuLeft, givenUp, faults>>

(* The admission transaction of reindexDocument("user"): pending (a fresh  *)
(* mark: this save coalesces into it), deferred (marked, but no allowance  *)
(* or budget), or a run.                                                   *)
Admit(s) ==
    LET d == work[s].doc
    IN  /\ work[s].step = "after"
        /\ row_lock[d] = Nobody
        /\ \/ /\ reindex_requested_at[d] = "fresh"
              /\ work' = [work EXCEPT ![s] = IdleWork]
              /\ UNCHANGED <<reindex_requested_at, reindexes>>
           \/ /\ reindex_requested_at[d] # "fresh"
              /\ ~cpuLeft \/ reindexes = Budget
              /\ reindex_requested_at' = [reindex_requested_at EXCEPT ![d] = "fresh"]
              /\ work' = [work EXCEPT ![s] = IdleWork]
              /\ UNCHANGED reindexes
           \/ /\ reindex_requested_at[d] # "fresh"
              /\ cpuLeft /\ reindexes < Budget
              /\ reindex_requested_at' = [reindex_requested_at EXCEPT ![d] = "fresh"]
              /\ reindexes' = reindexes + 1
              /\ work' = [work EXCEPT ![s].step = "admitted",
                                      ![s].version = meta_version[d]]
        /\ UNCHANGED <<doc_type, meta_version, index, row_lock, cpuLeft, givenUp, faults>>

CronTakes_fresh(d) ==
    /\ work[Cron].step = "idle"
    /\ cpuLeft
    /\ reindex_requested_at[d] = "fresh"
    /\ work' = [work EXCEPT ![Cron] = [IdleWork EXCEPT !.step = "admitted", !.doc = d,
                                                       !.version = meta_version[d]]]
    /\ UNCHANGED <<doc_type, meta_version, index, reindex_requested_at, row_lock,
                   reindexes, cpuLeft, givenUp, faults>>

(* The cron takes a request of files_reindex_requests while the CPU        *)
(* allowance has room.                                                     *)
CronTakes(d) ==
    /\ work[Cron].step = "idle"
    /\ cpuLeft
    /\ reindex_requested_at[d] = "old"
    /\ work' = [work EXCEPT ![Cron] = [IdleWork EXCEPT !.step = "admitted", !.doc = d,
                                                       !.version = meta_version[d]]]
    /\ UNCHANGED <<doc_type, meta_version, index, reindex_requested_at, row_lock,
                   reindexes, cpuLeft, givenUp, faults>>
-----------------------------------------------------------------------------
(* The run *)

(* The metadata as it was when the run was admitted. *)
Lease_readsBefore(w) ==
    LET d == work[w].doc
    IN  /\ work[w].step = "admitted"
        /\ row_lock[d] = Nobody
        /\ row_lock' = [row_lock EXCEPT ![d] = w]
        /\ work' = [work EXCEPT ![w].step = "leased"]
        /\ UNCHANGED <<doc_type, meta_version, index, reindex_requested_at,
                       reindexes, cpuLeft, givenUp, faults>>

(* leaseForReindex takes the row lock for the whole transaction; only then *)
(* is the row read.                                                        *)
Lease(w) ==
    LET d == work[w].doc
    IN  /\ work[w].step = "admitted"
        /\ row_lock[d] = Nobody
        /\ row_lock' = [row_lock EXCEPT ![d] = w]
        /\ work' = [work EXCEPT ![w].step = "leased", ![w].version = meta_version[d]]
        /\ UNCHANGED <<doc_type, meta_version, index, reindex_requested_at,
                       reindexes, cpuLeft, givenUp, faults>>

(* The commit: request cleared, index rebuilt; meta_version is    *)
(* not touched.                                                            *)
Finish(w) ==
    LET d == work[w].doc
    IN  /\ work[w].step = "leased"
        /\ index' = [index EXCEPT ![d] = work[w].version]
        /\ reindex_requested_at' = [reindex_requested_at EXCEPT ![d] = "null"]
        /\ row_lock' = [row_lock EXCEPT ![d] = Nobody]
        /\ work' = [work EXCEPT ![w] = IdleWork]
        /\ UNCHANGED <<doc_type, meta_version, reindexes, cpuLeft, givenUp, faults>>

(* A failed run rolls back; the cron then gives the document up.           *)
RunFails(w) ==
    LET d == work[w].doc
    IN  /\ "fail" \in faults
        /\ work[w].step = "leased"
        /\ row_lock' = [row_lock EXCEPT ![d] = Nobody]
        /\ work' = [work EXCEPT ![w] =
                      IF w = Cron THEN [@ EXCEPT !.step = "failed"] ELSE IdleWork]
        /\ UNCHANGED <<doc_type, meta_version, index, reindex_requested_at,
                       reindexes, cpuLeft, givenUp, faults>>

(* clearReindexRequest after a failure, a transaction of its own. *)
CronGivesUp ==
    LET d == work[Cron].doc
    IN  /\ work[Cron].step = "failed"
        /\ row_lock[d] = Nobody
        /\ reindex_requested_at' = [reindex_requested_at EXCEPT ![d] = "null"]
        /\ givenUp' = [givenUp EXCEPT ![d] = {work[Cron].version}]
        /\ work' = [work EXCEPT ![Cron] = IdleWork]
        /\ UNCHANGED <<doc_type, meta_version, index, row_lock, reindexes, cpuLeft, faults>>

(* The instance dies, or a transaction it needs fails; an open one rolls   *)
(* back.                                                                   *)
Dies(w) ==
    LET d == work[w].doc
    IN  /\ "die" \in faults
        /\ work[w].step # "idle"
        /\ row_lock' = [row_lock EXCEPT ![d] = IF @ = w THEN Nobody ELSE @]
        /\ work' = [work EXCEPT ![w] = IdleWork]
        /\ UNCHANGED <<doc_type, meta_version, index, reindex_requested_at,
                       reindexes, cpuLeft, givenUp, faults>>
-----------------------------------------------------------------------------
(* Time *)

RequestAges(d) ==
    /\ reindex_requested_at[d] = "fresh"
    /\ reindex_requested_at' = [reindex_requested_at EXCEPT ![d] = "old"]
    /\ UNCHANGED <<doc_type, meta_version, index, row_lock, reindexes, cpuLeft,
                   givenUp, faults, work>>

NewDay ==
    /\ reindexes > 0
    /\ reindexes' = 0
    /\ UNCHANGED <<doc_type, meta_version, index, reindex_requested_at, row_lock,
                   cpuLeft, givenUp, faults, work>>

(* Uploads and ingests of all libraries spend the allowance; days restore  *)
(* it.                                                                     *)
CpuChanges ==
    /\ cpuLeft' = ~cpuLeft
    /\ UNCHANGED <<doc_type, meta_version, index, reindex_requested_at, row_lock,
                   reindexes, givenUp, faults, work>>

Progress(w) ==
    \/ w \in Saver /\ (SaveWrites(w) \/ Admit(w))
    \/ w = Cron /\ CronGivesUp
    \/ Lease(w)
    \/ Finish(w)

ReindexNext ==
    \/ \E s \in Saver, d \in Indexed, t \in DocType : SaveReads(s, d, t)
    \/ \E w \in Worker : Progress(w) \/ RunFails(w) \/ Dies(w)
    \/ \E d \in Indexed : CronTakes(d) \/ RequestAges(d)
    \/ NewDay
    \/ CpuChanges

ReindexSpec == ReindexInit /\ [][ReindexNext]_reindexVars

(* Requests go on, the cron runs every day and the allowance comes back    *)
(* now and then while it runs.                                             *)
FairReindexSpec ==
    /\ ReindexSpec
    /\ \A w \in Worker : SF_reindexVars(Progress(w))
    /\ \A d \in Indexed : WF_reindexVars(RequestAges(d)) /\ SF_reindexVars(CronTakes(d))
    /\ WF_reindexVars(~cpuLeft /\ CpuChanges)
-----------------------------------------------------------------------------
(* Between the saves and the runs: on its way, being derived, marked, or   *)
(* given up by the cron.                                                   *)
Pending(d) ==
    \/ reindex_requested_at[d] # "null"
    \/ \E s \in Saver : work[s].step = "after" /\ work[s].doc = d
    \/ \E w \in Worker : work[w].step \in {"admitted", "leased"} /\ work[w].doc = d

InStep(d) == TypeOf(d, index[d]) = TypeNow(d)

(* Unless an instance dies: however saves, coalesced requests, deferrals   *)
(* and runs interleave, an index that is behind the saved type is never    *)
(* forgotten: something is still going to re-derive it (reindex.ts:36-37   *)
(* "deferred, never dropped, so the index catches up with the saved type   *)
(* and act"), or the cron gave that type up after a failed run.            *)
GivenUp(d) == \E v \in givenUp[d] : TypeOf(d, v) = TypeNow(d)

NeverDropped ==
    \A d \in Indexed : "die" \notin faults /\ ~InStep(d) => Pending(d) \/ GivenUp(d)

(* Whatever dies or fails, a request leaves the table only with an index   *)
(* that is up to date, or when the cron gives the document up              *)
(* (clearReindexRequest is part of the run's transaction).                 *)
RequestOutlivesFailures ==
    [][\A d \in Indexed :
         reindex_requested_at[d] # "null" /\ reindex_requested_at'[d] = "null"
           => TypeOf(d, index'[d]) = TypeNow(d) \/ work[Cron].step = "failed"]_reindexVars

(* A slow run never replaces the index of a newer save by that of an older *)
(* one (leaseForReindex locks the row before it is read).                  *)
IndexNeverRegresses == [][\A d \in Indexed : index'[d] >= index[d]]_reindexVars

(* Where nothing goes wrong: once the saves stop, the index catches up with *)
(* the saved type.                                                         *)
CatchesUp == faults = {} => \A d \in Indexed : <>[]InStep(d)
=============================================================================
