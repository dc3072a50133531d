-------------------------- MODULE FilesStoreProofs --------------------------
(***************************************************************************)
(* Proofs about FilesStore, for any numbers of libraries, documents, texts *)
(* and runs, any quotas and any MaxAttempts; at the end, that it           *)
(* implements PageLedger.                                                  *)
(***************************************************************************)
EXTENDS FilesStore, DataTheorems
-----------------------------------------------------------------------------
(* The parts of the inductive invariant that no run needs to check on its  *)
(* own: a row belongs to a library exactly while it exists, a run that is  *)
(* not idle works on a document, and each library has finitely many pages  *)
(* to count (there is no bound on Document itself).                        *)
RowsOwned == \A d \in Document : status[d] = "absent" <=> library_id[d] = NoLibrary
RunsHaveDocument == \A r \in Run : run[r].step # "idle" => run[r].doc \in Document

FiniteRows(l) ==
    /\ IsFiniteSet(Settled(l))
    /\ IsFiniteSet(AllUnits(Settled(l), billable_pages))
    /\ IsFiniteSet(AllUnits(InFlight(l), billable_pages))

Exact(l) ==
    /\ page_count[l] = Total(Settled(l), billable_pages)
    /\ pages_reserved[l] = Total(InFlight(l), billable_pages)
    /\ doc_count[l] = Cardinality(Settled(l))

LibraryOK(l) == FiniteRows(l) /\ Exact(l)

StoreInv ==
    /\ TypeOK
    /\ RowsOwned
    /\ RunsHaveDocument
    /\ \A l \in Library : LibraryOK(l)
-----------------------------------------------------------------------------
(* The actions that touch neither which rows a library has, nor their      *)
(* pages, nor the counters.                                                *)
BookkeepingStep ==
    \/ \E r \in Run, d \in Document : ClaimForIngest(r, d)
    \/ \E r \in Run :
        \/ \E retryable \in BOOLEAN : IngestThrows(r, retryable)
        \/ LoseLease(r)
        \/ RunDies(r)
    \/ \E d \in Document : LeaseExpires(d) \/ ConfirmDocument(d) \/ ClearStalePending(d)
    \/ \E l \in Library :
        \/ \E date \in {"later", "due"} : MarkLibraryForPurge(l, date)
        \/ PurgeDatePasses(l)
        \/ ReviveByCron(l)

(* Next, regrouped for the proofs.                                         *)
LEMMA NextCases ==
    Next <=>
        \/ BookkeepingStep
        \/ \E l \in Library, c \in Content, d \in Document : Upload(l, c, d)
        \/ \E r \in Run, s \in SettledStatus, ackLost \in BOOLEAN : CommitIngest(r, s, ackLost)
        \/ \E r \in Run : FailIngest(r)
        \/ \E d \in Document : DeleteDocument(d)
        \/ \E l \in Library : PurgeLibrary(l)
        \/ RecountLibraries
BY DEF Next, RunStep, DocumentStep, LibraryStep, BookkeepingStep

LEMMA BookkeepingType ==
    ASSUME TypeOK, RunsHaveDocument, BookkeepingStep
    PROVE  TypeOK' /\ RunsHaveDocument'
<1> USE FilesStoreAssumption DEF TypeOK, RunsHaveDocument, Status, InFlightStatus,
        SettledStatus, LeaseState, PurgeDate, RunState, IdleRun, counters, purgeColumns,
        documentColumns
<1>1. ASSUME NEW r \in Run, NEW d \in Document, ClaimForIngest(r, d)
      PROVE  TypeOK' /\ RunsHaveDocument'
  BY <1>1 DEF ClaimForIngest, AttemptsBound
<1>2. ASSUME NEW r \in Run, NEW retryable \in BOOLEAN, IngestThrows(r, retryable)
      PROVE  TypeOK' /\ RunsHaveDocument'
  BY <1>2 DEF IngestThrows
<1>3. ASSUME NEW r \in Run, run[r].step # "idle", run' = [run EXCEPT ![r] = IdleRun],
             UNCHANGED <<documentColumns, counters, purgeColumns>>
      PROVE  TypeOK' /\ RunsHaveDocument'
  BY <1>3
<1>4. ASSUME NEW d \in Document, LeaseExpires(d) \/ ConfirmDocument(d) \/ ClearStalePending(d)
      PROVE  TypeOK' /\ RunsHaveDocument'
  BY <1>4 DEF LeaseExpires, ConfirmDocument, ClearStalePending
<1>5. ASSUME NEW l \in Library, NEW date \in {"later", "due"}, MarkLibraryForPurge(l, date)
      PROVE  TypeOK' /\ RunsHaveDocument'
  BY <1>5 DEF MarkLibraryForPurge
<1>6. ASSUME NEW l \in Library, PurgeDatePasses(l) \/ ReviveByCron(l)
      PROVE  TypeOK' /\ RunsHaveDocument'
  BY <1>6 DEF PurgeDatePasses, ReviveByCron, reviveLibrary
<1>7. ASSUME NEW r \in Run, LoseLease(r) \/ RunDies(r)
      PROVE  TypeOK' /\ RunsHaveDocument'
  BY <1>7, <1>3 DEF LoseLease, RunDies
<1> QED
  BY <1>1, <1>2, <1>7, <1>4, <1>5, <1>6 DEF BookkeepingStep

(* A library none of whose rows, pages and counters change stays exact.    *)
LEMMA FrameLibrary ==
    ASSUME NEW l \in Library, LibraryOK(l),
           Settled(l)' = Settled(l), InFlight(l)' = InFlight(l),
           \A d \in Settled(l) \cup InFlight(l) : billable_pages'[d] = billable_pages[d],
           page_count'[l] = page_count[l],
           pages_reserved'[l] = pages_reserved[l],
           doc_count'[l] = doc_count[l]
    PROVE  LibraryOK(l)'
<1>1. /\ AllUnits(Settled(l), billable_pages) = AllUnits(Settled(l), billable_pages')
      /\ Total(Settled(l), billable_pages) = Total(Settled(l), billable_pages')
  BY TotalCongruence
<1>2. /\ AllUnits(InFlight(l), billable_pages) = AllUnits(InFlight(l), billable_pages')
      /\ Total(InFlight(l), billable_pages) = Total(InFlight(l), billable_pages')
  BY TotalCongruence
<1> QED
  BY <1>1, <1>2 DEF LibraryOK, FiniteRows, Exact

LEMMA BookkeepingRows ==
    ASSUME TypeOK, RowsOwned, RunsHaveDocument, BookkeepingStep
    PROVE  /\ UNCHANGED <<library_id, billable_pages, counters>>
           /\ RowsOwned'
           /\ \A l \in Library : Settled(l)' = Settled(l) /\ InFlight(l)' = InFlight(l)
<1>1. UNCHANGED <<library_id, billable_pages, counters>>
  BY DEF BookkeepingStep, ClaimForIngest, IngestThrows, LoseLease, RunDies, LeaseExpires,
         ConfirmDocument, ClearStalePending, MarkLibraryForPurge, PurgeDatePasses,
         ReviveByCron, documentColumns, counters
<1>2. ASSUME NEW d \in Document
      PROVE  /\ status'[d] = "absent" <=> status[d] = "absent"
             /\ status'[d] \in SettledStatus <=> status[d] \in SettledStatus
             /\ status'[d] \in InFlightStatus <=> status[d] \in InFlightStatus
  <2> USE DEF TypeOK, SettledStatus, InFlightStatus
  <2>1. ASSUME NEW r \in Run, NEW e \in Document, ClaimForIngest(r, e)
        PROVE  status' = [status EXCEPT ![e] = "processing"] /\ status[e] \in InFlightStatus
    BY <2>1 DEF ClaimForIngest, Claimable
  <2>2. ASSUME NEW e \in Document, ConfirmDocument(e)
        PROVE  status' = [status EXCEPT ![e] = "ready"] /\ status[e] \in SettledStatus
    BY <2>2 DEF ConfirmDocument
  <2>3. \/ \E r \in Run, e \in Document : ClaimForIngest(r, e)
        \/ \E e \in Document : ConfirmDocument(e)
        \/ UNCHANGED status
    BY DEF BookkeepingStep, IngestThrows, LoseLease, RunDies, LeaseExpires,
           ClearStalePending, MarkLibraryForPurge, PurgeDatePasses, ReviveByCron,
           documentColumns
  <2> QED
    BY <2>1, <2>2, <2>3
<1> QED
  BY <1>1, <1>2 DEF RowsOwned, Settled, InFlight

(* An upload reserves the pages of a new row.                              *)
LEMMA UploadKeepsInv ==
    ASSUME StoreInv, NEW l \in Library, NEW c \in Content, NEW d \in Document,
           Upload(l, c, d)
    PROVE  StoreInv'
<1> USE FilesStoreAssumption DEF StoreInv
<1>1. TypeOK'
  BY DEF TypeOK, Upload, reservePages, reviveLibrary, Status, InFlightStatus, LeaseState,
         PurgeDate, AttemptsBound
<1>2. RowsOwned' /\ RunsHaveDocument'
  BY DEF TypeOK, Upload, RowsOwned, RunsHaveDocument
<1>3. /\ d \notin InFlight(l) /\ InFlight(l)' = InFlight(l) \cup {d}
      /\ \A k \in Library \ {l} : InFlight(k)' = InFlight(k) /\ d \notin InFlight(k)
      /\ \A k \in Library : Settled(k)' = Settled(k) /\ d \notin Settled(k)
  BY DEF TypeOK, Upload, InFlight, Settled, InFlightStatus, SettledStatus
<1>4. /\ billable_pages'[d] = Pages[c] /\ Pages[c] \in Nat
      /\ \A e \in Document \ {d} : billable_pages'[e] = billable_pages[e]
      /\ UNCHANGED <<page_count, doc_count>>
      /\ pages_reserved'[l] = pages_reserved[l] + Pages[c]
      /\ \A k \in Library \ {l} : pages_reserved'[k] = pages_reserved[k]
  BY DEF TypeOK, Upload, reservePages
<1>5. ASSUME NEW k \in Library \ {l}
      PROVE  LibraryOK(k)'
  BY <1>3, <1>4, FrameLibrary DEF Settled, InFlight
<1>6. LibraryOK(l)'
  <2>1. /\ AllUnits(Settled(l), billable_pages') = AllUnits(Settled(l), billable_pages)
        /\ Total(Settled(l), billable_pages') = Total(Settled(l), billable_pages)
    BY <1>3, <1>4, TotalCongruence DEF Settled
  <2>2. /\ AllUnits(InFlight(l), billable_pages') = AllUnits(InFlight(l), billable_pages)
        /\ Total(InFlight(l), billable_pages') = Total(InFlight(l), billable_pages)
    BY <1>3, <1>4, TotalCongruence DEF InFlight
  <2>3. /\ IsFiniteSet(AllUnits(InFlight(l) \cup {d}, billable_pages'))
        /\ Total(InFlight(l) \cup {d}, billable_pages')
             = Total(InFlight(l), billable_pages') + Pages[c]
    <3>1. IsFiniteSet(AllUnits(InFlight(l), billable_pages'))
      BY <2>2 DEF LibraryOK, FiniteRows
    <3>2. d \notin InFlight(l) /\ billable_pages'[d] \in Nat /\ billable_pages'[d] = Pages[c]
      BY <1>3, <1>4
    <3> QED
      BY <3>1, <3>2, TotalAdd
  <2> QED
    BY <1>3, <1>4, <2>1, <2>2, <2>3 DEF LibraryOK, FiniteRows, Exact
<1> QED
  BY <1>1, <1>2, <1>5, <1>6

(* What is left of a library's reservation when one of its rows in flight  *)
(* is settled, fails or goes: greatest(.., 0) never bites.                 *)
LEMMA LeavesInFlight ==
    ASSUME TypeOK, NEW l \in Library, LibraryOK(l), NEW d \in InFlight(l)
    PROVE  /\ IsFiniteSet(AllUnits(InFlight(l) \ {d}, billable_pages))
           /\ Total(InFlight(l) \ {d}, billable_pages)
                = Floored(pages_reserved[l], billable_pages[d])
<1>1. billable_pages[d] \in Nat
  BY DEF TypeOK, InFlight
<1>2. /\ IsFiniteSet(AllUnits(InFlight(l) \ {d}, billable_pages))
      /\ Total(InFlight(l), billable_pages)
           = Total(InFlight(l) \ {d}, billable_pages) + billable_pages[d]
  BY <1>1, TotalRemove DEF LibraryOK, FiniteRows
<1>3. Total(InFlight(l) \ {d}, billable_pages) \in Nat
  BY <1>2, TotalType
<1> QED
  BY <1>1, <1>2, <1>3 DEF LibraryOK, Exact, Floored

(* The same for its stored pages when a settled row goes.                  *)
LEMMA LeavesSettled ==
    ASSUME TypeOK, NEW l \in Library, LibraryOK(l), NEW d \in Settled(l)
    PROVE  /\ IsFiniteSet(Settled(l) \ {d})
           /\ IsFiniteSet(AllUnits(Settled(l) \ {d}, billable_pages))
           /\ Total(Settled(l) \ {d}, billable_pages)
                = Floored(page_count[l], billable_pages[d])
           /\ Cardinality(Settled(l) \ {d}) = Floored(doc_count[l], 1)
<1>1. billable_pages[d] \in Nat
  BY DEF TypeOK, Settled
<1>2. /\ IsFiniteSet(AllUnits(Settled(l) \ {d}, billable_pages))
      /\ Total(Settled(l), billable_pages)
           = Total(Settled(l) \ {d}, billable_pages) + billable_pages[d]
  BY <1>1, TotalRemove DEF LibraryOK, FiniteRows
<1>3. Total(Settled(l) \ {d}, billable_pages) \in Nat
  BY <1>2, TotalType
<1>4. /\ IsFiniteSet(Settled(l) \ {d})
      /\ Cardinality(Settled(l) \ {d}) = Cardinality(Settled(l)) - 1
  BY FS_RemoveElement DEF LibraryOK, FiniteRows
<1>5. Cardinality(Settled(l) \ {d}) \in Nat /\ Cardinality(Settled(l)) \in Nat
  BY <1>4, FS_CardinalityType DEF LibraryOK, FiniteRows
<1> QED
  BY <1>1, <1>2, <1>3, <1>4, <1>5 DEF LibraryOK, Exact, Floored

(* And when a row is settled.                                              *)
LEMMA EntersSettled ==
    ASSUME TypeOK, NEW l \in Library, LibraryOK(l), NEW d \in Document, d \notin Settled(l)
    PROVE  /\ IsFiniteSet(Settled(l) \cup {d})
           /\ IsFiniteSet(AllUnits(Settled(l) \cup {d}, billable_pages))
           /\ Total(Settled(l) \cup {d}, billable_pages) = page_count[l] + billable_pages[d]
           /\ Cardinality(Settled(l) \cup {d}) = doc_count[l] + 1
<1>1. billable_pages[d] \in Nat
  BY DEF TypeOK
<1>2. /\ IsFiniteSet(Settled(l))
      /\ IsFiniteSet(AllUnits(Settled(l), billable_pages))
      /\ page_count[l] = Total(Settled(l), billable_pages)
      /\ doc_count[l] = Cardinality(Settled(l))
  BY DEF LibraryOK, FiniteRows, Exact
<1>3. /\ IsFiniteSet(AllUnits(Settled(l) \cup {d}, billable_pages))
      /\ Total(Settled(l) \cup {d}, billable_pages)
           = Total(Settled(l), billable_pages) + billable_pages[d]
  BY <1>1, <1>2, TotalAdd
<1>4. /\ IsFiniteSet(Settled(l) \cup {d})
      /\ Cardinality(Settled(l) \cup {d}) = Cardinality(Settled(l)) + 1
  BY <1>2, FS_AddElement
<1> QED
  BY <1>2, <1>3, <1>4

(* A commit moves the pages of its row from the reservation to the stored  *)
(* pages (settlePages).                                                    *)
LEMMA CommitKeepsInv ==
    ASSUME StoreInv, NEW r \in Run, NEW s \in SettledStatus, NEW ackLost \in BOOLEAN,
           CommitIngest(r, s, ackLost)
    PROVE  StoreInv'
<1> USE FilesStoreAssumption DEF StoreInv
<1>1. PICK d \in Document, l \in Library :
        d = run[r].doc /\ l = library_id[d] /\ status[d] = "processing"
  <2>1. run[r].doc \in Document /\ status[run[r].doc] = "processing"
    BY DEF CommitIngest, HoldsLease, RunsHaveDocument
  <2> QED
    BY <2>1 DEF TypeOK, RowsOwned
<1>2. /\ status' = [status EXCEPT ![d] = s]
      /\ settlePages(l, billable_pages[d])
      /\ UNCHANGED <<library_id, billable_pages>>
  BY <1>1 DEF CommitIngest
<1>3. TypeOK'
  BY <1>1 DEF TypeOK, CommitIngest, settlePages, Floored, Status, SettledStatus,
     InFlightStatus, LeaseState, RunState, IdleRun, purgeColumns
<1>4. RowsOwned' /\ RunsHaveDocument'
  <2>1. RowsOwned'
    BY <1>1, <1>2 DEF TypeOK, RowsOwned, SettledStatus
  <2>2. RunsHaveDocument'
    BY <1>1 DEF TypeOK, CommitIngest, RunsHaveDocument, IdleRun
  <2> QED
    BY <2>1, <2>2
<1>5. /\ d \in InFlight(l) /\ InFlight(l)' = InFlight(l) \ {d}
      /\ d \notin Settled(l) /\ Settled(l)' = Settled(l) \cup {d}
      /\ \A k \in Library \ {l} : InFlight(k)' = InFlight(k) /\ Settled(k)' = Settled(k)
  BY <1>1, <1>2 DEF TypeOK, InFlight, Settled, InFlightStatus, SettledStatus
<1>6. /\ pages_reserved'[l] = Floored(pages_reserved[l], billable_pages[d])
      /\ page_count'[l] = page_count[l] + billable_pages[d]
      /\ doc_count'[l] = doc_count[l] + 1
      /\ \A k \in Library \ {l} : /\ pages_reserved'[k] = pages_reserved[k]
                                  /\ page_count'[k] = page_count[k]
                                  /\ doc_count'[k] = doc_count[k]
  BY <1>1, <1>2 DEF TypeOK, settlePages
<1>7. ASSUME NEW k \in Library \ {l}
      PROVE  LibraryOK(k)'
  BY <1>2, <1>5, <1>6, FrameLibrary
<1>8. LibraryOK(l)'
  <2>1. /\ IsFiniteSet(AllUnits(InFlight(l) \ {d}, billable_pages))
        /\ Total(InFlight(l) \ {d}, billable_pages)
             = Floored(pages_reserved[l], billable_pages[d])
    BY <1>1, <1>5, LeavesInFlight
  <2>2. /\ IsFiniteSet(Settled(l) \cup {d})
        /\ IsFiniteSet(AllUnits(Settled(l) \cup {d}, billable_pages))
        /\ Total(Settled(l) \cup {d}, billable_pages) = page_count[l] + billable_pages[d]
        /\ Cardinality(Settled(l) \cup {d}) = doc_count[l] + 1
    BY <1>1, <1>5, EntersSettled
  <2> QED
    BY <1>2, <1>5, <1>6, <2>1, <2>2 DEF LibraryOK, FiniteRows, Exact
<1> QED
  BY <1>1, <1>3, <1>4, <1>7, <1>8

(* A failure gives the reservation back when it is final, and only then.   *)
LEMMA FailKeepsInv ==
    ASSUME StoreInv, NEW r \in Run, FailIngest(r)
    PROVE  StoreInv'
<1> USE FilesStoreAssumption DEF StoreInv
<1>1. PICK d \in Document, again \in BOOLEAN :
        d = run[r].doc /\ again = (run[r].retryable /\ attempts[d] < MaxAttempts)
  BY DEF FailIngest, RunsHaveDocument
<1>2. RunsHaveDocument' /\ run' \in [Run -> RunState]
  BY DEF FailIngest, RunsHaveDocument, TypeOK, RunState, IdleRun
<1>3. CASE UNCHANGED <<documentColumns, counters, purgeColumns>>
  <2>1. TypeOK' /\ RowsOwned'
    BY <1>2, <1>3 DEF TypeOK, RowsOwned, documentColumns, counters, purgeColumns
  <2>2. ASSUME NEW k \in Library
        PROVE  LibraryOK(k)'
    BY <1>3, FrameLibrary DEF documentColumns, counters, Settled, InFlight
  <2> QED
    BY <1>2, <2>1, <2>2
<1>4. CASE /\ status[d] \in InFlightStatus
           /\ status' = [status EXCEPT ![d] = IF again THEN "queued" ELSE "error"]
           /\ lease_until' = [lease_until EXCEPT ![d] = "null"]
           /\ run_token' = [run_token EXCEPT ![d] = NoRun]
           /\ IF again THEN UNCHANGED counters ELSE releasePages(library_id[d], billable_pages[d])
           /\ UNCHANGED <<library_id, content_sha256, billable_pages, pending_gz,
                          attempts, purgeColumns>>
  <2>1. PICK l \in Library : l = library_id[d]
    BY <1>1, <1>4 DEF TypeOK, RowsOwned, InFlightStatus
  <2>2. pages_reserved' \in [Library -> Nat] /\ UNCHANGED <<page_count, doc_count>>
    BY <1>1, <1>4, <2>1 DEF TypeOK, releasePages, Floored, counters
  <2>3. TypeOK' /\ RowsOwned'
    BY <1>1, <1>2, <1>4, <2>2 DEF TypeOK, RowsOwned, Status, InFlightStatus, LeaseState,
       purgeColumns
  <2>4. /\ d \in InFlight(l)
        /\ InFlight(l)' = IF again THEN InFlight(l) ELSE InFlight(l) \ {d}
        /\ \A k \in Library \ {l} : InFlight(k)' = InFlight(k)
        /\ \A k \in Library : Settled(k)' = Settled(k)
    BY <1>1, <1>4, <2>1 DEF TypeOK, InFlight, Settled, InFlightStatus, SettledStatus
  <2>5. /\ pages_reserved'[l] = IF again THEN pages_reserved[l]
                                ELSE Floored(pages_reserved[l], billable_pages[d])
        /\ \A k \in Library \ {l} : pages_reserved'[k] = pages_reserved[k]
    BY <1>4, <2>1 DEF TypeOK, releasePages, counters
  <2>6. ASSUME NEW k \in Library, k # l \/ again
        PROVE  LibraryOK(k)'
    BY <1>4, <2>2, <2>4, <2>5, <2>6, FrameLibrary
  <2>7. ASSUME ~again
        PROVE  LibraryOK(l)'
    <3>1. /\ IsFiniteSet(AllUnits(InFlight(l) \ {d}, billable_pages))
          /\ Total(InFlight(l) \ {d}, billable_pages)
               = Floored(pages_reserved[l], billable_pages[d])
      BY <2>4, LeavesInFlight
    <3>2. /\ InFlight(l)' = InFlight(l) \ {d}
          /\ Settled(l)' = Settled(l)
          /\ pages_reserved'[l] = Floored(pages_reserved[l], billable_pages[d])
          /\ UNCHANGED <<billable_pages, page_count, doc_count>>
      BY <1>4, <2>1, <2>2, <2>4, <2>5, <2>7
    <3> QED
      BY <3>1, <3>2 DEF LibraryOK, FiniteRows, Exact
  <2> QED
    BY <1>2, <2>1, <2>3, <2>6, <2>7
<1> QED
  BY <1>1, <1>3, <1>4 DEF FailIngest

(* Deleting rows keeps types and ownership.                                *)
LEMMA DeleteRowsKeepsRows ==
    ASSUME TypeOK, RowsOwned, NEW D \in SUBSET Document, DeleteRows(D)
    PROVE  /\ status' \in [Document -> Status]
           /\ library_id' \in [Document -> Library \cup {NoLibrary}]
           /\ content_sha256' \in [Document -> Content \cup {NoContent}]
           /\ billable_pages' \in [Document -> Nat]
           /\ pending_gz' \in [Document -> BOOLEAN]
           /\ run_token' \in [Document -> Run \cup {NoRun}]
           /\ lease_until' \in [Document -> LeaseState]
           /\ attempts' \in [Document -> 0 .. AttemptsBound]
           /\ RowsOwned'
           /\ \A l \in Library : /\ InFlight(l)' = InFlight(l) \ D
                                /\ Settled(l)' = Settled(l) \ D
           /\ \A d \in Document \ D : billable_pages'[d] = billable_pages[d]
<1> USE FilesStoreAssumption DEF DeleteRows, TypeOK
<1>1. AttemptsBound \in Nat
  BY DEF AttemptsBound
<1>2. status' \in [Document -> Status] /\ lease_until' \in [Document -> LeaseState]
  BY DEF Status, LeaseState
<1>3. attempts' \in [Document -> 0 .. AttemptsBound]
  BY <1>1
<1>4. RowsOwned'
  BY DEF RowsOwned
<1>5. \A l \in Library : InFlight(l)' = InFlight(l) \ D /\ Settled(l)' = Settled(l) \ D
  BY DEF InFlight, Settled, InFlightStatus, SettledStatus
<1> QED
  BY <1>2, <1>3, <1>4, <1>5

(* A delete gives back what the status of its row was holding.             *)
LEMMA DeleteKeepsInv ==
    ASSUME StoreInv, NEW d \in Document, DeleteDocument(d)
    PROVE  StoreInv'
<1> USE DEF StoreInv
<1>1. PICK l \in Library : l = library_id[d]
  BY DEF DeleteDocument, RowsOwned, TypeOK
<1>2. DeleteRows({d}) /\ UNCHANGED <<purgeColumns, run>>
  BY DEF DeleteDocument
<1>3. {d} \in SUBSET Document
  OBVIOUS
<1>4. CASE status[d] \in SettledStatus
  <2>1. forgetPages(l, billable_pages[d])
    BY <1>1, <1>4 DEF DeleteDocument, InFlightStatus, SettledStatus
  <2>2. /\ page_count' = [page_count EXCEPT ![l] = Floored(@, billable_pages[d])]
        /\ doc_count' = [doc_count EXCEPT ![l] = Floored(@, 1)]
        /\ UNCHANGED pages_reserved
    BY <2>1 DEF forgetPages
  <2>3. page_count' \in [Library -> Nat] /\ doc_count' \in [Library -> Nat]
    BY <2>2 DEF TypeOK, Floored
  <2>4. TypeOK' /\ RowsOwned' /\ RunsHaveDocument'
    BY <1>2, <1>3, <2>2, <2>3, DeleteRowsKeepsRows DEF TypeOK, purgeColumns, RunsHaveDocument
  <2>5. d \in Settled(l) /\ \A k \in Library : d \notin InFlight(k)
    BY <1>1, <1>4 DEF Settled, InFlight, SettledStatus, InFlightStatus
  <2>6. \A k \in Library \ {l} : d \notin Settled(k)
    BY <1>1 DEF Settled
  <2>7. ASSUME NEW k \in Library \ {l}
        PROVE  LibraryOK(k)'
    <3>1. /\ Settled(k)' = Settled(k) /\ InFlight(k)' = InFlight(k)
          /\ \A e \in Settled(k) \cup InFlight(k) : billable_pages'[e] = billable_pages[e]
      BY <1>2, <1>3, <2>5, <2>6, DeleteRowsKeepsRows DEF Settled, InFlight
    <3>2. page_count'[k] = page_count[k] /\ doc_count'[k] = doc_count[k]
          /\ pages_reserved'[k] = pages_reserved[k]
      BY <2>2 DEF TypeOK
    <3> QED
      BY <3>1, <3>2, FrameLibrary
  <2>8. LibraryOK(l)'
    <3>1. /\ Settled(l)' = Settled(l) \ {d} /\ InFlight(l)' = InFlight(l)
          /\ \A e \in Document \ {d} : billable_pages'[e] = billable_pages[e]
      <4>1. InFlight(l) \ {d} = InFlight(l)
        BY <2>5
      <4> QED
        BY <1>2, <1>3, <4>1, DeleteRowsKeepsRows
    <3>2. /\ IsFiniteSet(Settled(l) \ {d})
          /\ IsFiniteSet(AllUnits(Settled(l) \ {d}, billable_pages))
          /\ Total(Settled(l) \ {d}, billable_pages) = page_count'[l]
          /\ Cardinality(Settled(l) \ {d}) = doc_count'[l]
      BY <2>2, <2>5, LeavesSettled DEF TypeOK
    <3>3. /\ AllUnits(Settled(l) \ {d}, billable_pages') = AllUnits(Settled(l) \ {d}, billable_pages)
          /\ Total(Settled(l) \ {d}, billable_pages') = Total(Settled(l) \ {d}, billable_pages)
      <4>1. \A e \in Settled(l) \ {d} : billable_pages[e] = billable_pages'[e]
        BY <3>1 DEF Settled
      <4> QED
        BY <4>1, TotalCongruence
    <3>4. /\ AllUnits(InFlight(l), billable_pages') = AllUnits(InFlight(l), billable_pages)
          /\ Total(InFlight(l), billable_pages') = Total(InFlight(l), billable_pages)
      BY <3>1, <2>5, TotalCongruence DEF InFlight
    <3> QED
      BY <2>2, <3>1, <3>2, <3>3, <3>4 DEF LibraryOK, FiniteRows, Exact
  <2> QED
    BY <2>4, <2>7, <2>8
<1>5. CASE status[d] \in InFlightStatus
  <2>1. releasePages(l, billable_pages[d])
    BY <1>1, <1>5 DEF DeleteDocument, InFlightStatus, SettledStatus
  <2>2. /\ pages_reserved' = [pages_reserved EXCEPT ![l] = Floored(@, billable_pages[d])]
        /\ UNCHANGED <<page_count, doc_count>>
    BY <2>1 DEF releasePages
  <2>3. pages_reserved' \in [Library -> Nat]
    BY <2>2 DEF TypeOK, Floored
  <2>4. TypeOK' /\ RowsOwned' /\ RunsHaveDocument'
    BY <1>2, <1>3, <2>2, <2>3, DeleteRowsKeepsRows DEF TypeOK, purgeColumns, RunsHaveDocument
  <2>5. d \in InFlight(l) /\ \A k \in Library : d \notin Settled(k)
    BY <1>1, <1>5 DEF Settled, InFlight, SettledStatus, InFlightStatus
  <2>6. \A k \in Library \ {l} : d \notin InFlight(k)
    BY <1>1 DEF InFlight
  <2>7. ASSUME NEW k \in Library \ {l}
        PROVE  LibraryOK(k)'
    <3>1. /\ Settled(k)' = Settled(k) /\ InFlight(k)' = InFlight(k)
          /\ \A e \in Settled(k) \cup InFlight(k) : billable_pages'[e] = billable_pages[e]
      BY <1>2, <1>3, <2>5, <2>6, DeleteRowsKeepsRows DEF Settled, InFlight
    <3>2. page_count'[k] = page_count[k] /\ doc_count'[k] = doc_count[k]
          /\ pages_reserved'[k] = pages_reserved[k]
      BY <2>2 DEF TypeOK
    <3> QED
      BY <3>1, <3>2, FrameLibrary
  <2>8. LibraryOK(l)'
    <3>1. /\ InFlight(l)' = InFlight(l) \ {d} /\ Settled(l)' = Settled(l)
          /\ \A e \in Document \ {d} : billable_pages'[e] = billable_pages[e]
      <4>1. Settled(l) \ {d} = Settled(l)
        BY <2>5
      <4> QED
        BY <1>2, <1>3, <4>1, DeleteRowsKeepsRows
    <3>2. /\ IsFiniteSet(AllUnits(InFlight(l) \ {d}, billable_pages))
          /\ Total(InFlight(l) \ {d}, billable_pages) = pages_reserved'[l]
      BY <2>2, <2>5, LeavesInFlight DEF TypeOK
    <3>3. /\ AllUnits(InFlight(l) \ {d}, billable_pages') = AllUnits(InFlight(l) \ {d}, billable_pages)
          /\ Total(InFlight(l) \ {d}, billable_pages') = Total(InFlight(l) \ {d}, billable_pages)
      <4>1. \A e \in InFlight(l) \ {d} : billable_pages[e] = billable_pages'[e]
        BY <3>1 DEF InFlight
      <4> QED
        BY <4>1, TotalCongruence
    <3>4. /\ AllUnits(Settled(l), billable_pages') = AllUnits(Settled(l), billable_pages)
          /\ Total(Settled(l), billable_pages') = Total(Settled(l), billable_pages)
      BY <3>1, <2>5, TotalCongruence DEF Settled
    <3> QED
      BY <2>2, <3>1, <3>2, <3>3, <3>4 DEF LibraryOK, FiniteRows, Exact
  <2> QED
    BY <2>4, <2>7, <2>8
<1>6. CASE status[d] \notin SettledStatus /\ status[d] \notin InFlightStatus
  <2>1. UNCHANGED <<page_count, pages_reserved, doc_count>>
    BY <1>6 DEF DeleteDocument, counters, InFlightStatus, SettledStatus
  <2>2. TypeOK' /\ RowsOwned' /\ RunsHaveDocument'
    BY <1>2, <1>3, <2>1, DeleteRowsKeepsRows DEF TypeOK, purgeColumns, RunsHaveDocument
  <2>3. ASSUME NEW k \in Library
        PROVE  LibraryOK(k)'
    <3>1. d \notin Settled(k) /\ d \notin InFlight(k)
      BY <1>6 DEF Settled, InFlight
    <3>2. /\ Settled(k)' = Settled(k) /\ InFlight(k)' = InFlight(k)
          /\ \A e \in Settled(k) \cup InFlight(k) : billable_pages'[e] = billable_pages[e]
      BY <1>2, <1>3, <3>1, DeleteRowsKeepsRows DEF Settled, InFlight
    <3> QED
      BY <2>1, <3>2, FrameLibrary
  <2> QED
    BY <2>2, <2>3
<1> QED
  BY <1>4, <1>5, <1>6

(* A purge leaves a library with nothing and counters of nothing.          *)
LEMMA PurgeKeepsInv ==
    ASSUME StoreInv, NEW l \in Library, PurgeLibrary(l)
    PROVE  StoreInv'
<1> USE FilesStoreAssumption DEF StoreInv
<1> DEFINE D == {d \in Document : library_id[d] = l}
<1>1. D \in SUBSET Document /\ DeleteRows(D)
  BY DEF PurgeLibrary
<1> HIDE DEF D
<1>2. /\ page_count' = [page_count EXCEPT ![l] = 0]
      /\ pages_reserved' = [pages_reserved EXCEPT ![l] = 0]
      /\ doc_count' = [doc_count EXCEPT ![l] = 0]
      /\ purged_at' = [purged_at EXCEPT ![l] = TRUE]
      /\ UNCHANGED <<purge_after, run>>
  BY DEF PurgeLibrary
<1>3. /\ page_count' \in [Library -> Nat]
      /\ pages_reserved' \in [Library -> Nat]
      /\ doc_count' \in [Library -> Nat]
      /\ purged_at' \in [Library -> BOOLEAN]
  BY <1>2 DEF TypeOK
<1>4. TypeOK' /\ RowsOwned' /\ RunsHaveDocument'
  <2>1. purge_after' \in [Library -> PurgeDate] /\ run' \in [Run -> RunState]
    BY <1>2 DEF TypeOK
  <2>2. RunsHaveDocument'
    BY <1>2 DEF RunsHaveDocument
  <2> QED
    BY <1>1, <1>3, <2>1, <2>2, DeleteRowsKeepsRows DEF TypeOK
<1>5. ASSUME NEW k \in Library \ {l}
      PROVE  LibraryOK(k)'
  <2>1. \A d \in Settled(k) \cup InFlight(k) : d \in Document \ D
    BY DEF Settled, InFlight, D
  <2>2. Settled(k) \ D = Settled(k) /\ InFlight(k) \ D = InFlight(k)
    BY <2>1
  <2>3. /\ Settled(k)' = Settled(k) /\ InFlight(k)' = InFlight(k)
        /\ \A e \in Settled(k) \cup InFlight(k) : billable_pages'[e] = billable_pages[e]
    BY <1>1, <2>1, <2>2, DeleteRowsKeepsRows
  <2>4. /\ page_count'[k] = page_count[k] /\ doc_count'[k] = doc_count[k]
        /\ pages_reserved'[k] = pages_reserved[k]
    BY <1>2 DEF TypeOK
  <2> QED
    BY <2>3, <2>4, FrameLibrary
<1>6. LibraryOK(l)'
  <2>1. Settled(l) \ D = {} /\ InFlight(l) \ D = {}
    BY DEF Settled, InFlight, D
  <2>2. Settled(l)' = {} /\ InFlight(l)' = {}
    BY <1>1, <2>1, DeleteRowsKeepsRows
  <2>3. page_count'[l] = 0 /\ pages_reserved'[l] = 0 /\ doc_count'[l] = 0
    BY <1>2 DEF TypeOK
  <2>4. IsFiniteSet(AllUnits({}, billable_pages')) /\ Total({}, billable_pages') = 0
    BY TotalEmpty
  <2>5. IsFiniteSet({}) /\ Cardinality({}) = 0
    BY FS_EmptySet
  <2> QED
    BY <2>2, <2>3, <2>4, <2>5 DEF LibraryOK, FiniteRows, Exact
<1> QED
  BY <1>4, <1>5, <1>6

(* The recount finds nothing to correct.                                   *)
LEMMA RecountChangesNothing ==
    ASSUME StoreInv, RecountLibraries
    PROVE  UNCHANGED vars
<1>1. ASSUME NEW l \in Library
      PROVE  /\ page_count'[l] = page_count[l]
             /\ pages_reserved'[l] = pages_reserved[l]
             /\ doc_count'[l] = doc_count[l]
  BY DEF StoreInv, LibraryOK, Exact, RecountLibraries
<1>2. /\ page_count' = [l \in Library |-> page_count'[l]]
      /\ pages_reserved' = [l \in Library |-> pages_reserved'[l]]
      /\ doc_count' = [l \in Library |-> doc_count'[l]]
  BY DEF RecountLibraries
<1>3. /\ page_count = [l \in Library |-> page_count[l]]
      /\ pages_reserved = [l \in Library |-> pages_reserved[l]]
      /\ doc_count = [l \in Library |-> doc_count[l]]
  BY DEF StoreInv, TypeOK
<1>4. UNCHANGED counters
  BY <1>1, <1>2, <1>3 DEF counters
<1> QED
  BY <1>4 DEF RecountLibraries, vars, documentColumns, purgeColumns

LEMMA StoreInvFrame ==
    ASSUME StoreInv, UNCHANGED vars
    PROVE  StoreInv'
BY DEF StoreInv, TypeOK, RowsOwned, RunsHaveDocument, LibraryOK, FiniteRows, Exact,
       Settled, InFlight, vars, documentColumns, counters, purgeColumns

LEMMA StoreInvInit ==
    ASSUME Init
    PROVE  StoreInv
<1> USE FilesStoreAssumption DEF Init
<1>1. TypeOK
  BY DEF TypeOK, Status, LeaseState, PurgeDate, RunState, IdleRun, AttemptsBound
<1>2. RowsOwned /\ RunsHaveDocument
  BY DEF RowsOwned, RunsHaveDocument, IdleRun
<1>3. ASSUME NEW l \in Library
      PROVE  LibraryOK(l)
  <2>1. Settled(l) = {} /\ InFlight(l) = {}
    BY DEF Settled, InFlight, SettledStatus, InFlightStatus
  <2> QED
    BY <2>1, TotalEmpty, FS_EmptySet DEF LibraryOK, FiniteRows, Exact
<1> QED
  BY <1>1, <1>2, <1>3 DEF StoreInv

LEMMA StoreInvStep ==
    ASSUME StoreInv, [Next]_vars
    PROVE  StoreInv'
<1>1. ASSUME BookkeepingStep
      PROVE  StoreInv'
  <2>1. TypeOK' /\ RunsHaveDocument'
    BY <1>1, BookkeepingType DEF StoreInv
  <2>2. /\ UNCHANGED <<library_id, billable_pages, counters>>
        /\ RowsOwned'
        /\ \A l \in Library : Settled(l)' = Settled(l) /\ InFlight(l)' = InFlight(l)
    BY <1>1, BookkeepingRows DEF StoreInv
  <2>3. ASSUME NEW l \in Library
        PROVE  LibraryOK(l)'
    BY <2>2, FrameLibrary DEF StoreInv, counters
  <2> QED
    BY <2>1, <2>2, <2>3 DEF StoreInv
<1>2. ASSUME RecountLibraries
      PROVE  StoreInv'
  BY <1>2, RecountChangesNothing, StoreInvFrame
<1>3. CASE UNCHANGED vars
  BY <1>3, StoreInvFrame
<1> QED
  BY <1>1, <1>2, <1>3, NextCases, UploadKeepsInv, CommitKeepsInv, FailKeepsInv,
     DeleteKeepsInv, PurgeKeepsInv

(* StoreInv is an invariant of every reachable state.                      *)
THEOREM StoreInvariant == Spec => []StoreInv
<1>1. Init => StoreInv
  BY StoreInvInit
<1>2. StoreInv /\ [Next]_vars => StoreInv'
  BY StoreInvStep
<1> QED
  BY <1>1, <1>2, PTL DEF Spec

(* Type correctness.  It is not inductive alone: that a recount writes     *)
(* natural numbers needs the rows of a library to be finitely many.        *)
THEOREM TypeCorrect == Spec => []TypeOK
<1>1. StoreInv => TypeOK
  BY DEF StoreInv
<1> QED
  BY <1>1, StoreInvariant, PTL

(* No page is ever charged twice, dropped or given back twice, by any      *)
(* number of overlapping, crashing, late or repeated operations.           *)
THEOREM CountersAreExact == Spec => []CountersExact
<1>1. StoreInv => CountersExact
  BY DEF StoreInv, LibraryOK, Exact, CountersExact
<1> QED
  BY <1>1, StoreInvariant, PTL
-----------------------------------------------------------------------------
(* QueueIntact for one document.                                           *)
RowIntact(d) ==
    /\ status[d] \in InFlightStatus => pending_gz[d]
    /\ status[d] \in SettledStatus => ~pending_gz[d]
    /\ status[d] = "processing" <=> lease_until[d] # "null"
    /\ status[d] = "processing" <=> run_token[d] # NoRun

(* The columns that QueueIntact reads.                                     *)
queueColumns == <<status, pending_gz, lease_until, run_token>>

LEMMA DeleteRowsKeepsQueue ==
    ASSUME NEW D \in SUBSET Document, DeleteRows(D), NEW d \in Document, RowIntact(d)
    PROVE  RowIntact(d)'
BY DEF DeleteRows, RowIntact, InFlightStatus, SettledStatus

LEMMA QueueStep ==
    ASSUME StoreInv, \A d \in Document : RowIntact(d), [Next]_vars, NEW d \in Document
    PROVE  RowIntact(d)'
<1> USE FilesStoreAssumption DEF StoreInv, InFlightStatus, SettledStatus
<1>1. ASSUME NEW l \in Library, NEW c \in Content, NEW e \in Document, Upload(l, c, e)
      PROVE  RowIntact(d)'
  BY <1>1 DEF Upload, RowIntact, TypeOK
<1>2. ASSUME NEW r \in Run, NEW e \in Document, ClaimForIngest(r, e)
      PROVE  RowIntact(d)'
  BY <1>2 DEF ClaimForIngest, Claimable, RowIntact, TypeOK
<1>3. ASSUME NEW r \in Run, NEW s \in SettledStatus, NEW ackLost \in BOOLEAN,
             CommitIngest(r, s, ackLost)
      PROVE  RowIntact(d)'
  <2>1. PICK e \in Document : e = run[r].doc
    BY <1>3 DEF CommitIngest, RunsHaveDocument
  <2>2. /\ status' = [status EXCEPT ![e] = s]
        /\ pending_gz' = [pending_gz EXCEPT ![e] = FALSE]
        /\ lease_until' = [lease_until EXCEPT ![e] = "null"]
        /\ run_token' = [run_token EXCEPT ![e] = NoRun]
    BY <1>3, <2>1 DEF CommitIngest
  <2> QED
    BY <2>2 DEF RowIntact, TypeOK
<1>4. ASSUME NEW r \in Run, FailIngest(r)
      PROVE  RowIntact(d)'
  <2>1. PICK e \in Document : e = run[r].doc
    BY <1>4 DEF FailIngest, RunsHaveDocument
  <2>2. CASE UNCHANGED documentColumns
    BY <2>2 DEF documentColumns, RowIntact
  <2>3. CASE /\ status[e] \in InFlightStatus
             /\ \/ status' = [status EXCEPT ![e] = "queued"]
                \/ status' = [status EXCEPT ![e] = "error"]
             /\ lease_until' = [lease_until EXCEPT ![e] = "null"]
             /\ run_token' = [run_token EXCEPT ![e] = NoRun]
             /\ UNCHANGED pending_gz
    BY <2>3 DEF RowIntact, TypeOK
  <2> QED
    BY <1>4, <2>1, <2>2, <2>3 DEF FailIngest
<1>5. ASSUME NEW e \in Document, LeaseExpires(e) \/ ConfirmDocument(e) \/ ClearStalePending(e)
      PROVE  RowIntact(d)'
  BY <1>5 DEF LeaseExpires, ConfirmDocument, ClearStalePending, RowIntact, TypeOK
<1>6. ASSUME NEW e \in Document, DeleteDocument(e)
      PROVE  RowIntact(d)'
  BY <1>6, DeleteRowsKeepsQueue DEF DeleteDocument
<1>7. ASSUME NEW l \in Library, PurgeLibrary(l)
      PROVE  RowIntact(d)'
  <2>1. {e \in Document : library_id[e] = l} \in SUBSET Document
    OBVIOUS
  <2> QED
    BY <1>7, <2>1, DeleteRowsKeepsQueue DEF PurgeLibrary
<1>8. ASSUME UNCHANGED queueColumns
      PROVE  RowIntact(d)'
  BY <1>8 DEF queueColumns, RowIntact
<1>9. ASSUME NEW r \in Run, NEW retryable \in BOOLEAN,
             IngestThrows(r, retryable) \/ LoseLease(r) \/ RunDies(r)
      PROVE  UNCHANGED queueColumns
  BY <1>9 DEF IngestThrows, LoseLease, RunDies, documentColumns, queueColumns
<1>10. ASSUME NEW l \in Library, NEW date \in {"later", "due"},
              MarkLibraryForPurge(l, date) \/ PurgeDatePasses(l) \/ ReviveByCron(l)
       PROVE  UNCHANGED queueColumns
  BY <1>10 DEF MarkLibraryForPurge, PurgeDatePasses, ReviveByCron, documentColumns, queueColumns
<1>11. ASSUME RecountLibraries \/ UNCHANGED vars
       PROVE  UNCHANGED queueColumns
  BY <1>11 DEF RecountLibraries, documentColumns, queueColumns, vars
<1> QED
  BY <1>1, <1>2, <1>3, <1>4, <1>5, <1>6, <1>7, <1>8, <1>9, <1>10, <1>11
     DEF Next, RunStep, DocumentStep, LibraryStep

(* No document is ever stuck in the queue without its text, or with a      *)
(* lease or token of a run it is not being processed by, and no settled    *)
(* document keeps its text for ingest.                                     *)
THEOREM QueueStaysIntact == Spec => []QueueIntact
<1>1. Init => QueueIntact
  BY DEF Init, QueueIntact, InFlightStatus, SettledStatus
<1>2. StoreInv /\ QueueIntact /\ [Next]_vars => QueueIntact'
  BY QueueStep DEF QueueIntact, RowIntact
<1> QED
  BY <1>1, <1>2, StoreInvariant, PTL DEF Spec
-----------------------------------------------------------------------------
LEMMA PurgedStep ==
    ASSUME StoreInv, PurgedIsEmpty, [Next]_vars
    PROVE  PurgedIsEmpty'
<1> USE FilesStoreAssumption DEF StoreInv, PurgedIsEmpty
<1>1. ASSUME NEW l \in Library, NEW c \in Content, NEW e \in Document, Upload(l, c, e)
      PROVE  PurgedIsEmpty'
  BY <1>1 DEF Upload, reviveLibrary, TypeOK
<1>2. ASSUME NEW e \in Document, DeleteDocument(e)
      PROVE  PurgedIsEmpty'
  BY <1>2 DEF DeleteDocument, DeleteRows, purgeColumns
<1>3. ASSUME NEW l \in Library, PurgeLibrary(l)
      PROVE  PurgedIsEmpty'
  BY <1>3 DEF PurgeLibrary, DeleteRows, TypeOK
<1>4. ASSUME NEW l \in Library, ReviveByCron(l)
      PROVE  PurgedIsEmpty'
  BY <1>4 DEF ReviveByCron, reviveLibrary, documentColumns, TypeOK
<1>5. ASSUME UNCHANGED <<library_id, purged_at>>
      PROVE  PurgedIsEmpty'
  BY <1>5
<1>6. ASSUME NEW r \in Run, RunStep(r)
      PROVE  UNCHANGED <<library_id, purged_at>>
  BY <1>6 DEF RunStep, IngestThrows, CommitIngest, LoseLease, FailIngest, RunDies,
     documentColumns, purgeColumns
<1>7. ASSUME NEW e \in Document,
             \/ \E r \in Run : ClaimForIngest(r, e)
             \/ LeaseExpires(e) \/ ConfirmDocument(e) \/ ClearStalePending(e)
      PROVE  UNCHANGED <<library_id, purged_at>>
  BY <1>7 DEF ClaimForIngest, LeaseExpires, ConfirmDocument, ClearStalePending, purgeColumns
<1>8. ASSUME NEW l \in Library, NEW date \in {"later", "due"},
             MarkLibraryForPurge(l, date) \/ PurgeDatePasses(l)
      PROVE  UNCHANGED <<library_id, purged_at>>
  BY <1>8 DEF MarkLibraryForPurge, PurgeDatePasses, documentColumns
<1>9. ASSUME RecountLibraries \/ UNCHANGED vars
      PROVE  UNCHANGED <<library_id, purged_at>>
  BY <1>9 DEF RecountLibraries, documentColumns, purgeColumns, vars
<1> QED
  BY <1>1, <1>2, <1>3, <1>4, <1>5, <1>6, <1>7, <1>8, <1>9
     DEF Next, DocumentStep, LibraryStep

(* Nothing is ever left in, or slips into, a purged library.               *)
THEOREM PurgedStaysEmpty == Spec => []PurgedIsEmpty
<1>1. Init => PurgedIsEmpty
  BY DEF Init, PurgedIsEmpty
<1>2. StoreInv /\ PurgedIsEmpty /\ [Next]_vars => PurgedIsEmpty'
  BY PurgedStep
<1> QED
  BY <1>1, <1>2, StoreInvariant, PTL DEF Spec
-----------------------------------------------------------------------------
(* The caps.  What the two checks of files_reserve_pages read from the     *)
(* counters is what the documents really hold: within a library by Exact,  *)
(* over all libraries by TotalOfTotals, and leaving the purged libraries   *)
(* out of the sum loses nothing because they are empty.                    *)
Charged(l) == Settled(l) \cup InFlight(l)
AllCharged == {d \in Document : status[d] \in SettledStatus \cup InFlightStatus}

CapsInv ==
    /\ StoreInv
    /\ PurgedIsEmpty
    /\ IsFiniteSet(AllUnits(AllCharged, billable_pages))
    /\ \A l \in Library : Total(Charged(l), billable_pages) <= QuotaPages[l]
    /\ Total(AllCharged, billable_pages) <= GlobalPages

LEMMA LibraryUsage ==
    ASSUME StoreInv, NEW l \in Library
    PROVE  /\ IsFiniteSet(AllUnits(Charged(l), billable_pages))
           /\ Usage[l] = Total(Charged(l), billable_pages)
<1>1. Settled(l) \cap InFlight(l) = {}
  BY DEF Settled, InFlight, SettledStatus, InFlightStatus
<1>2. FiniteRows(l) /\ Exact(l)
  BY DEF StoreInv, LibraryOK
<1>3. /\ IsFiniteSet(AllUnits(Charged(l), billable_pages))
      /\ Total(Charged(l), billable_pages)
           = Total(Settled(l), billable_pages) + Total(InFlight(l), billable_pages)
  BY <1>1, <1>2, TotalUnion DEF Charged, FiniteRows
<1> QED
  BY <1>2, <1>3 DEF Exact, Usage

LEMMA GlobalUsage ==
    ASSUME CapsInv
    PROVE  Total(LiveLibraries, Usage) = Total(AllCharged, billable_pages)
<1> DEFINE P == [l \in Library |-> Charged(l)]
<1>1. UNION {P[l] : l \in Library} = AllCharged
  <2>1. \A d \in AllCharged : library_id[d] \in Library
    BY DEF CapsInv, StoreInv, RowsOwned, TypeOK, AllCharged, SettledStatus, InFlightStatus
  <2>2. \A d \in AllCharged : d \in Charged(library_id[d])
    BY DEF AllCharged, Charged, Settled, InFlight
  <2>3. \A l \in Library : Charged(l) \subseteq AllCharged
    BY DEF AllCharged, Charged, Settled, InFlight
  <2> QED
    BY <2>1, <2>2, <2>3
<1>2. \A k, l \in Library : k # l => P[k] \cap P[l] = {}
  BY DEF Charged, Settled, InFlight
<1>3. \A l \in Library : /\ IsFiniteSet(AllUnits(P[l], billable_pages))
                        /\ Usage[l] = Total(P[l], billable_pages)
  BY LibraryUsage DEF CapsInv
<1>4. Total(Library, Usage) = Total(AllCharged, billable_pages)
  <2>1. AllParts(Library, P) = AllCharged
    BY <1>1 DEF AllParts
  <2>2. IsFiniteSet(AllUnits(AllParts(Library, P), billable_pages))
    BY <2>1 DEF CapsInv
  <2> HIDE DEF P
  <2>3. Total(Library, Usage) = Total(AllParts(Library, P), billable_pages)
    BY <1>2, <1>3, <2>2, TotalOfTotals
  <2> QED
    BY <2>1, <2>3
<1>5. ASSUME NEW l \in Library \ LiveLibraries
      PROVE  Usage[l] = 0
  <2>1. Charged(l) = {}
    BY DEF LiveLibraries, CapsInv, PurgedIsEmpty, StoreInv, TypeOK, Charged, Settled,
       InFlight, RowsOwned, SettledStatus, InFlightStatus
  <2> QED
    BY <1>3, <2>1, TotalEmpty
<1>6. LiveLibraries \subseteq Library
  BY DEF LiveLibraries
<1> QED
  BY <1>4, <1>5, <1>6, TotalSkipsZeros

(* Every step but an upload only ends charges.                             *)
LEMMA OnlyUploadsCharge ==
    ASSUME StoreInv, [Next]_vars,
           ~ \E l \in Library, c \in Content, d \in Document : Upload(l, c, d),
           NEW d \in Document, d \in AllCharged'
    PROVE  /\ d \in AllCharged
           /\ library_id'[d] = library_id[d]
           /\ billable_pages'[d] = billable_pages[d]
<1> USE FilesStoreAssumption DEF StoreInv, AllCharged, InFlightStatus, SettledStatus
<1>1. ASSUME BookkeepingStep
      PROVE  /\ UNCHANGED <<library_id, billable_pages>>
             /\ \A l \in Library : Settled(l)' = Settled(l) /\ InFlight(l)' = InFlight(l)
  BY <1>1, BookkeepingRows
<1>2. CASE BookkeepingStep
  <2>1. library_id'[d] \in Library
    BY <1>2, BookkeepingRows, BookkeepingType DEF RowsOwned, TypeOK
  <2> QED
    BY <1>1, <1>2, <2>1 DEF Settled, InFlight
<1>3. ASSUME NEW r \in Run, NEW s \in SettledStatus, NEW ackLost \in BOOLEAN,
             CommitIngest(r, s, ackLost)
      PROVE  d \in AllCharged /\ UNCHANGED <<library_id, billable_pages>>
  <2>1. PICK e \in Document : e = run[r].doc /\ status[e] = "processing"
    BY <1>3 DEF CommitIngest, HoldsLease, RunsHaveDocument
  <2>2. status' = [status EXCEPT ![e] = s] /\ UNCHANGED <<library_id, billable_pages>>
    BY <1>3, <2>1 DEF CommitIngest
  <2> QED
    BY <2>1, <2>2 DEF TypeOK
<1>4. ASSUME NEW r \in Run, FailIngest(r)
      PROVE  d \in AllCharged /\ UNCHANGED <<library_id, billable_pages>>
  <2>1. PICK e \in Document : e = run[r].doc
    BY <1>4 DEF FailIngest, RunsHaveDocument
  <2>2. /\ \/ UNCHANGED status
           \/ /\ status[e] \in InFlightStatus
              /\ \E t \in Status : status' = [status EXCEPT ![e] = t]
        /\ UNCHANGED <<library_id, billable_pages>>
    BY <1>4, <2>1 DEF FailIngest, documentColumns, Status
  <2> QED
    BY <2>1, <2>2 DEF TypeOK
<1>5. ASSUME NEW D \in SUBSET Document, DeleteRows(D)
      PROVE  /\ d \in AllCharged
             /\ library_id'[d] = library_id[d]
             /\ billable_pages'[d] = billable_pages[d]
  BY <1>5 DEF DeleteRows
<1>6. ASSUME NEW e \in Document, DeleteDocument(e)
      PROVE  {e} \in SUBSET Document /\ DeleteRows({e})
  BY <1>6 DEF DeleteDocument
<1>7. ASSUME NEW l \in Library, PurgeLibrary(l)
      PROVE  \E D \in SUBSET Document : DeleteRows(D)
  BY <1>7 DEF PurgeLibrary
<1>8. ASSUME RecountLibraries \/ UNCHANGED vars
      PROVE  UNCHANGED <<status, library_id, billable_pages>>
  BY <1>8 DEF RecountLibraries, vars, documentColumns
<1> QED
  BY <1>2, <1>3, <1>4, <1>5, <1>6, <1>7, <1>8, NextCases

LEMMA CapsStep ==
    ASSUME CapsInv, [Next]_vars
    PROVE  CapsInv'
<1>1. StoreInv' /\ PurgedIsEmpty'
  BY StoreInvStep, PurgedStep DEF CapsInv
<1>2. CASE \E l \in Library, c \in Content, d \in Document : Upload(l, c, d)
  <2>1. PICK l \in Library, c \in Content, d \in Document : Upload(l, c, d)
    BY <1>2
  <2>2. /\ Pages[c] \in Nat
        /\ Total(LiveLibraries, Usage) + Pages[c] <= GlobalPages
        /\ Usage[l] + Pages[c] <= QuotaPages[l]
    BY <2>1, FilesStoreAssumption DEF Upload, reservePages, GlobalRoom, LibraryRoom
  <2>3. /\ d \notin AllCharged /\ AllCharged' = AllCharged \cup {d}
        /\ d \notin Charged(l) /\ Charged(l)' = Charged(l) \cup {d}
        /\ \A k \in Library \ {l} : Charged(k)' = Charged(k) /\ d \notin Charged(k)
    BY <2>1 DEF CapsInv, StoreInv, TypeOK, Upload, AllCharged, Charged, Settled, InFlight,
       SettledStatus, InFlightStatus
  <2>4. /\ billable_pages'[d] = Pages[c]
        /\ \A e \in Document \ {d} : billable_pages'[e] = billable_pages[e]
    BY <2>1 DEF CapsInv, StoreInv, TypeOK, Upload
  <2>5. ASSUME NEW S, S \subseteq Document, d \notin S,
               IsFiniteSet(AllUnits(S, billable_pages))
        PROVE  /\ Total(S, billable_pages') = Total(S, billable_pages)
               /\ IsFiniteSet(AllUnits(S \cup {d}, billable_pages'))
               /\ Total(S \cup {d}, billable_pages') = Total(S, billable_pages) + Pages[c]
    <3>1. \A e \in S : billable_pages'[e] = billable_pages[e]
      BY <2>4, <2>5
    <3>2. /\ AllUnits(S, billable_pages') = AllUnits(S, billable_pages)
          /\ Total(S, billable_pages') = Total(S, billable_pages)
      BY <3>1, TotalCongruence
    <3>3. billable_pages'[d] \in Nat
      BY <2>2, <2>4
    <3>4. IsFiniteSet(AllUnits(S, billable_pages'))
      BY <2>5, <3>2
    <3>5. /\ IsFiniteSet(AllUnits(S \cup {d}, billable_pages'))
          /\ Total(S \cup {d}, billable_pages') = Total(S, billable_pages') + billable_pages'[d]
      BY <2>5, <3>3, <3>4, TotalAdd
    <3> QED
      BY <2>4, <3>2, <3>5
  <2>6. /\ IsFiniteSet(AllUnits(AllCharged, billable_pages)')
        /\ Total(AllCharged, billable_pages)' <= GlobalPages
    <3>1. AllCharged \subseteq Document /\ IsFiniteSet(AllUnits(AllCharged, billable_pages))
      BY DEF AllCharged, CapsInv
    <3>2. Total(AllCharged, billable_pages) + Pages[c] <= GlobalPages
      BY <2>2, GlobalUsage
    <3> QED
      BY <2>3, <2>5, <3>1, <3>2
  <2>7. ASSUME NEW k \in Library
        PROVE  Total(Charged(k), billable_pages)' <= QuotaPages[k]
    <3>1. /\ Charged(k) \subseteq Document /\ d \notin Charged(k)
          /\ IsFiniteSet(AllUnits(Charged(k), billable_pages))
          /\ Usage[k] = Total(Charged(k), billable_pages)
      BY <2>3, LibraryUsage DEF CapsInv, Charged, Settled, InFlight
    <3>2. CASE k = l
      BY <2>2, <2>3, <2>5, <3>1, <3>2
    <3>3. CASE k # l
      BY <2>3, <2>5, <3>1, <3>3 DEF CapsInv
    <3> QED
      BY <3>2, <3>3
  <2> QED
    BY <1>1, <2>6, <2>7 DEF CapsInv
<1>3. CASE ~ \E l \in Library, c \in Content, d \in Document : Upload(l, c, d)
  <2>1. ASSUME NEW S, NEW T, T \subseteq S, IsFiniteSet(AllUnits(S, billable_pages)),
               \A d \in T : billable_pages'[d] = billable_pages[d]
        PROVE  /\ IsFiniteSet(AllUnits(T, billable_pages'))
               /\ Total(T, billable_pages') <= Total(S, billable_pages)
    <3>1. /\ AllUnits(T, billable_pages') = AllUnits(T, billable_pages)
          /\ Total(T, billable_pages') = Total(T, billable_pages)
      BY <2>1, TotalCongruence
    <3> QED
      BY <2>1, <3>1, TotalSubset
  <2>2. \A d \in AllCharged' : /\ d \in AllCharged
                              /\ library_id'[d] = library_id[d]
                              /\ billable_pages'[d] = billable_pages[d]
    BY <1>3, OnlyUploadsCharge DEF CapsInv, AllCharged
  <2>3. /\ IsFiniteSet(AllUnits(AllCharged, billable_pages)')
        /\ Total(AllCharged, billable_pages)' <= GlobalPages
    <3>1. IsFiniteSet(AllUnits(AllCharged, billable_pages)) /\ AllCharged' \subseteq AllCharged
      BY <2>2 DEF CapsInv
    <3>2. /\ IsFiniteSet(AllUnits(AllCharged', billable_pages'))
          /\ Total(AllCharged', billable_pages') <= Total(AllCharged, billable_pages)
      BY <2>1, <2>2, <3>1
    <3>3. /\ Total(AllCharged', billable_pages') \in Nat
          /\ Total(AllCharged, billable_pages) \in Nat
      BY <3>1, <3>2, TotalType
    <3> QED
      BY <3>2, <3>3, FilesStoreAssumption DEF CapsInv
  <2>4. ASSUME NEW k \in Library
        PROVE  Total(Charged(k), billable_pages)' <= QuotaPages[k]
    <3>1. Charged(k)' \subseteq AllCharged'
      BY DEF Charged, Settled, InFlight, AllCharged
    <3>2. Charged(k)' \subseteq Charged(k)
      BY <2>2, <3>1 DEF Charged, Settled, InFlight, AllCharged
    <3>3. IsFiniteSet(AllUnits(Charged(k), billable_pages))
      BY LibraryUsage DEF CapsInv
    <3>4. /\ IsFiniteSet(AllUnits(Charged(k)', billable_pages'))
          /\ Total(Charged(k)', billable_pages') <= Total(Charged(k), billable_pages)
      BY <2>1, <2>2, <3>1, <3>2, <3>3
    <3>5. /\ Total(Charged(k)', billable_pages') \in Nat
          /\ Total(Charged(k), billable_pages) \in Nat
      BY <3>3, <3>4, TotalType
    <3>6. Total(Charged(k), billable_pages) <= QuotaPages[k] /\ QuotaPages[k] \in Nat
      BY FilesStoreAssumption DEF CapsInv
    <3> QED
      BY <3>4, <3>5, <3>6
  <2> QED
    BY <1>1, <2>3, <2>4 DEF CapsInv
<1> QED
  BY <1>2, <1>3

LEMMA CapsInvInit ==
    ASSUME Init
    PROVE  CapsInv
<1>1. StoreInv /\ PurgedIsEmpty
  BY StoreInvInit DEF Init, PurgedIsEmpty
<1>2. AllCharged = {} /\ \A l \in Library : Charged(l) = {}
  BY DEF Init, AllCharged, Charged, Settled, InFlight, SettledStatus, InFlightStatus
<1> QED
  BY <1>1, <1>2, TotalEmpty, FilesStoreAssumption DEF CapsInv

(* CapsInv is an invariant of every reachable state.                       *)
THEOREM CapsInvariant == Spec => []CapsInv
<1>1. Init => CapsInv
  BY CapsInvInit
<1>2. CapsInv /\ [Next]_vars => CapsInv'
  BY CapsStep
<1> QED
  BY <1>1, <1>2, PTL DEF Spec

(* However many uploads race, no library and not all libraries together    *)
(* ever hold more pages than their caps.                                   *)
THEOREM CapsAreHeld == Spec => []CapsHeld
<1>1. CapsInv => CapsHeld
  BY DEF CapsInv, CapsHeld, Charged, AllCharged
<1> QED
  BY <1>1, CapsInvariant, PTL
-----------------------------------------------------------------------------
(* How one step may change the status of a document.                       *)
StatusStep(d) ==
    \/ status'[d] = status[d]
    \/ status'[d] = "absent"
    \/ status[d] = "absent" /\ status'[d] = "queued"
    \/ status[d] \in InFlightStatus
    \/ status[d] \in SettledStatus /\ status'[d] = "ready"

LEMMA StatusSteps ==
    ASSUME StoreInv, [Next]_vars, NEW d \in Document
    PROVE  StatusStep(d)
<1> USE DEF StoreInv, StatusStep
<1>1. ASSUME NEW l \in Library, NEW c \in Content, NEW e \in Document, Upload(l, c, e)
      PROVE  StatusStep(d)
  BY <1>1 DEF Upload, TypeOK
<1>2. ASSUME NEW r \in Run, NEW e \in Document, ClaimForIngest(r, e)
      PROVE  StatusStep(d)
  BY <1>2 DEF ClaimForIngest, Claimable, TypeOK
<1>3. ASSUME NEW r \in Run, NEW s \in SettledStatus, NEW ackLost \in BOOLEAN,
             CommitIngest(r, s, ackLost)
      PROVE  StatusStep(d)
  <2>1. PICK e \in Document : e = run[r].doc /\ status[e] = "processing"
    BY <1>3 DEF CommitIngest, HoldsLease, RunsHaveDocument
  <2>2. status' = [status EXCEPT ![e] = s]
    BY <1>3, <2>1 DEF CommitIngest
  <2> QED
    BY <2>1, <2>2 DEF TypeOK, InFlightStatus
<1>4. ASSUME NEW r \in Run, FailIngest(r)
      PROVE  StatusStep(d)
  <2>1. PICK e \in Document : e = run[r].doc
    BY <1>4 DEF FailIngest, RunsHaveDocument
  <2>2. \/ UNCHANGED status
        \/ /\ status[e] \in InFlightStatus
           /\ \E t \in Status : status' = [status EXCEPT ![e] = t]
    BY <1>4, <2>1 DEF FailIngest, documentColumns, Status, InFlightStatus
  <2> QED
    BY <2>2 DEF TypeOK
<1>5. ASSUME NEW e \in Document, ConfirmDocument(e)
      PROVE  StatusStep(d)
  BY <1>5 DEF ConfirmDocument, TypeOK
<1>6. ASSUME NEW e \in Document, DeleteDocument(e)
      PROVE  StatusStep(d)
  BY <1>6 DEF DeleteDocument, DeleteRows
<1>7. ASSUME NEW l \in Library, PurgeLibrary(l)
      PROVE  StatusStep(d)
  BY <1>7 DEF PurgeLibrary, DeleteRows
<1>8. ASSUME UNCHANGED status
      PROVE  StatusStep(d)
  BY <1>8
<1>9. ASSUME NEW r \in Run, NEW retryable \in BOOLEAN,
             IngestThrows(r, retryable) \/ LoseLease(r) \/ RunDies(r)
      PROVE  UNCHANGED status
  BY <1>9 DEF IngestThrows, LoseLease, RunDies, documentColumns
<1>10. ASSUME NEW l \in Library, NEW date \in {"later", "due"},
              MarkLibraryForPurge(l, date) \/ PurgeDatePasses(l) \/ ReviveByCron(l)
       PROVE  UNCHANGED status
  BY <1>10 DEF MarkLibraryForPurge, PurgeDatePasses, ReviveByCron, documentColumns
<1>11. ASSUME RecountLibraries \/ UNCHANGED vars
       PROVE  UNCHANGED status
  BY <1>11 DEF RecountLibraries, documentColumns, vars
<1>12. ASSUME NEW e \in Document, LeaseExpires(e) \/ ClearStalePending(e)
       PROVE  UNCHANGED status
  BY <1>12 DEF LeaseExpires, ClearStalePending
<1> QED
  BY <1>1, <1>2, <1>3, <1>4, <1>5, <1>6, <1>7, <1>8, <1>9, <1>10, <1>11, <1>12
     DEF Next, RunStep, DocumentStep, LibraryStep

(* No late, duplicated or crashed run ever takes a settled document back,  *)
(* or settles one that was given up.                                       *)
THEOREM SettledOrFailedStays == Spec => SettledOrFailedForGood
<1>1. StoreInv /\ [Next]_vars
        => [\A d \in Document :
              /\ status[d] \in SettledStatus => status'[d] \in SettledStatus \cup {"absent"}
              /\ status[d] = "error" => status'[d] \in {"error", "absent"}]_vars
  BY StatusSteps DEF StatusStep, SettledStatus, InFlightStatus
<1> QED
  BY <1>1, StoreInvariant, PTL DEF Spec, SettledOrFailedForGood
-----------------------------------------------------------------------------
AbsentIsFresh == \A d \in Document : status[d] = "absent" => attempts[d] = 0

(* What one step does to the attempts and to the runs that prepare.        *)
BudgetStep(d) ==
    status'[d] # "absent" =>
        /\ attempts'[d] >= attempts[d]
        /\ \A r \in Run : run'[r].step = "prepare" /\ run'[r].doc = d /\ run'[r] # run[r]
                          => attempts[d] < attempts'[d] /\ attempts'[d] <= MaxAttempts

LEMMA BudgetSteps ==
    ASSUME StoreInv, AbsentIsFresh, [Next]_vars
    PROVE  AbsentIsFresh' /\ \A d \in Document : BudgetStep(d)
<1> USE FilesStoreAssumption DEF StoreInv, AbsentIsFresh, BudgetStep
<1>1. attempts \in [Document -> Nat] /\ AttemptsBound \in Nat
  BY DEF TypeOK, AttemptsBound
<1>2. ASSUME NEW l \in Library, NEW c \in Content, NEW e \in Document, Upload(l, c, e)
      PROVE  AbsentIsFresh' /\ \A d \in Document : BudgetStep(d)
  BY <1>1, <1>2 DEF Upload, TypeOK
<1>3. ASSUME NEW q \in Run, NEW e \in Document, ClaimForIngest(q, e)
      PROVE  AbsentIsFresh' /\ \A d \in Document : BudgetStep(d)
  <2>1. PICK tried \in Nat, next \in {"prepare", "fail"} :
          /\ attempts' = [attempts EXCEPT ![e] = tried]
          /\ run' = [run EXCEPT ![q] = [step |-> next, doc |-> e, retryable |-> FALSE]]
          /\ tried >= attempts[e]
          /\ next = "prepare" => tried <= MaxAttempts /\ attempts[e] < tried
    <3>1. attempts[e] \in 0 .. AttemptsBound
      BY DEF TypeOK
    <3> DEFINE t == IF attempts[e] < AttemptsBound THEN attempts[e] + 1 ELSE AttemptsBound
               h == t > MaxAttempts \/ purge_after[library_id[e]] # "null"
    <3>2. /\ t \in Nat /\ t >= attempts[e]
          /\ t <= MaxAttempts => attempts[e] < t
      BY <1>1, <3>1 DEF AttemptsBound
    <3>3. /\ attempts' = [attempts EXCEPT ![e] = t]
          /\ run' = [run EXCEPT ![q] = [step |-> IF h THEN "fail" ELSE "prepare",
                                        doc |-> e, retryable |-> FALSE]]
      BY <1>3 DEF ClaimForIngest
    <3>4. ~h => t <= MaxAttempts
      BY <3>2
    <3> HIDE DEF t, h
    <3>5. CASE h
      BY <3>2, <3>3, <3>5
    <3>6. CASE ~h
      BY <3>2, <3>3, <3>4, <3>6
    <3> QED
      BY <3>5, <3>6
  <2>2. status' = [status EXCEPT ![e] = "processing"]
    BY <1>3 DEF ClaimForIngest
  <2>3. AbsentIsFresh'
    BY <1>1, <2>1, <2>2 DEF TypeOK
  <2>4. ASSUME NEW d \in Document, NEW r \in Run, run'[r].step = "prepare", run'[r].doc = d,
               run'[r] # run[r]
        PROVE  attempts[d] < attempts'[d] /\ attempts'[d] <= MaxAttempts
    <3>1. r = q
      BY <2>1, <2>4 DEF TypeOK
    <3>2. d = e /\ next = "prepare"
      BY <2>1, <2>4, <3>1 DEF TypeOK
    <3> QED
      BY <1>1, <2>1, <3>2
  <2>5. \A d \in Document : attempts'[d] >= attempts[d]
    BY <1>1, <2>1
  <2> QED
    BY <2>3, <2>4, <2>5
<1>4. ASSUME NEW q \in Run, run' = [run EXCEPT ![q] = run'[q]], run'[q].step # "prepare",
             UNCHANGED attempts,
             \A d \in Document : status'[d] = "absent" => status[d] = "absent"
      PROVE  AbsentIsFresh' /\ \A d \in Document : BudgetStep(d)
  BY <1>1, <1>4 DEF TypeOK
<1>5. ASSUME UNCHANGED <<run, attempts>>,
             \A d \in Document : status'[d] = "absent" => status[d] = "absent"
      PROVE  AbsentIsFresh' /\ \A d \in Document : BudgetStep(d)
  BY <1>1, <1>5
<1>6. ASSUME NEW D \in SUBSET Document, DeleteRows(D), UNCHANGED run
      PROVE  AbsentIsFresh' /\ \A d \in Document : BudgetStep(d)
  BY <1>1, <1>6 DEF DeleteRows, TypeOK
<1>7. ASSUME NEW q \in Run, NEW s \in SettledStatus, NEW ackLost \in BOOLEAN,
             CommitIngest(q, s, ackLost)
      PROVE  /\ run' = [run EXCEPT ![q] = run'[q]] /\ run'[q].step # "prepare"
             /\ UNCHANGED attempts
             /\ \A d \in Document : status'[d] = "absent" => status[d] = "absent"
  <2>1. run' = [run EXCEPT ![q] = run'[q]] /\ run'[q].step # "prepare" /\ UNCHANGED attempts
    BY <1>7 DEF CommitIngest, IdleRun, TypeOK
  <2>2. status' = [status EXCEPT ![run[q].doc] = s]
    BY <1>7 DEF CommitIngest
  <2> QED
    BY <2>1, <2>2 DEF TypeOK, SettledStatus
<1>8. ASSUME NEW q \in Run, FailIngest(q)
      PROVE  /\ run' = [run EXCEPT ![q] = run'[q]] /\ run'[q].step # "prepare"
             /\ UNCHANGED attempts
             /\ \A d \in Document : status'[d] = "absent" => status[d] = "absent"
  <2>1. run' = [run EXCEPT ![q] = run'[q]] /\ run'[q].step # "prepare"
    BY <1>8 DEF FailIngest, IdleRun, TypeOK
  <2>2. /\ UNCHANGED attempts
        /\ \/ UNCHANGED status
           \/ status' = [status EXCEPT ![run[q].doc] = "queued"]
           \/ status' = [status EXCEPT ![run[q].doc] = "error"]
    BY <1>8 DEF FailIngest, documentColumns
  <2> QED
    BY <2>1, <2>2 DEF TypeOK
<1>9. ASSUME NEW q \in Run, NEW retryable \in BOOLEAN,
             IngestThrows(q, retryable) \/ LoseLease(q) \/ RunDies(q)
      PROVE  /\ run' = [run EXCEPT ![q] = run'[q]] /\ run'[q].step # "prepare"
             /\ UNCHANGED <<attempts, status>>
  BY <1>9 DEF IngestThrows, LoseLease, RunDies, IdleRun, TypeOK, documentColumns
<1>10. ASSUME NEW e \in Document, LeaseExpires(e) \/ ConfirmDocument(e) \/ ClearStalePending(e)
       PROVE  /\ UNCHANGED <<run, attempts>>
              /\ \A d \in Document : status'[d] = "absent" => status[d] = "absent"
  BY <1>10 DEF LeaseExpires, ConfirmDocument, ClearStalePending, TypeOK
<1>11. ASSUME NEW l \in Library, NEW date \in {"later", "due"},
              MarkLibraryForPurge(l, date) \/ PurgeDatePasses(l) \/ ReviveByCron(l)
       PROVE  UNCHANGED <<run, attempts, status>>
  BY <1>11 DEF MarkLibraryForPurge, PurgeDatePasses, ReviveByCron, documentColumns
<1>12. ASSUME RecountLibraries \/ UNCHANGED vars
       PROVE  UNCHANGED <<run, attempts, status>>
  BY <1>12 DEF RecountLibraries, documentColumns, vars
<1>13. ASSUME NEW e \in Document, DeleteDocument(e)
       PROVE  {e} \in SUBSET Document /\ DeleteRows({e}) /\ UNCHANGED run
  BY <1>13 DEF DeleteDocument
<1>14. ASSUME NEW l \in Library, PurgeLibrary(l)
       PROVE  (\E D \in SUBSET Document : DeleteRows(D)) /\ UNCHANGED run
  BY <1>14 DEF PurgeLibrary
<1>15. CASE \E q \in Run : RunStep(q)
  <2>1. PICK q \in Run : RunStep(q)
    BY <1>15
  <2>2. /\ run' = [run EXCEPT ![q] = run'[q]] /\ run'[q].step # "prepare"
        /\ UNCHANGED attempts
        /\ \A d \in Document : status'[d] = "absent" => status[d] = "absent"
    BY <2>1, <1>7, <1>8, <1>9 DEF RunStep
  <2> QED
    BY <1>4, <2>2
<1>16. CASE \E e \in Document : DocumentStep(e)
  BY <1>2, <1>3, <1>5, <1>6, <1>10, <1>13, <1>16 DEF DocumentStep
<1>17. CASE (\E l \in Library : LibraryStep(l)) \/ RecountLibraries \/ UNCHANGED vars
  BY <1>5, <1>6, <1>11, <1>12, <1>14, <1>17 DEF LibraryStep
<1> QED
  BY <1>15, <1>16, <1>17 DEF Next

(* Crashes and overlapping runs included, a document is prepared at most   *)
(* MaxAttempts times.                                                      *)
THEOREM RetriesAreBounded == Spec => RetryBudget
<1>1. Init => AbsentIsFresh
  BY DEF Init, AbsentIsFresh
<1>2. StoreInv /\ AbsentIsFresh /\ [Next]_vars => AbsentIsFresh'
  BY BudgetSteps
<1>3. Spec => []AbsentIsFresh
  BY <1>1, <1>2, StoreInvariant, PTL DEF Spec
<1>4. StoreInv /\ AbsentIsFresh /\ [Next]_vars
        => [\A d \in Document :
              status'[d] # "absent" =>
                  /\ attempts'[d] >= attempts[d]
                  /\ (\E r \in Run : /\ run'[r].step = "prepare"
                                     /\ run'[r].doc = d
                                     /\ run'[r] # run[r])
                     => attempts[d] < attempts'[d] /\ attempts'[d] <= MaxAttempts]_vars
  BY BudgetSteps DEF BudgetStep
<1> QED
  BY <1>3, <1>4, StoreInvariant, PTL DEF Spec, RetryBudget
-----------------------------------------------------------------------------
(* With the refinement mapping of Ledger every transaction of the store is *)
(* a Reserve, a Settle, a Drop or a stuttering step of PageLedger.         *)
(* The mapped variables, named. *)
reservedBar == [l \in Library |-> InFlight(l)]
storedBar == [l \in Library |-> Settled(l)]
sizeBar == [d \in Document |->
              IF status[d] \in InFlightStatus \cup SettledStatus THEN billable_pages[d] ELSE 0]

LEMMA SizeIsPages ==
    ASSUME NEW S, \A d \in S : d \in Document /\ status[d] \in InFlightStatus \cup SettledStatus
    PROVE  Total(S, sizeBar) = Total(S, billable_pages)
<1>1. \A d \in S : sizeBar[d] = billable_pages[d]
  BY DEF sizeBar
<1> QED
  BY <1>1, TotalCongruence

LEMMA LedgerCharges ==
    ASSUME CapsInv
    PROVE  /\ \A l \in Library : Ledger!Charged(l) = Charged(l)
           /\ Ledger!AllCharged = AllCharged
<1>1. \A l \in Library : Ledger!Charged(l) = Charged(l)
  BY DEF Ledger!Charged, Charged
<1>2. Ledger!AllCharged = UNION {Charged(l) : l \in Library}
  BY <1>1 DEF Ledger!AllCharged
<1>3. \A d \in AllCharged : library_id[d] \in Library /\ d \in Charged(library_id[d])
  BY DEF CapsInv, StoreInv, RowsOwned, TypeOK, AllCharged, Charged, Settled, InFlight,
     SettledStatus, InFlightStatus
<1>4. \A l \in Library : Charged(l) \subseteq AllCharged
  BY DEF AllCharged, Charged, Settled, InFlight
<1> QED
  BY <1>1, <1>2, <1>3, <1>4

(* The sum of the abstract module is the sum of this one. *)
LEMMA LedgerTotal ==
    ASSUME NEW S, NEW f
    PROVE  Ledger!Total(S, f) = Total(S, f)
BY DEF Ledger!Total, Ledger!AllUnits, Ledger!Units, Ledger!Cardinality,
   Total, AllUnits, Units, Cardinality

LEMMA LedgerInits ==
    ASSUME Init
    PROVE  Ledger!LedgerInit
<1>1. \A l \in Library : InFlight(l) = {} /\ Settled(l) = {}
  BY DEF Init, InFlight, Settled, InFlightStatus, SettledStatus
<1>2. \A d \in Document : status[d] \notin InFlightStatus \cup SettledStatus
  BY DEF Init, InFlightStatus, SettledStatus
<1> QED
  BY <1>1, <1>2 DEF Ledger!LedgerInit

(* A step that leaves every charge as it is.                               *)
LEMMA LedgerStutter ==
    ASSUME \A l \in Library : InFlight(l)' = InFlight(l) /\ Settled(l)' = Settled(l),
           \A d \in Document :
             /\ status'[d] \in InFlightStatus \cup SettledStatus
                  <=> status[d] \in InFlightStatus \cup SettledStatus
             /\ status[d] \in InFlightStatus \cup SettledStatus
                  => billable_pages'[d] = billable_pages[d]
    PROVE  UNCHANGED Ledger!ledger
BY DEF Ledger!ledger

(* A step that ends the charges of some rows of one library.               *)
LEMMA LedgerDrop ==
    ASSUME NEW l \in Library, NEW D, D \subseteq Charged(l), CapsInv,
           \A k \in Library : InFlight(k)' = InFlight(k) \ D /\ Settled(k)' = Settled(k) \ D,
           \A d \in Document :
             /\ d \in D => status'[d] \notin InFlightStatus \cup SettledStatus
             /\ d \notin D =>
                  /\ status'[d] \in InFlightStatus \cup SettledStatus
                       <=> status[d] \in InFlightStatus \cup SettledStatus
                  /\ status[d] \in InFlightStatus \cup SettledStatus
                       => billable_pages'[d] = billable_pages[d]
    PROVE  Ledger!LedgerNext
<1>1. Ledger!Charged(l) = Charged(l)
  BY LedgerCharges
<1>2. \A k \in Library \ {l} : InFlight(k) \ D = InFlight(k) /\ Settled(k) \ D = Settled(k)
  BY DEF Charged, InFlight, Settled
<1>3. reservedBar' = [reservedBar EXCEPT ![l] = @ \ D]
  BY <1>2 DEF reservedBar
<1>4. storedBar' = [storedBar EXCEPT ![l] = @ \ D]
  BY <1>2 DEF storedBar
<1>5. sizeBar' = [d \in Document |-> IF d \in D THEN 0 ELSE sizeBar[d]]
  BY DEF sizeBar
<1>6. Ledger!Drop(l, D)
  BY <1>1, <1>3, <1>4, <1>5 DEF Ledger!Drop, reservedBar, storedBar, sizeBar
<1> QED
  BY <1>1, <1>6 DEF Ledger!LedgerNext

LEMMA LedgerReserve ==
    ASSUME CapsInv, NEW l \in Library, NEW c \in Content, NEW d \in Document, Upload(l, c, d)
    PROVE  Ledger!LedgerNext
<1> DEFINE n == Pages[c]
<1>1. /\ n \in Nat \ {0}
      /\ Total(LiveLibraries, Usage) + n <= GlobalPages
      /\ Usage[l] + n <= QuotaPages[l]
  BY FilesStoreAssumption DEF Upload, reservePages, GlobalRoom, LibraryRoom
<1>2. /\ d \notin AllCharged
      /\ InFlight(l)' = InFlight(l) \cup {d}
      /\ \A k \in Library \ {l} : InFlight(k)' = InFlight(k)
      /\ \A k \in Library : Settled(k)' = Settled(k)
  BY DEF CapsInv, StoreInv, TypeOK, Upload, AllCharged, Settled, InFlight, SettledStatus,
     InFlightStatus
<1>3. Ledger!Charged(l) = Charged(l) /\ Ledger!AllCharged = AllCharged
  BY LedgerCharges
<1>4. Total(Charged(l), sizeBar) + n <= QuotaPages[l]
  <2>1. Total(Charged(l), sizeBar) = Total(Charged(l), billable_pages)
    BY SizeIsPages DEF Charged, Settled, InFlight
  <2> QED
    BY <1>1, <2>1, LibraryUsage DEF CapsInv
<1>5. Total(AllCharged, sizeBar) + n <= GlobalPages
  <2>1. Total(AllCharged, sizeBar) = Total(AllCharged, billable_pages)
    BY SizeIsPages DEF AllCharged
  <2> QED
    BY <1>1, <2>1, GlobalUsage
<1>6. n \in 1 .. GlobalPages
  <2>1. Total(AllCharged, sizeBar) \in Nat
    <3>1. Total(AllCharged, sizeBar) = Total(AllCharged, billable_pages)
      BY SizeIsPages DEF AllCharged
    <3> QED
      BY <3>1, TotalType DEF CapsInv
  <2> QED
    BY <1>1, <1>5, <2>1, FilesStoreAssumption
<1>7. reservedBar' = [reservedBar EXCEPT ![l] = @ \cup {d}]
  BY <1>2 DEF reservedBar
<1>8. storedBar' = storedBar
  BY <1>2 DEF storedBar
<1>9. sizeBar' = [sizeBar EXCEPT ![d] = n]
  BY DEF sizeBar, CapsInv, StoreInv, TypeOK, Upload, InFlightStatus, SettledStatus
<1>10. Ledger!Reserve(l, d, n)
  <2>1. d \notin Ledger!AllCharged /\ n > 0
    BY <1>1, <1>2, <1>3
  <2>2. /\ Ledger!Total(Ledger!Charged(l), sizeBar) + n <= QuotaPages[l]
        /\ Ledger!Total(Ledger!AllCharged, sizeBar) + n <= GlobalPages
    BY <1>3, <1>4, <1>5, LedgerTotal
  <2> QED
    BY <2>1, <2>2, <1>7, <1>8, <1>9 DEF Ledger!Reserve, reservedBar, storedBar, sizeBar
<1> QED
  BY <1>6, <1>10 DEF Ledger!LedgerNext

LEMMA LedgerSettle ==
    ASSUME CapsInv, NEW r \in Run, NEW s \in SettledStatus, NEW ackLost \in BOOLEAN,
           CommitIngest(r, s, ackLost)
    PROVE  Ledger!LedgerNext
<1> USE DEF CapsInv, StoreInv
<1>1. PICK d \in Document, l \in Library :
        d = run[r].doc /\ l = library_id[d] /\ status[d] = "processing"
  <2>1. run[r].doc \in Document /\ status[run[r].doc] = "processing"
    BY DEF CommitIngest, HoldsLease, RunsHaveDocument
  <2> QED
    BY <2>1 DEF TypeOK, RowsOwned
<1>2. status' = [status EXCEPT ![d] = s] /\ UNCHANGED <<library_id, billable_pages>>
  BY <1>1 DEF CommitIngest
<1>3. /\ d \in InFlight(l) /\ InFlight(l)' = InFlight(l) \ {d}
      /\ Settled(l)' = Settled(l) \cup {d}
      /\ \A k \in Library \ {l} : InFlight(k)' = InFlight(k) /\ Settled(k)' = Settled(k)
  BY <1>1, <1>2 DEF TypeOK, InFlight, Settled, InFlightStatus, SettledStatus
<1>4. reservedBar' = [reservedBar EXCEPT ![l] = @ \ {d}]
  BY <1>3 DEF reservedBar
<1>5. storedBar' = [storedBar EXCEPT ![l] = @ \cup {d}]
  BY <1>3 DEF storedBar
<1>6. sizeBar' = sizeBar
  BY <1>1, <1>2 DEF sizeBar, TypeOK, InFlightStatus, SettledStatus
<1>7. Ledger!Settle(l, d)
  BY <1>3, <1>4, <1>5, <1>6 DEF Ledger!Settle, reservedBar, storedBar, sizeBar
<1> QED
  BY <1>7 DEF Ledger!LedgerNext

LEMMA LedgerFail ==
    ASSUME CapsInv, NEW r \in Run, FailIngest(r)
    PROVE  Ledger!LedgerNext \/ UNCHANGED Ledger!ledger
<1>0. TypeOK /\ RowsOwned /\ RunsHaveDocument
  BY DEF CapsInv, StoreInv
<1>1. PICK d \in Document : d = run[r].doc
  BY <1>0 DEF FailIngest, RunsHaveDocument
<1>2. /\ UNCHANGED <<library_id, billable_pages>>
      /\ \/ UNCHANGED status
         \/ /\ status[d] \in InFlightStatus
            /\ \/ status' = [status EXCEPT ![d] = "queued"]
               \/ status' = [status EXCEPT ![d] = "error"]
  BY <1>1 DEF FailIngest, documentColumns
<1>3. CASE UNCHANGED status
  <2>1. \A l \in Library : InFlight(l)' = InFlight(l) /\ Settled(l)' = Settled(l)
    BY <1>2, <1>3 DEF InFlight, Settled
  <2> QED
    BY <1>2, <1>3, <2>1, LedgerStutter
<1>4. CASE /\ status[d] \in InFlightStatus
           /\ status' = [status EXCEPT ![d] = "queued"]
  <2>1. \A e \in Document :
          /\ status'[e] \in InFlightStatus <=> status[e] \in InFlightStatus
          /\ status'[e] \in SettledStatus <=> status[e] \in SettledStatus
    BY <1>0, <1>4 DEF TypeOK, InFlightStatus, SettledStatus
  <2>2. UNCHANGED library_id /\ UNCHANGED billable_pages
    BY <1>2
  <2>3. \A l \in Library : InFlight(l)' = InFlight(l) /\ Settled(l)' = Settled(l)
    BY <2>1, <2>2 DEF InFlight, Settled, InFlightStatus, SettledStatus
  <2>4. \A e \in Document :
          /\ status'[e] \in InFlightStatus \cup SettledStatus
               <=> status[e] \in InFlightStatus \cup SettledStatus
          /\ billable_pages'[e] = billable_pages[e]
    BY <2>1, <2>2
  <2> QED
    BY <2>3, <2>4, LedgerStutter
<1>5. CASE /\ status[d] \in InFlightStatus
           /\ status' = [status EXCEPT ![d] = "error"]
  <2>1. PICK l \in Library : l = library_id[d]
    BY <1>0, <1>5 DEF TypeOK, RowsOwned, InFlightStatus
  <2>2. {d} \subseteq Charged(l)
    BY <1>5, <2>1 DEF Charged, InFlight
  <2>3. \A k \in Library : InFlight(k)' = InFlight(k) \ {d} /\ Settled(k)' = Settled(k) \ {d}
    BY <1>0, <1>2, <1>5 DEF TypeOK, InFlight, Settled, InFlightStatus, SettledStatus
  <2>4. /\ status'[d] \notin InFlightStatus \cup SettledStatus
        /\ \A e \in Document \ {d} : status'[e] = status[e]
    BY <1>0, <1>5 DEF TypeOK, InFlightStatus, SettledStatus
  <2>5. \A e \in Document :
          /\ e \in {d} => status'[e] \notin InFlightStatus \cup SettledStatus
          /\ e \notin {d} =>
               /\ status'[e] \in InFlightStatus \cup SettledStatus
                    <=> status[e] \in InFlightStatus \cup SettledStatus
               /\ status[e] \in InFlightStatus \cup SettledStatus
                    => billable_pages'[e] = billable_pages[e]
    BY <1>2, <2>4
  <2> QED
    BY <2>2, <2>3, <2>5, LedgerDrop
<1> QED
  BY <1>2, <1>3, <1>4, <1>5

(* Deleting rows of one library ends the charges they had.                 *)
LEMMA LedgerDelete ==
    ASSUME CapsInv, NEW l \in Library, NEW D \in SUBSET Document,
           \A d \in D : library_id[d] = l, DeleteRows(D)
    PROVE  Ledger!LedgerNext
<1> DEFINE E == D \cap Charged(l)
<1>1. E \subseteq Charged(l)
  OBVIOUS
<1>2. ASSUME NEW k \in Library
      PROVE  InFlight(k)' = InFlight(k) \ E /\ Settled(k)' = Settled(k) \ E
  <2>1. InFlight(k)' = InFlight(k) \ D /\ Settled(k)' = Settled(k) \ D
    BY DeleteRowsKeepsRows DEF CapsInv, StoreInv
  <2>2. InFlight(k) \ D = InFlight(k) \ E /\ Settled(k) \ D = Settled(k) \ E
    BY DEF InFlight, Settled, Charged
  <2> QED
    BY <2>1, <2>2
<1>3. ASSUME NEW d \in Document
      PROVE  /\ d \in E => status'[d] \notin InFlightStatus \cup SettledStatus
             /\ d \notin E =>
                  /\ status'[d] \in InFlightStatus \cup SettledStatus
                       <=> status[d] \in InFlightStatus \cup SettledStatus
                  /\ status[d] \in InFlightStatus \cup SettledStatus
                       => billable_pages'[d] = billable_pages[d]
  BY DEF DeleteRows, Charged, InFlight, Settled, InFlightStatus, SettledStatus
<1> HIDE DEF E
<1> QED
  BY <1>1, <1>2, <1>3, LedgerDrop

LEMMA LedgerBookkeeping ==
    ASSUME CapsInv, BookkeepingStep
    PROVE  UNCHANGED Ledger!ledger
<1>1. /\ UNCHANGED <<library_id, billable_pages>>
      /\ RowsOwned /\ RowsOwned' /\ TypeOK
      /\ \A l \in Library : Settled(l)' = Settled(l) /\ InFlight(l)' = InFlight(l)
  BY BookkeepingRows DEF CapsInv, StoreInv
<1>2. ASSUME NEW d \in Document
      PROVE  status'[d] \in InFlightStatus \cup SettledStatus
               <=> status[d] \in InFlightStatus \cup SettledStatus
  <2>1. CASE library_id[d] \in Library
    BY <1>1, <2>1 DEF Settled, InFlight
  <2>2. CASE library_id[d] = NoLibrary
    BY <1>1, <2>2 DEF RowsOwned, InFlightStatus, SettledStatus
  <2> QED
    BY <1>1, <2>1, <2>2 DEF TypeOK
<1> QED
  BY <1>1, <1>2, LedgerStutter

LEMMA LedgerStep ==
    ASSUME CapsInv, [Next]_vars
    PROVE  [Ledger!LedgerNext]_(Ledger!ledger)
<1>1. CASE RecountLibraries \/ UNCHANGED vars
  <2>1. UNCHANGED <<status, library_id, billable_pages>>
    BY <1>1 DEF RecountLibraries, vars, documentColumns
  <2>2. \A l \in Library : InFlight(l)' = InFlight(l) /\ Settled(l)' = Settled(l)
    BY <2>1 DEF InFlight, Settled
  <2> QED
    BY <2>1, <2>2, LedgerStutter
<1>2. CASE \E d \in Document : DeleteDocument(d)
  <2>1. PICK d \in Document : DeleteDocument(d)
    BY <1>2
  <2>2. PICK l \in Library : l = library_id[d]
    BY <2>1 DEF DeleteDocument, CapsInv, StoreInv, RowsOwned, TypeOK
  <2>3. {d} \in SUBSET Document /\ DeleteRows({d}) /\ \A e \in {d} : library_id[e] = l
    BY <2>1, <2>2 DEF DeleteDocument
  <2> QED
    BY <2>3, LedgerDelete
<1>3. CASE \E l \in Library : PurgeLibrary(l)
  <2>1. PICK l \in Library : DeleteRows({d \in Document : library_id[d] = l})
    BY <1>3 DEF PurgeLibrary
  <2>2. {d \in Document : library_id[d] = l} \in SUBSET Document
    OBVIOUS
  <2>3. \A e \in {d \in Document : library_id[d] = l} : library_id[e] = l
    OBVIOUS
  <2> QED
    BY <2>1, <2>2, <2>3, LedgerDelete
<1> QED
  BY <1>1, <1>2, <1>3, NextCases, LedgerReserve, LedgerSettle, LedgerFail, LedgerBookkeeping

(* The store implements the page ledger: whatever interleaves, crashes or  *)
(* is repeated, pages are charged once per document, under both caps, and  *)
(* given back once.                                                        *)
THEOREM StoreImplementsLedger == Spec => LedgerSpec
<1>1. Init => Ledger!LedgerInit
  BY LedgerInits
<1>2. CapsInv /\ [Next]_vars => [Ledger!LedgerNext]_(Ledger!ledger)
  BY LedgerStep
<1> QED
  BY <1>1, <1>2, CapsInvariant, PTL DEF Spec, LedgerSpec, Ledger!LedgerSpec
=============================================================================
