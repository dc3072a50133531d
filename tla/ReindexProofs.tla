----------------------------- MODULE ReindexProofs -----------------------------
(***************************************************************************)
(* Keeping the index in step with the saved metadata, for any documents,   *)
(* savers, types and budgets: what the row lock of a run guarantees, that  *)
(* the index only moves forward, that a recorded request outlives crashes  *)
(* and failures, and that nothing is dropped where no run fails.           *)
(***************************************************************************)
EXTENDS Reindex, TLAPS

WorkState == [step : Step, doc : Indexed, type : DocType, version : Version]

(* A run holds the row of its document from the moment it reads it, so     *)
(* what it derives from is what is saved.                                  *)
LocksHeld ==
    \A w \in Worker, d \in Indexed :
        row_lock[d] = w <=> work[w].step = "leased" /\ work[w].doc = d

RunsReadLatest ==
    \A w \in Worker : work[w].step = "leased" => work[w].version = meta_version[work[w].doc]

IndexNotAhead == \A d \in Indexed : index[d] <= meta_version[d]

SavesWithinBound == \A w \in Worker : work[w].step = "edit" => work[w].version < VersionBound

OnlyFailuresFail == "fail" \notin faults => \A w \in Worker : work[w].step # "failed"

ReindexInv ==
    /\ ReindexTypeOK
    /\ LocksHeld
    /\ RunsReadLatest
    /\ IndexNotAhead
    /\ SavesWithinBound
    /\ OnlyFailuresFail

LEMMA IdleType == IdleWork \in WorkState /\ IdleWork.step = "idle" /\ 0 \in Version
BY ReindexAssumption DEF IdleWork, WorkState, Step, Version

LEMMA InitReindex == ReindexInit => ReindexInv
<1> SUFFICES ASSUME ReindexInit  PROVE ReindexInv
  OBVIOUS
<1>1. ReindexTypeOK
  BY IdleType, ReindexAssumption DEF ReindexInit, ReindexTypeOK, WorkState, Version
<1>2. \A w \in Worker : work[w].step = "idle"
  BY IdleType DEF ReindexInit
<1>3. \A d \in Indexed : row_lock[d] = Nobody /\ index[d] = 0 /\ meta_version[d] = 0
  BY DEF ReindexInit
<1>4. Nobody \notin Worker
  BY ReindexAssumption DEF Worker
<1> QED
  BY <1>1, <1>2, <1>3, <1>4
  DEF ReindexInv, LocksHeld, RunsReadLatest, IndexNotAhead, SavesWithinBound, OnlyFailuresFail

(* A step of one worker, by its work before and after.                     *)
LEMMA WorkerMoves ==
    ASSUME ReindexInv, NEW w \in Worker, NEW c \in WorkState, work' = [work EXCEPT ![w] = c]
    PROVE  /\ work' \in [Worker -> WorkState] /\ work'[w] = c
           /\ \A x \in Worker \ {w} : work'[x] = work[x]
BY DEF ReindexInv, ReindexTypeOK, WorkState

LEMMA InvSaveReads ==
    ASSUME ReindexInv, NEW s \in Saver, NEW d \in Indexed, NEW t \in DocType, SaveReads(s, d, t)
    PROVE  ReindexInv'
<1> DEFINE c == [step |-> "edit", doc |-> d, type |-> t, version |-> meta_version[d]]
<1>1. s \in Worker /\ meta_version[d] \in Version
  BY DEF Worker, ReindexInv, ReindexTypeOK
<1>2. c \in WorkState /\ c.step = "edit" /\ c.version = meta_version[d]
  BY <1>1 DEF WorkState, Step
<1>3. work' = [work EXCEPT ![s] = c] /\ work[s].step = "idle"
  BY DEF SaveReads
<1> HIDE DEF c
<1>4. /\ work' \in [Worker -> WorkState] /\ work'[s] = c
      /\ \A x \in Worker \ {s} : work'[x] = work[x]
  BY <1>1, <1>2, <1>3, WorkerMoves
<1>5. UNCHANGED <<doc_type, meta_version, index, reindex_requested_at, row_lock, reindexes, cpuLeft, givenUp, faults>>
      /\ meta_version[d] < VersionBound
  BY DEF SaveReads
<1> QED
  BY <1>1, <1>2, <1>3, <1>4, <1>5
  DEF ReindexInv, ReindexTypeOK, WorkState, LocksHeld, RunsReadLatest, IndexNotAhead, SavesWithinBound, OnlyFailuresFail

LEMMA InvSaveWrites ==
    ASSUME ReindexInv, NEW s \in Saver, SaveWrites(s)
    PROVE  ReindexInv'
<1> DEFINE d == work[s].doc
           v == work[s].version + 1
           c == IF meta_version' # meta_version /\ TypeNow(d) # work[s].type
                THEN [IdleWork EXCEPT !.step = "after", !.doc = d] ELSE IdleWork
<1>1. /\ s \in Worker /\ work[s] \in WorkState /\ d \in Indexed /\ work[s].step = "edit"
      /\ row_lock[d] = Nobody /\ work[s].version \in Version /\ work[s].version < VersionBound
      /\ UNCHANGED <<index, reindex_requested_at, row_lock, reindexes, cpuLeft, givenUp, faults>>
  BY DEF Worker, ReindexInv, ReindexTypeOK, WorkState, SaveWrites, SavesWithinBound
<1>2. v \in Version /\ v = work[s].version + 1 /\ v > work[s].version /\ VersionBound \in Nat
  BY <1>1, ReindexAssumption DEF Version
<1>3. ASSUME NEW x \in Worker  PROVE work[x].step = "leased" => work[x].doc # d
  BY <1>1, <1>3, ReindexAssumption DEF ReindexInv, LocksHeld, Worker
<1>4. PICK e \in WorkState : e.step \in {"after", "idle"} /\ work' = [work EXCEPT ![s] = e]
  <2>1. [IdleWork EXCEPT !.step = "after", !.doc = d] \in WorkState
        /\ [IdleWork EXCEPT !.step = "after", !.doc = d].step = "after"
    BY <1>1, IdleType DEF WorkState, Step
  <2> QED
    BY <2>1, IdleType DEF SaveWrites
<1>5. /\ work' \in [Worker -> WorkState] /\ work'[s] = e
      /\ \A x \in Worker \ {s} : work'[x] = work[x]
  BY <1>1, <1>4, WorkerMoves
<1>6. /\ meta_version' \in [Indexed -> Version]
      /\ doc_type' \in [Indexed -> [Version -> DocType \cup {0}]]
      /\ \A b \in Indexed : meta_version'[b] >= meta_version[b]
      /\ \A b \in Indexed \ {d} : meta_version'[b] = meta_version[b]
  <2>1. CASE UNCHANGED <<doc_type, meta_version>>
    BY <2>1 DEF ReindexInv, ReindexTypeOK, Version
  <2>2. CASE /\ meta_version[d] = work[s].version
             /\ meta_version' = [meta_version EXCEPT ![d] = v]
             /\ doc_type' = [doc_type EXCEPT ![d][v] = work[s].type]
    <3>1. meta_version \in [Indexed -> Version] /\ doc_type \in [Indexed -> [Version -> DocType \cup {0}]]
          /\ work[s].type \in DocType
      BY <1>1 DEF ReindexInv, ReindexTypeOK, WorkState
    <3> HIDE DEF d, v
    <3>2. doc_type' \in [Indexed -> [Version -> DocType \cup {0}]]
      BY <1>1, <1>2, <2>2, <3>1
    <3>3. meta_version' \in [Indexed -> Version] /\ meta_version'[d] = v
          /\ \A b \in Indexed \ {d} : meta_version'[b] = meta_version[b]
      BY <1>1, <1>2, <2>2, <3>1
    <3>4. \A b \in Indexed : meta_version'[b] \in Nat /\ meta_version[b] \in Nat
      BY <3>1, <3>3 DEF Version
    <3> QED
      BY <1>2, <2>2, <3>2, <3>3, <3>4
  <2> QED
    BY <2>1, <2>2 DEF SaveWrites
<1> HIDE DEF d, v
<1>7. ReindexTypeOK'
  BY <1>1, <1>5, <1>6 DEF ReindexInv, ReindexTypeOK, WorkState
<1>8. LocksHeld'
  BY <1>1, <1>4, <1>5 DEF ReindexInv, LocksHeld, d
<1>9. RunsReadLatest'
  BY <1>1, <1>3, <1>4, <1>5, <1>6 DEF ReindexInv, ReindexTypeOK, WorkState, RunsReadLatest
<1>10. IndexNotAhead'
  BY <1>1, <1>6 DEF ReindexInv, ReindexTypeOK, IndexNotAhead, Version
<1>11. SavesWithinBound' /\ OnlyFailuresFail'
  BY <1>1, <1>4, <1>5 DEF ReindexInv, SavesWithinBound, OnlyFailuresFail
<1> QED
  BY <1>7, <1>8, <1>9, <1>10, <1>11 DEF ReindexInv

(* What is neither work, nor a lock, nor the saved metadata keeps its type.*)
RestTyped ==
    /\ index \in [Indexed -> Version]
    /\ reindex_requested_at \in [Indexed -> {"null", "fresh", "old"}]
    /\ reindexes \in 0 .. Budget
    /\ cpuLeft \in BOOLEAN
    /\ givenUp \in [Indexed -> SUBSET Version]

(* A worker lets go of its document, if it has it, and goes on to          *)
(* something that neither saves nor runs.                                  *)
LEMMA LetsGo ==
    ASSUME ReindexInv, NEW w \in Worker, NEW c \in WorkState, work' = [work EXCEPT ![w] = c],
           c.step \notin {"leased", "edit"}, c.step = "failed" => "fail" \in faults,
           row_lock' \in [Indexed -> Worker \cup {Nobody}],
           \A d \in Indexed, x \in Worker : row_lock'[d] = x <=> row_lock[d] = x /\ x # w,
           UNCHANGED <<doc_type, meta_version, faults>>,
           RestTyped', \A d \in Indexed : index'[d] <= meta_version[d]
    PROVE  ReindexInv'
<1>1. /\ work' \in [Worker -> WorkState] /\ work'[w] = c
      /\ \A x \in Worker \ {w} : work'[x] = work[x]
  BY WorkerMoves
<1>2. ReindexTypeOK'
  BY <1>1 DEF ReindexInv, ReindexTypeOK, RestTyped, WorkState
<1>3. LocksHeld'
  BY <1>1 DEF ReindexInv, LocksHeld
<1>4. RunsReadLatest' /\ IndexNotAhead' /\ SavesWithinBound' /\ OnlyFailuresFail'
  BY <1>1 DEF ReindexInv, RunsReadLatest, IndexNotAhead, SavesWithinBound, OnlyFailuresFail
<1> QED
  BY <1>2, <1>3, <1>4 DEF ReindexInv

LEMMA InvAdmit ==
    ASSUME ReindexInv, NEW s \in Saver, Admit(s)
    PROVE  ReindexInv'
<1> DEFINE d == work[s].doc
<1>1. /\ s \in Worker /\ work[s] \in WorkState /\ d \in Indexed /\ work[s].step = "after"
      /\ UNCHANGED <<doc_type, meta_version, index, row_lock, cpuLeft, givenUp, faults>>
      /\ meta_version[d] \in Version
  BY DEF Worker, ReindexInv, ReindexTypeOK, WorkState, Admit
<1>2. PICK c \in WorkState : c.step \in {"idle", "admitted"} /\ work' = [work EXCEPT ![s] = c]
  <2> DEFINE e == [work[s] EXCEPT !.step = "admitted", !.version = meta_version[d]]
  <2>1. e \in WorkState /\ e.step = "admitted"
    BY <1>1 DEF WorkState, Step
  <2>2. CASE work' = [work EXCEPT ![s].step = "admitted", ![s].version = meta_version[d]]
    <3>1. work' = [work EXCEPT ![s] = e]
      BY <1>1, <2>2 DEF ReindexInv, ReindexTypeOK
    <3> QED
      BY <2>1, <3>1
  <2>3. CASE work' = [work EXCEPT ![s] = IdleWork]
    BY <2>3, IdleType
  <2> QED
    BY <2>2, <2>3 DEF Admit
<1>3. \A b \in Indexed, x \in Worker : row_lock'[b] = x <=> row_lock[b] = x /\ x # s
  BY <1>1 DEF ReindexInv, LocksHeld
<1>4. RestTyped'
  <2>1. reindex_requested_at' \in [Indexed -> {"null", "fresh", "old"}]
    BY <1>1 DEF Admit, ReindexInv, ReindexTypeOK
  <2>2. reindexes' \in 0 .. Budget
    BY ReindexAssumption DEF Admit, ReindexInv, ReindexTypeOK
  <2> QED
    BY <1>1, <2>1, <2>2 DEF RestTyped, ReindexInv, ReindexTypeOK
<1>5. row_lock' \in [Indexed -> Worker \cup {Nobody}] /\ \A b \in Indexed : index'[b] <= meta_version[b]
  BY <1>1 DEF ReindexInv, ReindexTypeOK, IndexNotAhead
<1> QED
  BY <1>1, <1>2, <1>3, <1>4, <1>5, LetsGo

LEMMA InvCronTakes ==
    ASSUME ReindexInv, NEW d \in Indexed, CronTakes(d)
    PROVE  ReindexInv'
<1> DEFINE c == [IdleWork EXCEPT !.step = "admitted", !.doc = d, !.version = meta_version[d]]
<1>1. c \in WorkState /\ c.step = "admitted"
  BY IdleType DEF ReindexInv, ReindexTypeOK, WorkState, Step
<1>2. /\ Cron \in Worker /\ work' = [work EXCEPT ![Cron] = c] /\ work[Cron].step = "idle"
      /\ UNCHANGED <<doc_type, meta_version, index, reindex_requested_at, row_lock, reindexes, cpuLeft, givenUp, faults>>
  BY DEF CronTakes, Worker
<1> HIDE DEF c
<1>3. \A b \in Indexed, x \in Worker : row_lock'[b] = x <=> row_lock[b] = x /\ x # Cron
  BY <1>2 DEF ReindexInv, LocksHeld
<1>4. RestTyped'
  BY <1>2 DEF RestTyped, ReindexInv, ReindexTypeOK
<1> QED
  BY <1>1, <1>2, <1>3, <1>4, LetsGo DEF ReindexInv, ReindexTypeOK, IndexNotAhead

LEMMA InvLease ==
    ASSUME ReindexInv, NEW w \in Worker, Lease(w)
    PROVE  ReindexInv'
<1> DEFINE d == work[w].doc
           c == [work[w] EXCEPT !.step = "leased", !.version = meta_version[d]]
<1>1. /\ work[w] \in WorkState /\ d \in Indexed /\ work[w].step = "admitted"
      /\ row_lock[d] = Nobody /\ meta_version[d] \in Version
      /\ UNCHANGED <<doc_type, meta_version, index, reindex_requested_at, reindexes, cpuLeft, givenUp, faults>>
      /\ row_lock' = [row_lock EXCEPT ![d] = w] /\ row_lock \in [Indexed -> Worker \cup {Nobody}]
      /\ Nobody \notin Worker
  BY ReindexAssumption DEF Worker, ReindexInv, ReindexTypeOK, WorkState, Lease
<1>2. c \in WorkState /\ c.step = "leased" /\ c.doc = d /\ c.version = meta_version[d]
  BY <1>1 DEF WorkState, Step
<1>3. work' = [work EXCEPT ![w] = c]
  BY <1>1 DEF Lease, ReindexInv, ReindexTypeOK
<1> HIDE DEF c, d
<1>4. /\ work' \in [Worker -> WorkState] /\ work'[w] = c
      /\ \A x \in Worker \ {w} : work'[x] = work[x]
  BY <1>2, <1>3, WorkerMoves
<1>5. ReindexTypeOK'
  BY <1>1, <1>4 DEF ReindexInv, ReindexTypeOK, WorkState
<1>6. LocksHeld'
  <2>1. ASSUME NEW x \in Worker, NEW b \in Indexed
        PROVE  row_lock'[b] = x <=> work'[x].step = "leased" /\ work'[x].doc = b
    <3>1. row_lock[b] = x <=> work[x].step = "leased" /\ work[x].doc = b
      BY DEF ReindexInv, LocksHeld
    <3> QED
      BY <1>1, <1>2, <1>4, <3>1
  <2> QED
    BY <2>1 DEF LocksHeld
<1>7. RunsReadLatest' /\ IndexNotAhead' /\ SavesWithinBound' /\ OnlyFailuresFail'
  BY <1>1, <1>2, <1>4 DEF ReindexInv, RunsReadLatest, IndexNotAhead, SavesWithinBound, OnlyFailuresFail
<1> QED
  BY <1>5, <1>6, <1>7 DEF ReindexInv

(* The steps that end a transaction or the worker's task.                  *)
LEMMA Unlocks ==
    ASSUME ReindexInv, NEW w \in Worker, NEW d \in Indexed,
           \/ work[w].step = "leased" /\ work[w].doc = d /\ row_lock' = [row_lock EXCEPT ![d] = Nobody]
           \/ work[w].doc = d /\ row_lock' = [row_lock EXCEPT ![d] = IF @ = w THEN Nobody ELSE @]
           \/ work[w].step # "leased" /\ row_lock' = row_lock
    PROVE  /\ row_lock' \in [Indexed -> Worker \cup {Nobody}]
           /\ \A b \in Indexed, x \in Worker : row_lock'[b] = x <=> row_lock[b] = x /\ x # w
<1>1. /\ row_lock \in [Indexed -> Worker \cup {Nobody}] /\ Nobody \notin Worker
      /\ \A b \in Indexed : row_lock[b] = w <=> work[w].step = "leased" /\ work[w].doc = b
  BY ReindexAssumption DEF Worker, ReindexInv, ReindexTypeOK, LocksHeld
<1> QED
  BY <1>1

LEMMA InvFinish ==
    ASSUME ReindexInv, NEW w \in Worker, Finish(w)
    PROVE  ReindexInv'
<1> DEFINE d == work[w].doc
<1>1. /\ work[w] \in WorkState /\ d \in Indexed /\ work[w].step = "leased"
      /\ work[w].version \in Version /\ work[w].version = meta_version[d]
      /\ UNCHANGED <<doc_type, meta_version, reindexes, cpuLeft, givenUp, faults>>
      /\ index' = [index EXCEPT ![d] = meta_version[d]]
      /\ row_lock' = [row_lock EXCEPT ![d] = Nobody]
      /\ work' = [work EXCEPT ![w] = IdleWork]
  BY DEF ReindexInv, ReindexTypeOK, WorkState, Finish, RunsReadLatest
<1>2. RestTyped'
  BY <1>1 DEF RestTyped, ReindexInv, ReindexTypeOK, Finish
<1>3. \A b \in Indexed : index'[b] <= meta_version[b]
  BY <1>1 DEF ReindexInv, ReindexTypeOK, IndexNotAhead, Version
<1>4. /\ row_lock' \in [Indexed -> Worker \cup {Nobody}]
      /\ \A b \in Indexed, x \in Worker : row_lock'[b] = x <=> row_lock[b] = x /\ x # w
  BY <1>1, Unlocks
<1> QED
  BY <1>1, <1>2, <1>3, <1>4, IdleType, LetsGo

LEMMA InvRunFails ==
    ASSUME ReindexInv, NEW w \in Worker, RunFails(w)
    PROVE  ReindexInv'
<1> DEFINE d == work[w].doc
<1>1. /\ work[w] \in WorkState /\ d \in Indexed /\ work[w].step = "leased" /\ "fail" \in faults
      /\ UNCHANGED <<doc_type, meta_version, index, reindex_requested_at, reindexes, cpuLeft, givenUp, faults>>
      /\ row_lock' = [row_lock EXCEPT ![d] = Nobody]
  BY DEF ReindexInv, ReindexTypeOK, WorkState, RunFails
<1>2. PICK c \in WorkState : c.step \in {"idle", "failed"} /\ work' = [work EXCEPT ![w] = c]
  <2>1. [work[w] EXCEPT !.step = "failed"] \in WorkState /\ [work[w] EXCEPT !.step = "failed"].step = "failed"
    BY <1>1 DEF WorkState, Step
  <2> QED
    BY <2>1, IdleType DEF RunFails
<1>3. RestTyped'
  BY <1>1 DEF RestTyped, ReindexInv, ReindexTypeOK
<1>4. /\ row_lock' \in [Indexed -> Worker \cup {Nobody}]
      /\ \A b \in Indexed, x \in Worker : row_lock'[b] = x <=> row_lock[b] = x /\ x # w
  BY <1>1, Unlocks
<1>5. \A b \in Indexed : index'[b] <= meta_version[b]
  BY <1>1 DEF ReindexInv, IndexNotAhead
<1> QED
  BY <1>1, <1>2, <1>3, <1>4, <1>5, LetsGo

LEMMA InvCronGivesUp ==
    ASSUME ReindexInv, CronGivesUp
    PROVE  ReindexInv'
<1> DEFINE d == work[Cron].doc
<1>1. /\ Cron \in Worker /\ work[Cron] \in WorkState /\ d \in Indexed /\ work[Cron].step = "failed"
      /\ work[Cron].version \in Version /\ work' = [work EXCEPT ![Cron] = IdleWork]
      /\ UNCHANGED <<doc_type, meta_version, index, row_lock, reindexes, cpuLeft, faults>>
  BY DEF Worker, ReindexInv, ReindexTypeOK, WorkState, CronGivesUp
<1>2. RestTyped'
  BY <1>1 DEF RestTyped, ReindexInv, ReindexTypeOK, CronGivesUp
<1> QED
  BY <1>1, <1>2, IdleType, Unlocks, LetsGo DEF ReindexInv, ReindexTypeOK, IndexNotAhead

LEMMA InvDies ==
    ASSUME ReindexInv, NEW w \in Worker, Dies(w)
    PROVE  ReindexInv'
<1> DEFINE d == work[w].doc
<1>1. /\ work[w] \in WorkState /\ d \in Indexed /\ work' = [work EXCEPT ![w] = IdleWork]
      /\ UNCHANGED <<doc_type, meta_version, index, reindex_requested_at, reindexes, cpuLeft, givenUp, faults>>
      /\ row_lock' = [row_lock EXCEPT ![d] = IF @ = w THEN Nobody ELSE @]
  BY DEF ReindexInv, ReindexTypeOK, WorkState, Dies
<1>2. RestTyped'
  BY <1>1 DEF RestTyped, ReindexInv, ReindexTypeOK
<1> QED
  BY <1>1, <1>2, IdleType, Unlocks, LetsGo DEF ReindexInv, ReindexTypeOK, IndexNotAhead

(* The steps that touch neither documents' rows nor work.                  *)
LEMMA InvTime ==
    ASSUME ReindexInv, (\E d \in Indexed : RequestAges(d)) \/ NewDay \/ CpuChanges \/ UNCHANGED reindexVars
    PROVE  ReindexInv'
<1>1. UNCHANGED <<doc_type, meta_version, index, row_lock, givenUp, faults, work>>
  BY DEF RequestAges, NewDay, CpuChanges, reindexVars
<1>2. RestTyped'
  <2>1. RestTyped /\ Budget \in Nat
    BY ReindexAssumption DEF RestTyped, ReindexInv, ReindexTypeOK
  <2>2. ASSUME NEW d \in Indexed, RequestAges(d)  PROVE RestTyped'
    BY <2>1, <2>2 DEF RestTyped, RequestAges
  <2>3. CASE NewDay
    BY <2>1, <2>3 DEF RestTyped, NewDay
  <2>4. CASE CpuChanges
    <3>1. (~cpuLeft) \in BOOLEAN
      OBVIOUS
    <3> QED
      BY <2>1, <2>4, <3>1 DEF RestTyped, CpuChanges
  <2>5. CASE UNCHANGED reindexVars
    BY <2>1, <2>5 DEF RestTyped, reindexVars
  <2> QED
    BY <2>2, <2>3, <2>4, <2>5
<1> QED
  BY <1>1, <1>2 DEF RestTyped, ReindexInv, ReindexTypeOK, LocksHeld, RunsReadLatest, IndexNotAhead,
                    SavesWithinBound, OnlyFailuresFail

LEMMA NextReindex == ReindexInv /\ [ReindexNext]_reindexVars => ReindexInv'
<1> SUFFICES ASSUME ReindexInv, [ReindexNext]_reindexVars  PROVE ReindexInv'
  OBVIOUS
<1>1. ASSUME NEW w \in Worker, Progress(w)  PROVE ReindexInv'
  BY <1>1, InvSaveWrites, InvAdmit, InvCronGivesUp, InvLease, InvFinish DEF Progress
<1> QED
  BY <1>1, InvSaveReads, InvRunFails, InvDies, InvCronTakes, InvTime DEF ReindexNext

(* What the row lock of a run is for, and that the bounds hold, whatever   *)
(* fails and dies.                                                         *)
THEOREM ReindexInvariant == ReindexSpec => []ReindexInv
BY InitReindex, NextReindex, PTL DEF ReindexSpec

-----------------------------------------------------------------------------
(* The steps that change an index or clear a request.                      *)
LEMMA IndexSteps ==
    ASSUME ReindexInv, [ReindexNext]_reindexVars, NEW d \in Indexed
    PROVE  /\ \/ index'[d] = index[d]
              \/ index'[d] = meta_version[d]
           /\ reindex_requested_at[d] # "null" /\ reindex_requested_at'[d] = "null"
                => index'[d] = meta_version[d] \/ work[Cron].step = "failed"
<1> DEFINE P == /\ \/ index'[d] = index[d]
                   \/ index'[d] = meta_version[d]
                /\ reindex_requested_at[d] # "null" /\ reindex_requested_at'[d] = "null"
                     => index'[d] = meta_version[d] \/ work[Cron].step = "failed"
<1>0. /\ index \in [Indexed -> Version]
      /\ reindex_requested_at \in [Indexed -> {"null", "fresh", "old"}]
  BY DEF ReindexInv, ReindexTypeOK
<1>1. ASSUME NEW w \in Worker, Finish(w)  PROVE P
  <2>1. /\ work[w].doc \in Indexed /\ work[w].version = meta_version[work[w].doc]
        /\ index' = [index EXCEPT ![work[w].doc] = work[w].version]
        /\ reindex_requested_at' = [reindex_requested_at EXCEPT ![work[w].doc] = "null"]
    BY <1>1 DEF Finish, ReindexInv, ReindexTypeOK, RunsReadLatest
  <2>2. CASE work[w].doc = d
    BY <1>0, <2>1, <2>2
  <2>3. CASE work[w].doc # d
    BY <1>0, <2>1, <2>3
  <2> QED
    BY <2>2, <2>3
<1>2. ASSUME NEW s \in Saver, Admit(s)  PROVE P
  BY <1>0, <1>2 DEF Admit
<1>3. ASSUME NEW w \in Worker, Progress(w)  PROVE P
  BY <1>1, <1>2, <1>3 DEF Progress, SaveWrites, CronGivesUp, Lease
<1>4. ASSUME NEW w \in Worker, RunFails(w) \/ Dies(w)  PROVE P
  BY <1>4 DEF RunFails, Dies
<1>5. ASSUME NEW s \in Saver, NEW b \in Indexed, NEW t \in DocType, SaveReads(s, b, t)  PROVE P
  BY <1>5 DEF SaveReads
<1>6. ASSUME NEW b \in Indexed, CronTakes(b) \/ RequestAges(b)  PROVE P
  BY <1>0, <1>6 DEF CronTakes, RequestAges
<1>7. CASE NewDay \/ CpuChanges \/ UNCHANGED reindexVars
  BY <1>7 DEF NewDay, CpuChanges, reindexVars
<1> QED
  BY <1>3, <1>4, <1>5, <1>6, <1>7 DEF ReindexNext

(* No step replaces the index of a newer save by that of an older one,     *)
(* however long a run takes and whatever is saved meanwhile.               *)
THEOREM IndexMovesForward == ReindexSpec => IndexNeverRegresses
<1>1. ReindexInv /\ [ReindexNext]_reindexVars => [\A d \in Indexed : index'[d] >= index[d]]_reindexVars
  <2> SUFFICES ASSUME ReindexInv, [ReindexNext]_reindexVars, NEW d \in Indexed  PROVE index'[d] >= index[d]
    OBVIOUS
  <2>1. index[d] \in Nat /\ meta_version[d] \in Nat /\ index[d] <= meta_version[d]
    BY DEF ReindexInv, ReindexTypeOK, IndexNotAhead, Version
  <2> QED
    BY <2>1, IndexSteps
<1> QED
  BY ReindexInvariant, <1>1, PTL DEF ReindexSpec, IndexNeverRegresses

(* Whatever dies or fails, a recorded request goes only with an index that *)
(* is up to date, or when the cron gives up after a failed run.            *)
THEOREM RequestsOutliveFailures == ReindexSpec => RequestOutlivesFailures
<1>1. ReindexInv /\ [ReindexNext]_reindexVars =>
        [\A d \in Indexed :
           reindex_requested_at[d] # "null" /\ reindex_requested_at'[d] = "null"
             => TypeOf(d, index'[d]) = TypeNow(d) \/ work[Cron].step = "failed"]_reindexVars
  BY IndexSteps DEF TypeOf, TypeNow
<1> QED
  BY ReindexInvariant, <1>1, PTL DEF ReindexSpec, RequestOutlivesFailures
-----------------------------------------------------------------------------
(* Where nothing dies and no run fails, a document whose index is behind   *)
(* is on its way.                                                          *)
BehindIsPending ==
    \A d \in Indexed : "die" \notin faults /\ ~InStep(d) => Pending(d)

LEMMA PendingStays ==
    ASSUME ReindexInv, "fail" \notin faults, BehindIsPending, [ReindexNext]_reindexVars
    PROVE  BehindIsPending'
<1> SUFFICES ASSUME NEW d \in Indexed, "die" \notin faults, ~InStep(d)', ~Pending(d)'  PROVE FALSE
  <2>1. faults' = faults
    BY DEF ReindexNext, SaveReads, Progress, SaveWrites, Admit, CronGivesUp, Lease, Finish, RunFails, Dies,
           CronTakes, RequestAges, NewDay, CpuChanges, reindexVars
  <2> QED
    BY <2>1 DEF BehindIsPending
<1>0. /\ index \in [Indexed -> Version] /\ meta_version \in [Indexed -> Version]
      /\ reindex_requested_at \in [Indexed -> {"null", "fresh", "old"}]
      /\ work \in [Worker -> WorkState] /\ Saver \subseteq Worker /\ Cron \in Worker
      /\ doc_type \in [Indexed -> [Version -> DocType \cup {0}]]
  BY DEF ReindexInv, ReindexTypeOK, WorkState, Worker
<1>1. ~InStep(d) => Pending(d)
  BY DEF BehindIsPending
<1> DEFINE Busy(w) == /\ work[w].doc = d
                      /\ work[w].step \in {"admitted", "leased"} \/ (w \in Saver /\ work[w].step = "after")
<1>2. /\ Pending(d) <=> reindex_requested_at[d] # "null" \/ \E w \in Worker : Busy(w)
      /\ Pending(d)' <=> reindex_requested_at'[d] # "null" \/ \E w \in Worker : Busy(w)'
  BY <1>0 DEF Pending
<1> HIDE DEF Busy
(* Another worker's step leaves d pending. *)
<1>3. ASSUME NEW w \in Worker, reindex_requested_at[d] # "null" => reindex_requested_at'[d] # "null",
             Busy(w) => Busy(w)', NEW c, work' = [work EXCEPT ![w] = c]
      PROVE  Pending(d) => Pending(d)'
  <2>1. ASSUME NEW x \in Worker, x # w  PROVE Busy(x) => Busy(x)'
    BY <1>0, <1>3, <2>1 DEF Busy
  <2> QED
    BY <1>2, <1>3, <2>1
<1>4. ASSUME UNCHANGED <<doc_type, meta_version, index>>  PROVE ~InStep(d) /\ Pending(d)
  BY <1>1, <1>4 DEF InStep, TypeOf, TypeNow
<1>5. ASSUME NEW s \in Saver, NEW b \in Indexed, NEW t \in DocType, SaveReads(s, b, t)  PROVE FALSE
  <2>1. s \in Worker /\ ~Busy(s) /\ UNCHANGED <<doc_type, meta_version, index, reindex_requested_at>>
    BY <1>0, <1>5 DEF SaveReads, Busy
  <2> QED
    BY <1>3, <1>4, <1>5, <2>1 DEF SaveReads
<1>6. ASSUME NEW s \in Saver, SaveWrites(s)  PROVE FALSE
  <2>1. s \in Worker /\ ~Busy(s) /\ UNCHANGED <<index, reindex_requested_at>> /\ work[s].step = "edit"
    BY <1>0, <1>6 DEF SaveWrites, Busy
  <2>2. Pending(d) => Pending(d)'
    BY <1>3, <1>6, <2>1 DEF SaveWrites
  <2>3. CASE UNCHANGED <<doc_type, meta_version>>
    BY <1>4, <2>1, <2>2, <2>3
  <2> DEFINE b == work[s].doc
             v == work[s].version + 1
  <2>4. CASE /\ meta_version[b] = work[s].version
             /\ meta_version' = [meta_version EXCEPT ![b] = v]
             /\ doc_type' = [doc_type EXCEPT ![b][v] = work[s].type]
             /\ TypeNow(b) # work[s].type => work' = [work EXCEPT ![s] = [IdleWork EXCEPT !.step = "after", !.doc = b]]
    <3>1. b \in Indexed /\ v \in Version /\ v = meta_version[b] + 1
          /\ index[d] \in Nat /\ meta_version[b] \in Nat /\ index[d] <= meta_version[d]
          /\ work[s].type \in DocType
      <4>1. work[s] \in WorkState /\ work[s].version < VersionBound
        BY <1>0, <2>1 DEF ReindexInv, SavesWithinBound
      <4> QED
        BY <1>0, <2>4, <4>1, ReindexAssumption DEF WorkState, Version, ReindexInv, IndexNotAhead
    <3>2. CASE b # d
      <4>1. meta_version'[d] = meta_version[d] /\ doc_type'[d] = doc_type[d]
        BY <1>0, <2>4, <3>1, <3>2
      <4> QED
        BY <1>1, <2>1, <2>2, <4>1 DEF InStep, TypeOf, TypeNow
    <3>3. CASE b = d
      <4>1. meta_version'[d] = v /\ doc_type'[d] = [doc_type[d] EXCEPT ![v] = work[s].type]
        BY <1>0, <2>4, <3>1, <3>3
      <4>2. doc_type'[d][v] = work[s].type /\ index[d] # v /\ index[d] \in Version
            /\ doc_type'[d][index[d]] = doc_type[d][index[d]]
        BY <1>0, <3>1, <3>3, <4>1
      <4>3. CASE TypeNow(d) = work[s].type
        BY <1>1, <2>1, <2>2, <4>1, <4>2, <4>3 DEF InStep, TypeOf, TypeNow
      <4>4. CASE TypeNow(d) # work[s].type
        <5>1. work'[s] = [IdleWork EXCEPT !.step = "after", !.doc = d]
          BY <1>0, <2>1, <2>4, <3>3, <4>4
        <5>2. work'[s].step = "after" /\ work'[s].doc = d
          BY <5>1, IdleType DEF WorkState
        <5> QED
          BY <1>2, <2>1, <5>2 DEF Busy
      <4> QED
        BY <4>3, <4>4
    <3> QED
      BY <3>2, <3>3
  <2> QED
    BY <1>6, <2>3, <2>4 DEF SaveWrites
<1>7. ASSUME NEW s \in Saver, Admit(s)  PROVE FALSE
  <2>1. s \in Worker /\ UNCHANGED <<doc_type, meta_version, index>>
    BY <1>0, <1>7 DEF Admit
  <2>2. reindex_requested_at[d] # "null" => reindex_requested_at'[d] # "null"
    BY <1>0, <1>7 DEF Admit
  <2>3. CASE work[s].doc = d
    <3>1. reindex_requested_at'[d] # "null"
      BY <1>0, <1>7, <2>3 DEF Admit
    <3> QED
      BY <1>2, <3>1
  <2>4. CASE work[s].doc # d
    <3>1. ~Busy(s)
      BY <2>4 DEF Busy
    <3>2. \E c : work' = [work EXCEPT ![s] = c]
      <4>1. CASE work' = [work EXCEPT ![s].step = "admitted", ![s].version = meta_version[work[s].doc]]
        <5>1. work' = [work EXCEPT ![s] = [work[s] EXCEPT !.step = "admitted", !.version = meta_version[work[s].doc]]]
          BY <1>0, <2>1, <4>1
        <5> QED
          BY <5>1
      <4> QED
        BY <1>7, <4>1 DEF Admit
    <3> QED
      BY <1>3, <1>4, <2>1, <2>2, <3>1, <3>2
  <2> QED
    BY <2>3, <2>4
<1>8. ASSUME NEW w \in Worker, Lease(w)  PROVE FALSE
  <2> DEFINE c == [work[w] EXCEPT !.step = "leased", !.version = meta_version[work[w].doc]]
  <2>1. work' = [work EXCEPT ![w] = c] /\ UNCHANGED <<doc_type, meta_version, index, reindex_requested_at>>
    BY <1>0, <1>8 DEF Lease
  <2>2. c.step = "leased" /\ c.doc = work[w].doc
    BY <1>0 DEF WorkState
  <2>3. Busy(w) => Busy(w)'
    BY <1>0, <2>1, <2>2 DEF Busy
  <2> QED
    BY <1>3, <1>4, <2>1, <2>3
<1>9. ASSUME NEW w \in Worker, Finish(w)  PROVE FALSE
  <2>1. /\ work[w].doc \in Indexed /\ work[w].version = meta_version[work[w].doc]
        /\ index' = [index EXCEPT ![work[w].doc] = work[w].version]
        /\ reindex_requested_at' = [reindex_requested_at EXCEPT ![work[w].doc] = "null"]
        /\ UNCHANGED <<doc_type, meta_version>> /\ work' = [work EXCEPT ![w] = IdleWork]
    BY <1>9 DEF Finish, ReindexInv, ReindexTypeOK, RunsReadLatest
  <2>2. CASE work[w].doc = d
    BY <1>0, <2>1, <2>2 DEF InStep, TypeOf, TypeNow
  <2>3. CASE work[w].doc # d
    <3>1. ~Busy(w) /\ index'[d] = index[d] /\ reindex_requested_at'[d] = reindex_requested_at[d]
      BY <1>0, <2>1, <2>3 DEF Busy
    <3>2. Pending(d) => Pending(d)'
      BY <1>3, <2>1, <3>1
    <3> QED
      BY <1>1, <2>1, <3>1, <3>2 DEF InStep, TypeOf, TypeNow
  <2> QED
    BY <2>2, <2>3
<1>10. ~CronGivesUp
  BY <1>0 DEF CronGivesUp, ReindexInv, OnlyFailuresFail
<1>11. ASSUME NEW b \in Indexed, CronTakes(b)  PROVE FALSE
  <2>1. ~Busy(Cron) /\ UNCHANGED <<doc_type, meta_version, index, reindex_requested_at>>
    BY <1>11, ReindexAssumption DEF CronTakes, Busy
  <2> QED
    BY <1>0, <1>3, <1>4, <1>11, <2>1 DEF CronTakes
<1>12. CASE \/ \E b \in Indexed : RequestAges(b)
            \/ NewDay \/ CpuChanges \/ UNCHANGED reindexVars
  <2>1. /\ UNCHANGED <<doc_type, meta_version, index, work>>
        /\ reindex_requested_at[d] # "null" => reindex_requested_at'[d] # "null"
    BY <1>0, <1>12 DEF RequestAges, NewDay, CpuChanges, reindexVars
  <2> QED
    BY <1>2, <1>4, <2>1 DEF Busy
<1>13. \A w \in Worker : ~RunFails(w) /\ ~Dies(w)
  BY DEF RunFails, Dies
<1> QED
  BY <1>5, <1>6, <1>7, <1>8, <1>9, <1>10, <1>11, <1>12, <1>13 DEF ReindexNext, Progress

(* However saves, coalesced requests, deferrals and runs interleave, an    *)
(* index that is behind the saved type is never forgotten, where no run    *)
(* fails; where one does, the cron may clear a request made meanwhile      *)
(* (reindex.ts:275).                                                       *)
THEOREM NothingIsDropped == ReindexSpec /\ "fail" \notin faults => []NeverDropped
<1>1. ReindexInit => BehindIsPending
  BY DEF ReindexInit, BehindIsPending, InStep, TypeOf, TypeNow
<1>2. [ReindexNext]_reindexVars => faults' = faults
  BY DEF ReindexNext, SaveReads, Progress, SaveWrites, Admit, CronGivesUp, Lease, Finish, RunFails, Dies,
         CronTakes, RequestAges, NewDay, CpuChanges, reindexVars
<1> DEFINE Inv == "fail" \notin faults /\ BehindIsPending
<1>3. ReindexInv /\ Inv /\ [ReindexNext]_reindexVars => Inv'
  BY <1>2, PendingStays
<1>4. Inv => NeverDropped
  BY DEF NeverDropped, BehindIsPending
<1> HIDE DEF Inv
<1>5. ReindexSpec /\ Inv => []Inv
  BY ReindexInvariant, <1>3, PTL DEF ReindexSpec
<1>6. ReindexSpec /\ "fail" \notin faults => Inv
  BY <1>1 DEF ReindexSpec, Inv
<1> QED
  BY <1>4, <1>5, <1>6, PTL
=============================================================================
