--------------------------- MODULE LifecycleProofs ---------------------------
(***************************************************************************)
(* When a library is emptied, for any number of libraries, days of grace   *)
(* and limits of a run: never that of an owner who kept Pro, never in the  *)
(* run during which something was uploaded, and, where the cron works and  *)
(* a run reaches every library, in time.                                   *)
(***************************************************************************)
EXTENDS LibraryLifecycle, DataTheorems

Dates == {Null} \cup 0 .. GraceTicks
Ages == {Null} \cup 0 .. RevokedTicks
Runs == [step : {"idle", "purge", "owners", "done"}, listed : SUBSET LibraryId,
         after : {<<>>} \cup [LibraryId -> Dates], revoked : {<<>>} \cup [LibraryId -> Ages],
         purged : SUBSET LibraryId, todo : SUBSET LibraryId, answer : OwnerState \cup {Null}]

Running == cron.step \in {"purge", "owners"}

(* A run has listed what it works with, and holds an answer only about the *)
(* next library of the owners task.                                        *)
LifeInv ==
    /\ LifecycleTypeOK
    /\ cron \in Runs
    /\ half => cron.step = "idle"
    /\ Running => cron.after \in [LibraryId -> Dates] /\ cron.revoked \in [LibraryId -> Ages]
    /\ cron.answer # Null => cron.step = "owners" /\ cron.todo # {}

LEMMA Constants ==
    /\ RevokedTicks \in Nat /\ GraceTicks \in Nat /\ RevokedTicks >= 2 /\ GraceTicks >= 2
    /\ RevokedTicks = 2 * RevokedDays /\ GraceTicks = 2 * GraceDays
    /\ RevokedDays \in Nat /\ GraceDays \in Nat
    /\ HistoryBound \in Nat /\ Null \notin Int /\ LibraryId \subseteq Nat
BY LifecycleAssumption DEF RevokedTicks, GraceTicks, Ticks, LibraryId

LEMMA SmallestIsIn ==
    ASSUME NEW S \in SUBSET LibraryId, S # {}
    PROVE  Foremost(S) \in S
<1>1. \E l \in S : \A k \in S : l <= k
  BY LeastOfNats, Constants
<1> QED
  BY <1>1 DEF Foremost

LEMMA LifeStarts == LifecycleInit => LifeInv
<1> SUFFICES ASSUME LifecycleInit  PROVE LifeInv
  OBVIOUS
<1>1. 0 \in 0 .. DayBound - 1 /\ 0 \in 0 .. HistoryBound
  BY LifecycleAssumption
<1>2. LifecycleTypeOK
  BY <1>1 DEF LifecycleInit, LifecycleTypeOK, Idle, OwnerState
<1> QED
  BY <1>2 DEF LifecycleInit, LifeInv, Idle, Runs, Running

(* The library a step of the run is about, and what it knows of it.        *)
LEMMA Visits ==
    ASSUME LifeInv, cron.todo # {}
    PROVE  Foremost(cron.todo) \in LibraryId /\ Foremost(cron.todo) \in cron.todo
BY SmallestIsIn DEF LifeInv, LifecycleTypeOK

LEMMA OwnerKeeps == 
    ASSUME LifeInv, NEW l \in LibraryId,
           \/ \E state \in OwnerState \ {owner[l]} : OwnerChanges(l, state)
           \/ AccessRefreshed(l) \/ (\E again \in BOOLEAN : Webhook(l, again)) \/ WebhookLost(l) \/ Upload(l)
    PROVE  LifeInv'
<1>0. UNCHANGED <<clock, cron>>
  BY DEF OwnerChanges, AccessRefreshed, Webhook, WebhookLost, Upload
<1>1. ASSUME NEW state \in OwnerState, OwnerChanges(l, state) PROVE LifecycleTypeOK'
  BY <1>1, Constants DEF OwnerChanges, LifeInv, LifecycleTypeOK, columns, clock
<1>2. ASSUME AccessRefreshed(l) PROVE LifecycleTypeOK'
  BY <1>2 DEF AccessRefreshed, LifeInv, LifecycleTypeOK, columns, clock, history
<1>3. ASSUME NEW again \in BOOLEAN, Webhook(l, again) PROVE LifecycleTypeOK'
  <2>1. purge_after' \in [LibraryId -> Dates]
    <3>1. purge_after \in [LibraryId -> Dates] /\ GraceTicks \in Dates
      BY Constants DEF LifeInv, LifecycleTypeOK, Dates
    <3>2. Sooner(purge_after[l], GraceTicks) \in Dates
      BY <3>1 DEF Sooner
    <3> QED
      BY <1>3, <3>1, <3>2 DEF Webhook, markLibraryForPurge
  <2> QED
    BY <1>3, <2>1 DEF Webhook, LifeInv, LifecycleTypeOK, Dates, clock, history
<1>4. ASSUME WebhookLost(l) PROVE LifecycleTypeOK'
  BY <1>4 DEF WebhookLost, LifeInv, LifecycleTypeOK, columns, clock, history
<1>5. ASSUME Upload(l) PROVE LifecycleTypeOK'
  BY <1>5, Constants DEF Upload, LifeInv, LifecycleTypeOK, clock, clerk
<1>6. LifecycleTypeOK'
  BY <1>1, <1>2, <1>3, <1>4, <1>5
<1> QED
  BY <1>0, <1>6 DEF LifeInv, Running, clock

(* What the transaction of one library writes keeps its columns in range.  *)
LEMMA DecisionTypes ==
    ASSUME LifeInv, NEW l \in LibraryId, CronDecides(l), Running
    PROVE  /\ purge_after' \in [LibraryId -> Dates] /\ pro_revoked_at' \in [LibraryId -> Ages]
           /\ purged_at' \in [LibraryId -> BOOLEAN]
           /\ \A k \in LibraryId \ {l} : /\ purge_after'[k] = purge_after[k]
                                         /\ pro_revoked_at'[k] = pro_revoked_at[k] /\ purged_at'[k] = purged_at[k]
<1>0. /\ purge_after \in [LibraryId -> Dates] /\ pro_revoked_at \in [LibraryId -> Ages]
      /\ purged_at \in [LibraryId -> BOOLEAN] /\ GraceTicks \in Dates /\ 0 \in Dates /\ 0 \in Ages
      /\ Null \in Dates /\ Null \in Ages
  BY Constants DEF LifeInv, LifecycleTypeOK, Dates, Ages
<1>1. ASSUME NEW after \in {0, GraceTicks}, markLibraryForPurge(l, after)
      PROVE  purge_after' \in [LibraryId -> Dates] /\ \A k \in LibraryId \ {l} : purge_after'[k] = purge_after[k]
  <2>1. Sooner(purge_after[l], after) \in Dates
    BY <1>0 DEF Sooner
  <2> QED
    BY <1>0, <1>1, <2>1 DEF markLibraryForPurge
<1>2. ASSUME NEW revoked \in BOOLEAN, setProRevoked(l, revoked)
      PROVE  pro_revoked_at' \in [LibraryId -> Ages] /\ \A k \in LibraryId \ {l} : pro_revoked_at'[k] = pro_revoked_at[k]
  <2> DEFINE a == IF ~revoked THEN Null ELSE IF pro_revoked_at[l] = Null THEN 0 ELSE pro_revoked_at[l]
  <2>1. a \in Ages
    BY <1>0
  <2>2. pro_revoked_at' = IF purged_at[l] THEN pro_revoked_at ELSE [pro_revoked_at EXCEPT ![l] = a]
    BY <1>2 DEF setProRevoked
  <2> HIDE DEF a
  <2> QED
    BY <1>0, <2>1, <2>2
<1>3. CASE cron.after[l] # Null
  BY <1>0, <1>3 DEF CronDecides, reviveLibrary
<1>4. CASE cron.after[l] = Null
  <2>1. \/ markLibraryForPurge(l, GraceTicks) \/ markLibraryForPurge(l, 0) \/ UNCHANGED purge_after
    BY <1>4 DEF CronDecides
  <2>2. \/ setProRevoked(l, TRUE) \/ setProRevoked(l, FALSE) \/ UNCHANGED pro_revoked_at
    BY <1>4 DEF CronDecides
  <2>3. UNCHANGED purged_at
    BY <1>4 DEF CronDecides
  <2> QED
    BY <1>0, <1>1, <1>2, <2>1, <2>2, <2>3
<1> QED
  BY <1>3, <1>4

LEMMA RunKeeps == ASSUME LifeInv, CronStep PROVE LifeInv'
<1>0. /\ cron \in Runs /\ cron.todo \subseteq LibraryId /\ (half => cron.step = "idle")
      /\ purge_after \in [LibraryId -> Dates] /\ pro_revoked_at \in [LibraryId -> Ages]
      /\ owner \in [LibraryId -> OwnerState] /\ Idle \in Runs /\ Idle.step = "idle" /\ Idle.answer = Null
      /\ docs \in [LibraryId -> BOOLEAN] /\ purged_at \in [LibraryId -> BOOLEAN]
  BY DEF LifeInv, LifecycleTypeOK, Runs, Dates, Ages, Idle
<1>1. CASE CronLists
  <2> DEFINE due == {l \in {k \in LibraryId : ~purged_at[k]} : purge_after[l] # Null /\ purge_after[l] = 0}
             todo == Sliced(due, PurgePerRun)
             listed == {k \in LibraryId : ~purged_at[k]}
  <2>1. todo \in SUBSET LibraryId
    BY DEF Sliced
  <2>2. /\ ~half /\ UNCHANGED <<clerk, columns, clock, history>>
        /\ cron' = [Idle EXCEPT !.step = "purge", !.listed = listed, !.after = purge_after,
                                !.revoked = pro_revoked_at, !.todo = todo]
    BY <1>1 DEF CronLists
  <2> HIDE DEF todo, listed
  <2>3. listed \in SUBSET LibraryId
    BY DEF listed
  <2>4. /\ cron' \in Runs /\ cron'.step = "purge" /\ cron'.after \in [LibraryId -> Dates]
        /\ cron'.revoked \in [LibraryId -> Ages] /\ cron'.answer = Null
    BY <1>0, <2>1, <2>2, <2>3 DEF Runs
  <2> QED
    BY <2>2, <2>4 DEF LifeInv, LifecycleTypeOK, Running, Runs, clerk, columns, clock, history
<1>2. CASE CronPurges
  <2> DEFINE l == Foremost(cron.todo)
             due == PurgeIsDue(l)
             todo == cron.todo \ {l}
             purged == IF due THEN cron.purged \cup {l} ELSE cron.purged
  <2>1. l \in LibraryId /\ cron.step = "purge" /\ cron.answer = Null /\ ~half
    BY <1>0, <1>2, Visits DEF CronPurges, LifeInv
  <2>2. /\ docs' = [docs EXCEPT ![l] = @ /\ ~due] /\ purged_at' = [purged_at EXCEPT ![l] = @ \/ due]
        /\ cron' = [cron EXCEPT !.todo = todo, !.purged = purged]
        /\ UNCHANGED <<clerk, purge_after, pro_revoked_at, clock, history>>
    BY <1>2 DEF CronPurges
  <2>3. due \in BOOLEAN
    BY DEF PurgeIsDue
  <2>4. todo \in SUBSET LibraryId /\ purged \in SUBSET LibraryId
    BY <1>0, <2>1 DEF Runs
  <2> HIDE DEF l, due, todo, purged
  <2>5. /\ cron' \in Runs /\ cron'.step = "purge" /\ cron'.answer = Null
        /\ cron'.after = cron.after /\ cron'.revoked = cron.revoked /\ cron'.todo = todo
    BY <1>0, <2>1, <2>2, <2>4 DEF Runs
  <2>6. docs' \in [LibraryId -> BOOLEAN] /\ purged_at' \in [LibraryId -> BOOLEAN]
    BY <1>0, <2>1, <2>2, <2>3
  <2>7. cron.after \in [LibraryId -> Dates] /\ cron.revoked \in [LibraryId -> Ages]
    BY <2>1 DEF LifeInv, Running
  <2>8. LifecycleTypeOK'
    BY <2>2, <2>4, <2>5, <2>6 DEF LifeInv, LifecycleTypeOK, clerk, clock, history
  <2> QED
    BY <2>1, <2>2, <2>5, <2>7, <2>8 DEF LifeInv, Running, clock
<1>3. CASE CronTurnsToOwners
  <2> DEFINE checked == {l \in cron.listed \ cron.purged : cron.after[l] = Null \/ cron.revoked[l] # Null}
             todo == Rotate(checked, ChecksPerRun)
  <2>1. cron.step = "purge" /\ cron' = [cron EXCEPT !.step = "owners", !.todo = todo] /\ ~half
        /\ UNCHANGED <<clerk, columns, clock, history>>
    BY <1>0, <1>3 DEF CronTurnsToOwners
  <2>2. todo \in SUBSET LibraryId
    BY <1>0 DEF Rotate, Runs
  <2> HIDE DEF todo
  <2>3. /\ cron' \in Runs /\ cron'.step = "owners" /\ cron'.after = cron.after /\ cron'.revoked = cron.revoked
        /\ cron'.answer = cron.answer /\ cron'.todo \subseteq LibraryId
    BY <1>0, <2>1, <2>2 DEF Runs
  <2>4. cron.after \in [LibraryId -> Dates] /\ cron.revoked \in [LibraryId -> Ages] /\ cron.answer = Null
    BY <2>1 DEF LifeInv, Running
  <2> QED
    BY <2>1, <2>3, <2>4 DEF LifeInv, LifecycleTypeOK, Running, clerk, columns, clock, history
<1>4. CASE CronAsks
  <2> DEFINE l == Foremost(cron.todo)
  <2>1. /\ l \in LibraryId /\ cron.step = "owners" /\ cron.todo # {} /\ cron.answer = Null /\ ~half
        /\ \/ cron' = [cron EXCEPT !.answer = owner[l]]
           \/ cron' = [cron EXCEPT !.todo = cron.todo \ {l}]
        /\ UNCHANGED <<clerk, columns, clock, history>>
    BY <1>0, <1>4, Visits DEF CronAsks
  <2> HIDE DEF l
  <2>2. /\ cron' \in Runs /\ cron'.step = "owners" /\ cron'.after = cron.after /\ cron'.revoked = cron.revoked
        /\ cron'.todo \subseteq LibraryId /\ (cron'.answer # Null => cron'.todo # {})
        /\ cron'.answer \in OwnerState \cup {Null}
    BY <1>0, <2>1 DEF Runs
  <2>3. cron.after \in [LibraryId -> Dates] /\ cron.revoked \in [LibraryId -> Ages]
    BY <2>1 DEF LifeInv, Running
  <2> QED
    BY <2>1, <2>2, <2>3 DEF LifeInv, LifecycleTypeOK, Running, clerk, columns, clock, history
<1>5. CASE CronSettles
  <2> DEFINE l == Foremost(cron.todo)
  <2>1. /\ l \in LibraryId /\ cron.step = "owners" /\ ~half /\ CronDecides(l) /\ Running
        /\ cron' = [cron EXCEPT !.todo = cron.todo \ {l}, !.answer = Null]
        /\ UNCHANGED <<clerk, docs, clock, history>>
    BY <1>0, <1>5, Visits DEF CronSettles, Running
  <2> HIDE DEF l
  <2>2. /\ cron' \in Runs /\ cron'.step = "owners" /\ cron'.after = cron.after /\ cron'.revoked = cron.revoked
        /\ cron'.todo \subseteq LibraryId /\ cron'.answer = Null
    BY <1>0, <2>1 DEF Runs
  <2>3. cron.after \in [LibraryId -> Dates] /\ cron.revoked \in [LibraryId -> Ages]
    BY <2>1 DEF LifeInv, Running
  <2>4. /\ purge_after' \in [LibraryId -> Dates] /\ pro_revoked_at' \in [LibraryId -> Ages]
        /\ purged_at' \in [LibraryId -> BOOLEAN]
    BY <2>1, DecisionTypes
  <2> QED
    BY <2>1, <2>2, <2>3, <2>4 DEF LifeInv, LifecycleTypeOK, Running, clerk, clock, history, Dates, Ages
<1>6. CASE CronEnds
  <2>1. cron' = [Idle EXCEPT !.step = "done"] /\ ~half /\ UNCHANGED <<clerk, columns, clock, history>>
    BY <1>6 DEF CronEnds
  <2>2. cron' \in Runs /\ cron'.step = "done" /\ cron'.answer = Null /\ cron'.todo \subseteq LibraryId
    BY <1>0, <2>1 DEF Runs
  <2> QED
    BY <2>1, <2>2 DEF LifeInv, LifecycleTypeOK, Running, clerk, columns, clock, history
<1> QED
  BY <1>1, <1>2, <1>3, <1>4, <1>5, <1>6 DEF CronStep

LEMMA AgesGrow ==
    ASSUME NEW bound \in Nat, NEW age \in 0 .. bound
    PROVE  Older(age, bound) \in 0 .. bound /\ Older(age, bound) <= age + 1 /\ Older(age, bound) >= age
BY DEF Older

LEMMA TickKeeps == ASSUME LifeInv, Tick PROVE LifeInv'
<1>0. /\ LifecycleTypeOK /\ Idle \in Runs /\ Idle.step = "idle" /\ Idle.answer = Null /\ Idle.todo = {} /\ cron' = Idle
  BY DEF LifeInv, Runs, Idle, Tick
<1>1. day' \in 0 .. DayBound - 1
  BY <1>0, LifecycleAssumption DEF Tick, LifecycleTypeOK
<1>2. purge_after' \in [LibraryId -> {Null} \cup 0 .. GraceTicks]
  <2>1. ASSUME NEW l \in LibraryId
        PROVE  (IF purge_after[l] \in {Null, 0} THEN purge_after[l] ELSE purge_after[l] - 1) \in {Null} \cup 0 .. GraceTicks
    BY <1>0, Constants DEF LifecycleTypeOK
  <2> QED
    BY <2>1 DEF Tick
<1>3. pro_revoked_at' \in [LibraryId -> {Null} \cup 0 .. RevokedTicks]
  <2>1. ASSUME NEW l \in LibraryId, pro_revoked_at[l] # Null PROVE Older(pro_revoked_at[l], RevokedTicks) \in 0 .. RevokedTicks
    BY <1>0, <2>1, Constants, AgesGrow DEF LifecycleTypeOK
  <2> QED
    BY <2>1 DEF Tick
<1>4. sinceUpload' \in [LibraryId -> 0 .. HistoryBound]
  <2>1. \A l \in LibraryId : Older(sinceUpload[l], HistoryBound) \in 0 .. HistoryBound
    BY <1>0, Constants, AgesGrow DEF LifecycleTypeOK
  <2> QED
    BY <2>1 DEF Tick
<1>5. sinceLoss' \in [LibraryId -> 0 .. HistoryBound]
  <2>1. \A l \in LibraryId : Older(sinceLoss[l], HistoryBound) \in 0 .. HistoryBound /\ 0 \in 0 .. HistoryBound
    BY <1>0, Constants, AgesGrow DEF LifecycleTypeOK
  <2> QED
    BY <2>1 DEF Tick
<1>6. half' \in BOOLEAN /\ accessPro' \in [LibraryId -> BOOLEAN] /\ UNCHANGED <<owner, event, docs, purged_at, everLost>>
  BY <1>0 DEF Tick, LifecycleTypeOK
<1>7. LifecycleTypeOK'
  BY <1>0, <1>1, <1>2, <1>3, <1>4, <1>5, <1>6 DEF LifecycleTypeOK
<1> QED
  BY <1>0, <1>7 DEF LifeInv, Running

(* The type invariant, with what a run may hold at each of its steps.      *)
THEOREM LifecycleInvariant == LifecycleSpec => []LifeInv
<1>1. LifeInv /\ [LifecycleNext]_lifecycleVars => LifeInv'
  <2> SUFFICES ASSUME LifeInv, [LifecycleNext]_lifecycleVars  PROVE LifeInv'
    OBVIOUS
  <2>1. CASE UNCHANGED lifecycleVars
    BY <2>1 DEF lifecycleVars, clerk, columns, clock, history, LifeInv, LifecycleTypeOK, Running
  <2>2. CASE LifecycleNext
    BY <2>2, OwnerKeeps, RunKeeps, TickKeeps DEF LifecycleNext
  <2> QED
    BY <2>1, <2>2
<1> QED
  BY LifeStarts, <1>1, PTL DEF LifecycleSpec
-----------------------------------------------------------------------------
(* An owner who has had Pro all along: nothing was ever marked, and a run  *)
(* knows of no mark and no other answer.                                   *)
KeptClean ==
    \A l \in LibraryId : ~everLost[l] =>
        /\ owner[l] = "pro" /\ ~event[l] /\ purge_after[l] = Null /\ pro_revoked_at[l] = Null
        /\ Running => cron.after[l] = Null /\ cron.revoked[l] = Null
        /\ cron.answer # Null /\ l = Foremost(cron.todo) => cron.answer = "pro"

LEMMA KeptByOwner ==
    ASSUME LifeInv, KeptClean, NEW l \in LibraryId,
           \/ \E state \in OwnerState \ {owner[l]} : OwnerChanges(l, state)
           \/ AccessRefreshed(l) \/ (\E again \in BOOLEAN : Webhook(l, again)) \/ WebhookLost(l) \/ Upload(l)
    PROVE  KeptClean'
<1>0. /\ UNCHANGED <<clock, cron>> /\ \A k \in LibraryId : ~everLost'[k] => ~everLost[k]
      /\ everLost' \in [LibraryId -> BOOLEAN] /\ everLost \in [LibraryId -> BOOLEAN]
  BY OwnerKeeps DEF OwnerChanges, AccessRefreshed, Webhook, WebhookLost, Upload, LifeInv, LifecycleTypeOK, history
<1> SUFFICES ASSUME NEW k \in LibraryId, ~everLost'[k]
             PROVE  owner'[k] = "pro" /\ ~event'[k] /\ purge_after'[k] = Null /\ pro_revoked_at'[k] = Null
  BY <1>0 DEF KeptClean, Running
<1>1. owner[k] = "pro" /\ ~event[k] /\ purge_after[k] = Null /\ pro_revoked_at[k] = Null
  BY <1>0 DEF KeptClean
<1>2. ASSUME NEW state \in OwnerState, OwnerChanges(l, state) PROVE k # l
  BY <1>2 DEF OwnerChanges, LifeInv, LifecycleTypeOK
<1>3. ASSUME NEW again \in BOOLEAN, Webhook(l, again) PROVE k # l
  BY <1>1, <1>3 DEF Webhook
<1> QED
  BY <1>1, <1>2, <1>3
  DEF OwnerChanges, AccessRefreshed, Webhook, WebhookLost, Upload, LifeInv, LifecycleTypeOK, columns, clerk, markLibraryForPurge

LEMMA KeptByRun == ASSUME LifeInv, KeptClean, CronStep PROVE KeptClean'
<1>0. /\ UNCHANGED <<clerk, history>> /\ cron \in Runs
  BY DEF CronStep, CronLists, CronPurges, CronTurnsToOwners, CronAsks, CronSettles, CronEnds, LifeInv
<1> SUFFICES ASSUME NEW k \in LibraryId, ~everLost[k]
             PROVE  /\ purge_after'[k] = Null /\ pro_revoked_at'[k] = Null
                    /\ Running' => cron'.after[k] = Null /\ cron'.revoked[k] = Null
                    /\ cron'.answer # Null /\ k = Foremost(cron'.todo) => cron'.answer = "pro"
  BY <1>0 DEF KeptClean, history, clerk
<1>1. /\ owner[k] = "pro" /\ purge_after[k] = Null /\ pro_revoked_at[k] = Null
      /\ Running => cron.after[k] = Null /\ cron.revoked[k] = Null
      /\ cron.answer # Null /\ k = Foremost(cron.todo) => cron.answer = "pro"
  BY DEF KeptClean
<1>2. CASE CronLists
  BY <1>0, <1>1, <1>2 DEF CronLists, Idle, columns
<1>3. CASE CronPurges
  <2>1. cron.answer = Null /\ Running
    BY <1>3 DEF CronPurges, LifeInv, Running
  <2>2. cron'.after = cron.after /\ cron'.revoked = cron.revoked /\ cron'.answer = cron.answer
    BY <1>0, <1>3 DEF CronPurges, Runs
  <2> QED
    BY <1>1, <1>3, <2>1, <2>2 DEF CronPurges
<1>4. CASE CronTurnsToOwners
  <2>1. cron.answer = Null /\ Running
    BY <1>4 DEF CronTurnsToOwners, LifeInv, Running
  <2>2. cron'.after = cron.after /\ cron'.revoked = cron.revoked /\ cron'.answer = cron.answer
    BY <1>0, <1>4 DEF CronTurnsToOwners, Runs
  <2> QED
    BY <1>1, <1>4, <2>1, <2>2 DEF CronTurnsToOwners, columns
<1>5. CASE CronAsks
  <2>1. cron.answer = Null /\ Running /\ cron'.after = cron.after /\ cron'.revoked = cron.revoked
    BY <1>0, <1>5 DEF CronAsks, Running, Runs
  <2>2. cron'.answer # Null => cron'.answer = owner[Foremost(cron.todo)] /\ cron'.todo = cron.todo
    BY <1>0, <1>5, <2>1 DEF CronAsks, Runs
  <2> QED
    BY <1>1, <1>5, <2>1, <2>2 DEF CronAsks, columns
<1>6. CASE CronSettles
  <2> DEFINE l == Foremost(cron.todo)
  <2>1. /\ l \in LibraryId /\ CronDecides(l) /\ Running /\ cron.answer # Null
        /\ cron'.after = cron.after /\ cron'.revoked = cron.revoked /\ cron'.answer = Null
    BY <1>0, <1>6, Visits DEF CronSettles, Running, Runs
  <2>2. CASE k # l
    BY <1>1, <2>1, <2>2, DecisionTypes
  <2>3. CASE k = l
    <3>1. cron.answer = "pro" /\ cron.after[l] = Null /\ cron.revoked[l] = Null
      BY <1>1, <2>1, <2>3
    <3>2. UNCHANGED <<purge_after, pro_revoked_at>>
      BY <2>1, <3>1 DEF CronDecides
    <3> QED
      BY <1>1, <2>1, <3>2
  <2> QED
    BY <2>2, <2>3
<1>7. CASE CronEnds
  BY <1>0, <1>1, <1>7 DEF CronEnds, Idle, Running, columns
<1> QED
  BY <1>2, <1>3, <1>4, <1>5, <1>6, <1>7 DEF CronStep

LEMMA KeptByTime == ASSUME LifeInv, KeptClean, Tick PROVE KeptClean'
<1> SUFFICES ASSUME NEW k \in LibraryId, ~everLost'[k]
             PROVE  /\ owner'[k] = "pro" /\ ~event'[k] /\ purge_after'[k] = Null /\ pro_revoked_at'[k] = Null
                    /\ ~Running' /\ cron'.answer = Null
  BY DEF KeptClean
<1>1. owner[k] = "pro" /\ ~event[k] /\ purge_after[k] = Null /\ pro_revoked_at[k] = Null
  BY DEF KeptClean, Tick
<1>2. ~Running' /\ cron'.answer = Null /\ owner'[k] = "pro" /\ ~event'[k]
  BY <1>1 DEF Tick, Idle, Running
<1>3. purge_after'[k] = Null /\ pro_revoked_at'[k] = Null
  BY <1>1 DEF Tick
<1> QED
  BY <1>2, <1>3

(* Which step empties a library, and what is true then.                    *)
LEMMA OnlyThePurge ==
    ASSUME LifeInv, [LifecycleNext]_lifecycleVars, NEW l \in LibraryId, Purges(l)
    PROVE  cron.step = "purge" /\ purge_after[l] = 0 /\ ~half
<1>0. docs \in [LibraryId -> BOOLEAN]
  BY DEF LifeInv, LifecycleTypeOK
<1>1. docs' # docs
  BY DEF Purges
<1>2. ASSUME NEW k \in LibraryId, Upload(k) PROVE FALSE
  BY <1>0, <1>2 DEF Upload, Purges
<1>3. CronPurges
  BY <1>1, <1>2 DEF LifecycleNext, lifecycleVars, columns, OwnerChanges, AccessRefreshed, Webhook, WebhookLost, CronStep, CronLists,
                    CronTurnsToOwners, CronAsks, CronSettles, CronEnds, Tick
<1>4. PurgeIsDue(l)
  BY <1>0, <1>3 DEF CronPurges, Purges
<1> QED
  BY <1>3, <1>4 DEF CronPurges, PurgeIsDue, LifeInv

(* Nothing the owner of one library does, and no order of the steps of a   *)
(* run, ever empties the library of an owner who had Pro all along, for    *)
(* any number of libraries and whatever fails in a run.                    *)
THEOREM KeptProIsKept == LifecycleSpec => KeptProKeepsDocuments
<1>1. LifecycleInit => KeptClean
  BY DEF LifecycleInit, KeptClean, Idle, Running
<1>2. LifeInv /\ KeptClean /\ [LifecycleNext]_lifecycleVars => KeptClean'
  <2> SUFFICES ASSUME LifeInv, KeptClean, [LifecycleNext]_lifecycleVars  PROVE KeptClean'
    OBVIOUS
  <2>1. CASE UNCHANGED lifecycleVars
    BY <2>1 DEF lifecycleVars, clerk, columns, clock, history, KeptClean, Running
  <2>2. CASE LifecycleNext
    BY <2>2, KeptByOwner, KeptByRun, KeptByTime DEF LifecycleNext
  <2> QED
    BY <2>1, <2>2
<1>3. LifeInv /\ KeptClean /\ [LifecycleNext]_lifecycleVars => [PurgeSparesKeptPro]_lifecycleVars
  <2> SUFFICES ASSUME LifeInv, KeptClean, [LifecycleNext]_lifecycleVars, NEW l \in LibraryId, Purges(l)  PROVE everLost[l]
    BY DEF PurgeSparesKeptPro
  <2>1. purge_after[l] = 0 /\ 0 # Null
    BY OnlyThePurge, Constants
  <2> QED
    BY <2>1 DEF KeptClean
<1> QED
  BY <1>1, <1>2, <1>3, LifecycleInvariant, PTL DEF LifecycleSpec, KeptProKeepsDocuments
-----------------------------------------------------------------------------
(* A mark made since the last upload is two ticks away from being due, or  *)
(* was made by a run that has passed its purge task: what is due at the    *)
(* next purge was uploaded a day before.                                   *)
TicksPassed == IF half THEN 1 ELSE IF cron.step \in {"owners", "done"} THEN 2 ELSE 0

MarkedAfter(l) ==
    purge_after[l] # Null =>
        \/ purge_after[l] + sinceUpload[l] >= 2
        \/ purge_after[l] = 0 /\ sinceUpload[l] + TicksPassed >= 2

UploadsKept == \A l \in LibraryId : MarkedAfter(l)

LEMMA UploadsKeptByStep ==
    ASSUME LifeInv, UploadsKept, LifecycleNext, HistoryBound >= 2
    PROVE  UploadsKept'
<1> SUFFICES ASSUME NEW k \in LibraryId  PROVE MarkedAfter(k)'
  BY DEF UploadsKept
<1>0. /\ purge_after \in [LibraryId -> Dates] /\ sinceUpload \in [LibraryId -> 0 .. HistoryBound] /\ GraceTicks \in Dates
      /\ purge_after[k] \in Dates /\ sinceUpload[k] \in Nat /\ GraceTicks >= 2 /\ GraceTicks \in Nat
      /\ Null \notin Int /\ MarkedAfter(k) /\ cron \in Runs /\ HistoryBound \in Nat /\ TicksPassed \in 0 .. 2
      /\ (purge_after[k] # Null => purge_after[k] \in Nat)
  BY Constants DEF LifeInv, LifecycleTypeOK, Dates, UploadsKept, TicksPassed
<1>1. ASSUME UNCHANGED sinceUpload, TicksPassed' >= TicksPassed, TicksPassed' \in 0 .. 2,
             purge_after'[k] \in {purge_after[k], Null, GraceTicks}
      PROVE  MarkedAfter(k)'
  BY <1>0, <1>1 DEF MarkedAfter
<1>2. ASSUME NEW l \in LibraryId, \E state \in OwnerState \ {owner[l]} : OwnerChanges(l, state) PROVE MarkedAfter(k)'
  BY <1>0, <1>1, <1>2 DEF OwnerChanges, columns, clock, TicksPassed
<1>3. ASSUME NEW l \in LibraryId, AccessRefreshed(l) \/ WebhookLost(l) PROVE MarkedAfter(k)'
  BY <1>0, <1>1, <1>3 DEF AccessRefreshed, WebhookLost, columns, clock, history, TicksPassed
<1>4. ASSUME NEW l \in LibraryId, NEW again \in BOOLEAN, Webhook(l, again) PROVE MarkedAfter(k)'
  <2>1. purge_after'[k] \in {purge_after[k], GraceTicks}
    BY <1>0, <1>4 DEF Webhook, markLibraryForPurge, Sooner
  <2> QED
    BY <1>0, <1>1, <1>4, <2>1 DEF Webhook, clock, history, TicksPassed
<1>5. ASSUME NEW l \in LibraryId, Upload(l) PROVE MarkedAfter(k)'
  <2>1. CASE k = l
    BY <1>0, <1>5, <2>1 DEF Upload, MarkedAfter
  <2>2. CASE k # l
    <3>1. purge_after'[k] = purge_after[k] /\ sinceUpload'[k] = sinceUpload[k] /\ TicksPassed' = TicksPassed
      BY <1>0, <1>5, <2>2 DEF Upload, clock, TicksPassed
    <3> QED
      BY <1>0, <3>1 DEF MarkedAfter
  <2> QED
    BY <2>1, <2>2
<1>6. CASE CronStep
  <2>1. UNCHANGED <<sinceUpload, half>>
    BY <1>6 DEF CronStep, CronLists, CronPurges, CronTurnsToOwners, CronAsks, CronSettles, CronEnds, history, clock
  <2>2. TicksPassed' >= TicksPassed /\ TicksPassed' \in 0 .. 2
    <3>1. /\ CronLists => cron'.step = "purge" /\ cron.step = "idle"
          /\ CronPurges => cron'.step = cron.step
          /\ CronTurnsToOwners => cron'.step = "owners"
          /\ CronAsks => cron'.step = cron.step
          /\ CronSettles => cron'.step = cron.step
          /\ CronEnds => cron'.step = "done"
      BY <1>0 DEF CronLists, CronPurges, CronTurnsToOwners, CronAsks, CronSettles, CronEnds, Runs, Idle
    <3> QED
      BY <1>0, <1>6, <2>1, <3>1 DEF CronStep, TicksPassed
  <2>3. CASE UNCHANGED purge_after
    BY <1>1, <2>1, <2>2, <2>3
  <2>4. CASE CronSettles
    <3> DEFINE l == Foremost(cron.todo)
    <3>1. l \in LibraryId /\ CronDecides(l) /\ Running /\ cron.step = "owners" /\ ~half /\ cron'.step = "owners"
      BY <1>0, <2>4, Visits DEF CronSettles, Running, LifeInv, Runs
    <3>2. purge_after'[k] \in {purge_after[k], Null, GraceTicks, 0}
      <4>1. CASE k # l
        BY <3>1, <4>1, DecisionTypes
      <4>2. CASE k = l
        BY <1>0, <3>1, <4>2 DEF CronDecides, reviveLibrary, markLibraryForPurge, Sooner
      <4> QED
        BY <4>1, <4>2
    <3>3. CASE purge_after'[k] = 0
      BY <1>0, <2>1, <3>1, <3>3 DEF MarkedAfter, TicksPassed
    <3> QED
      BY <1>1, <2>1, <2>2, <3>2, <3>3
  <2> QED
    BY <1>6, <2>3, <2>4 DEF CronStep, CronLists, CronPurges, CronTurnsToOwners, CronAsks, CronEnds, columns
<1>7. CASE Tick
  <2>1. /\ purge_after'[k] = IF purge_after[k] \in {Null, 0} THEN purge_after[k] ELSE purge_after[k] - 1
        /\ sinceUpload'[k] = Older(sinceUpload[k], HistoryBound)
    BY <1>7 DEF Tick
  <2>2. sinceUpload'[k] = sinceUpload[k] + 1 \/ (sinceUpload'[k] = sinceUpload[k] /\ sinceUpload[k] >= 2)
    BY <1>0, <2>1 DEF Older, LifeInv, LifecycleTypeOK
  <2>3. TicksPassed' >= TicksPassed - 1 /\ TicksPassed' \in 0 .. 2
    <3>1. cron'.step = "idle" /\ half' = ~half /\ half \in BOOLEAN /\ (half \/ cron.step = "done")
      BY <1>7 DEF Tick, Idle, LifeInv, LifecycleTypeOK
    <3>2. CASE half
      <4>1. ~half' /\ cron'.step \notin {"owners", "done"}
        BY <3>1, <3>2
      <4>2. TicksPassed = 1 /\ TicksPassed' = 0
        BY <3>2, <4>1 DEF TicksPassed
      <4> QED
        BY <4>2
    <3>3. CASE ~half
      <4>1. half' /\ cron.step \in {"owners", "done"}
        BY <3>1, <3>3
      <4>2. TicksPassed = 2 /\ TicksPassed' = 1
        BY <3>3, <4>1 DEF TicksPassed
      <4> QED
        BY <4>2
    <3> QED
      BY <3>2, <3>3
  <2>4. CASE purge_after[k] \in {Null, 0}
    BY <1>0, <2>1, <2>2, <2>3, <2>4 DEF MarkedAfter
  <2>5. CASE purge_after[k] \notin {Null, 0}
    BY <1>0, <2>1, <2>2, <2>5 DEF MarkedAfter
  <2> QED
    BY <2>4, <2>5
<1> QED
  BY <1>2, <1>3, <1>4, <1>5, <1>6, <1>7 DEF LifecycleNext

(* A document is never wiped by the run during which it was uploaded, nor  *)
(* by the next one: a day passes, however a run and its listing interleave *)
(* with uploads, the webhook and Clerk (lockDuePurge, reviveLibrary).      *)
THEOREM UploadsOutliveTheRun == ASSUME HistoryBound >= Ticks(1) PROVE LifecycleSpec => UploadOutlivesTheRun
<1>1. LifecycleInit => UploadsKept
  BY DEF LifecycleInit, UploadsKept, MarkedAfter
<1>2. LifeInv /\ UploadsKept /\ [LifecycleNext]_lifecycleVars => UploadsKept'
  <2> SUFFICES ASSUME LifeInv, UploadsKept, [LifecycleNext]_lifecycleVars  PROVE UploadsKept'
    OBVIOUS
  <2>1. CASE UNCHANGED lifecycleVars
    BY <2>1 DEF lifecycleVars, columns, clock, history, UploadsKept, MarkedAfter, TicksPassed
  <2>2. CASE LifecycleNext
    BY <2>2, UploadsKeptByStep DEF Ticks
  <2> QED
    BY <2>1, <2>2
<1>3. LifeInv /\ UploadsKept /\ [LifecycleNext]_lifecycleVars => [PurgeSparesUploads]_lifecycleVars
  <2> SUFFICES ASSUME LifeInv, UploadsKept, [LifecycleNext]_lifecycleVars, NEW l \in LibraryId, Purges(l)
               PROVE  sinceUpload[l] >= Ticks(1)
    BY DEF PurgeSparesUploads
  <2>1. purge_after[l] = 0 /\ 0 # Null /\ TicksPassed = 0 /\ sinceUpload[l] \in Nat
    BY OnlyThePurge, Constants DEF TicksPassed, LifeInv, LifecycleTypeOK
  <2> QED
    BY <2>1 DEF UploadsKept, MarkedAfter, Ticks
<1> QED
  BY <1>1, <1>2, <1>3, LifecycleInvariant, PTL DEF LifecycleSpec, UploadOutlivesTheRun
-----------------------------------------------------------------------------
(* In time: what a library still owes, the ticks until it is emptied if    *)
(* nothing new happens, is paid by every tick.                             *)
Larger(a, b) == IF a > b THEN a ELSE b
Since(l) == IF sinceUpload[l] <= sinceLoss[l] THEN sinceUpload[l] ELSE sinceLoss[l]
Bound == Larger(RevokedTicks, GraceTicks) + 4

Half == IF half THEN 1 ELSE 0
ToNextRun == IF half THEN 1 ELSE IF cron.step = "idle" THEN 0 ELSE 2
ToPurge(l) == IF cron.step = "purge" /\ l \in cron.todo THEN 0 ELSE ToNextRun

(* From a library's mark p, its revocation a, the owner's state and the    *)
(* ticks to the next run and to the next purge that may take it.           *)
Owed(p, a, state, next, purge, h) ==
    IF p = 0 THEN purge
    ELSE IF p # Null THEN Larger(p + 1, next)
    ELSE IF state = "gone" THEN h + GraceTicks + 1
    ELSE IF a = Null THEN h + RevokedTicks + 2
    ELSE Larger(RevokedTicks - a, h) + 2

OwedBy(l) == Owed(purge_after[l], pro_revoked_at[l], owner[l], ToNextRun, ToPurge(l), Half)

Unvisited(l) == cron.step = "purge" \/ (cron.step = "owners" /\ l \in cron.todo)
RevokedLately(l) == owner[l] = "not_pro" /\ pro_revoked_at[l] # Null /\ pro_revoked_at[l] < RevokedTicks

(* The run under way has the library in hand, as it is now: it purges what *)
(* is due, and will decide, or has decided, what has no mark.              *)
InHand(l) ==
    /\ cron.step = "purge" /\ purge_after[l] = 0 => l \in cron.todo
    /\ cron.step \in {"owners", "done"} /\ purge_after[l] = Null => Unvisited(l) \/ RevokedLately(l)
    /\ Running /\ purge_after[l] = Null => l \in cron.listed \ cron.purged /\ cron.after[l] = Null
    /\ Unvisited(l) /\ purge_after[l] = Null => cron.revoked[l] = pro_revoked_at[l]
    /\ cron.answer # Null /\ l = Foremost(cron.todo) => cron.answer = owner[l]

Timely(l) ==
    docs[l] =>
        /\ ~purged_at[l]
        /\ Since(l) >= 1 => owner[l] # "pro" /\ Since(l) + OwedBy(l) <= Bound /\ InHand(l)

(* Runs, and with them revocations, fall on even ticks; only a deleted     *)
(* account has an event.                                                   *)
Even(l) == pro_revoked_at[l] \in {Null, RevokedTicks} \/ pro_revoked_at[l] % 2 = Half

TimelyInv ==
    \A l \in LibraryId : /\ Timely(l) /\ Even(l)
                         /\ event[l] => owner[l] = "gone"
                         /\ sinceLoss[l] >= 1 => owner[l] # "pro"

CronReachesAll == CronIsReliable /\ PurgePerRun >= Libraries /\ ChecksPerRun >= Libraries

LEMMA FewLibraries ==
    ASSUME NEW S \in SUBSET LibraryId
    PROVE  IsFiniteSet(S) /\ Cardinality(S) \in Nat /\ Cardinality(S) <= Libraries
<1>1. Libraries \in Nat /\ Libraries >= 1
  BY LifecycleAssumption
<1>2. IsFiniteSet(LibraryId) /\ Cardinality(LibraryId) = Libraries
  BY <1>1, FS_Interval DEF LibraryId
<1>3. IsFiniteSet(S) /\ Cardinality(S) <= Cardinality(LibraryId)
  BY <1>2, FS_Subset
<1>4. Cardinality(S) \in Nat
  BY <1>3, FS_CardinalityType
<1> QED
  BY <1>2, <1>3, <1>4

LEMMA SlicedIsAll ==
    ASSUME NEW S \in SUBSET LibraryId, NEW n \in Nat, n >= Libraries
    PROVE  Sliced(S, n) = S
<1> SUFFICES ASSUME NEW l \in S  PROVE Cardinality({k \in S : k < l}) < n
  BY DEF Sliced
<1> DEFINE B == {k \in S : k < l}
<1>1. l \in Nat /\ ~(l < l)
  BY Constants
<1>2. IsFiniteSet(S) /\ Cardinality(S) <= Libraries /\ Cardinality(S) \in Nat
  BY FewLibraries
<1>3. IsFiniteSet(S \ {l}) /\ Cardinality(S \ {l}) = Cardinality(S) - 1
  BY <1>2, FS_RemoveElement
<1>4. B \in SUBSET (S \ {l}) /\ B \in SUBSET LibraryId
  BY <1>1
<1>5. Cardinality(B) <= Cardinality(S \ {l})
  BY <1>3, <1>4, FS_Subset
<1>6. Cardinality(B) \in Nat
  BY <1>4, FewLibraries
<1>7. Libraries \in Nat
  BY LifecycleAssumption
<1> HIDE DEF B
<1>8. Cardinality(B) < n
  BY <1>2, <1>3, <1>5, <1>6, <1>7
<1> QED
  BY <1>8 DEF B

LEMMA RotateIsAll ==
    ASSUME NEW S \in SUBSET LibraryId, NEW n \in Nat, n >= Libraries
    PROVE  Rotate(S, n) = S
<1>1. Cardinality(S) \in Nat /\ Cardinality(S) <= Libraries /\ Libraries \in Nat
  BY FewLibraries, LifecycleAssumption
<1>2. Cardinality(S) <= n
  BY <1>1
<1> QED
  BY <1>2 DEF Rotate

LEMMA OwedIsNat ==
    ASSUME NEW p \in Dates, NEW a \in Ages, NEW state, NEW next \in 0 .. 2, NEW purge \in 0 .. 2, NEW h \in 0 .. 1
    PROVE  Owed(p, a, state, next, purge, h) \in Nat
<1>1. (p # Null => p \in Nat) /\ (a # Null => a \in 0 .. RevokedTicks)
  BY DEF Dates, Ages
<1> QED
  BY <1>1, Constants DEF Owed, Larger

(* The values Owed is computed from.                                       *)
LEMMA OwedTypes ==
    ASSUME LifeInv, NEW l \in LibraryId
    PROVE  /\ purge_after[l] \in Dates /\ pro_revoked_at[l] \in Ages /\ owner[l] \in OwnerState
           /\ (purge_after[l] # Null => purge_after[l] \in Nat)
           /\ (pro_revoked_at[l] # Null => pro_revoked_at[l] \in 0 .. RevokedTicks)
           /\ ToNextRun \in 0 .. 2 /\ ToPurge(l) \in 0 .. 2 /\ Half \in 0 .. 1 /\ Since(l) \in Nat
           /\ OwedBy(l) \in Nat /\ Bound \in Nat
<1>1. /\ purge_after[l] \in Dates /\ pro_revoked_at[l] \in Ages /\ owner[l] \in OwnerState
      /\ sinceUpload[l] \in Nat /\ sinceLoss[l] \in Nat /\ 0 # Null
  BY Constants DEF LifeInv, LifecycleTypeOK, Dates, Ages
<1>2. /\ (purge_after[l] # Null => purge_after[l] \in Nat)
      /\ (pro_revoked_at[l] # Null => pro_revoked_at[l] \in 0 .. RevokedTicks)
  BY <1>1, Constants DEF Dates, Ages
<1>3. ToNextRun \in 0 .. 2 /\ Half \in 0 .. 1
  BY DEF ToNextRun, Half
<1>4. ToPurge(l) \in 0 .. 2
  BY <1>3 DEF ToPurge
<1>5. Since(l) \in Nat /\ Bound \in Nat
  BY <1>1, Constants DEF Since, Bound, Larger
<1>6. OwedBy(l) \in Nat
  BY <1>1, <1>3, <1>4, OwedIsNat DEF OwedBy
<1> QED
  BY <1>1, <1>2, <1>3, <1>4, <1>5, <1>6

(* A step that leaves alone what a library's time is reckoned from.        *)
LEMMA Untouched ==
    ASSUME NEW l \in LibraryId, Timely(l), Even(l), UNCHANGED <<half, cron>>,
           docs'[l] = docs[l], purged_at'[l] = purged_at[l], purge_after'[l] = purge_after[l],
           pro_revoked_at'[l] = pro_revoked_at[l], owner'[l] = owner[l],
           sinceUpload'[l] = sinceUpload[l], sinceLoss'[l] = sinceLoss[l]
    PROVE  Timely(l)' /\ Even(l)'
<1>1. Since(l)' = Since(l) /\ OwedBy(l)' = OwedBy(l) /\ Half' = Half
  BY DEF Since, OwedBy, ToNextRun, ToPurge, Half
<1>2. InHand(l)' = InHand(l)
  BY DEF InHand, Unvisited, RevokedLately, Running
<1> QED
  BY <1>1, <1>2 DEF Timely, Even, Bound

LEMMA EvenIsNotOdd == ASSUME NEW n \in Nat, NEW m \in Nat, n % 2 = 0, n = 2 * m - 1 PROVE FALSE
OBVIOUS

LEMMA Alternates == ASSUME NEW n \in Nat PROVE (n % 2 = 0 => (n + 1) % 2 = 1) /\ (n % 2 = 1 => (n + 1) % 2 = 0)
OBVIOUS

(* Half a day pays half a day, before a run ...                            *)
LEMMA MorningPays ==
    ASSUME NEW p \in Dates, NEW a \in Ages, NEW state
    PROVE  Owed(IF p \in {Null, 0} THEN p ELSE p - 1, IF a = Null THEN Null ELSE Older(a, RevokedTicks),
                state, 0, 0, 0)
              <= Owed(p, a, state, 1, 1, 1) - 1
<1> DEFINE q == IF p \in {Null, 0} THEN p ELSE p - 1
           b == IF a = Null THEN Null ELSE Older(a, RevokedTicks)
<1>0. 0 # Null /\ RevokedTicks \in Nat /\ GraceTicks \in Nat
  BY Constants
<1>q. q = IF p \in {Null, 0} THEN p ELSE p - 1
  OBVIOUS
<1>b. b = IF a = Null THEN Null ELSE Older(a, RevokedTicks)
  OBVIOUS
<1> SUFFICES Owed(q, b, state, 0, 0, 0) <= Owed(p, a, state, 1, 1, 1) - 1
  OBVIOUS
<1> HIDE DEF q, b
<1>1. CASE p = Null
  <2>1. q = Null
    BY <1>1, <1>q
  <2>2. CASE a = Null
    BY <1>0, <1>1, <1>b, <2>1, <2>2 DEF Owed
  <2>3. CASE a # Null
    <3>1. a \in 0 .. RevokedTicks /\ b = (IF a < RevokedTicks THEN a + 1 ELSE a) /\ b # Null
      BY <1>0, <2>3, <1>b, Constants DEF Ages, Older
    <3>2. Larger(RevokedTicks - b, 0) <= Larger(RevokedTicks - a, 1) - 1
      <4>1. CASE a < RevokedTicks
        BY <1>0, <3>1, <4>1 DEF Larger
      <4>2. CASE a = RevokedTicks
        BY <1>0, <3>1, <4>2 DEF Larger
      <4> QED
        BY <1>0, <3>1, <4>1, <4>2
    <3>3. Larger(RevokedTicks - b, 0) \in Int /\ Larger(RevokedTicks - a, 1) \in Int
      BY <1>0, <3>1 DEF Larger
    <3> QED
      BY <1>0, <1>1, <2>1, <2>3, <3>1, <3>2, <3>3 DEF Owed
  <2> QED
    BY <2>2, <2>3
<1>2. CASE p # Null
  <2>1. p \in 0 .. GraceTicks /\ q = (IF p = 0 THEN 0 ELSE p - 1) /\ q # Null
    BY <1>0, <1>2, <1>q, Constants DEF Dates
  <2> QED
    BY <1>0, <1>2, <2>1 DEF Owed, Larger
<1> QED
  BY <1>1, <1>2

(* ... and after it, when the run has left what has no mark to a           *)
(* revocation that is not yet due.                                         *)
LEMMA EveningPays ==
    ASSUME NEW p \in Dates, NEW a \in Ages, NEW state,
           p = Null => state = "not_pro" /\ a # Null /\ a < RevokedTicks /\ a % 2 = 0
    PROVE  Owed(IF p \in {Null, 0} THEN p ELSE p - 1, IF a = Null THEN Null ELSE Older(a, RevokedTicks),
                state, 1, 1, 1)
              <= Owed(p, a, state, 2, 2, 0) - 1
<1> DEFINE q == IF p \in {Null, 0} THEN p ELSE p - 1
           b == IF a = Null THEN Null ELSE Older(a, RevokedTicks)
<1>0. 0 # Null /\ RevokedTicks \in Nat /\ GraceTicks \in Nat /\ RevokedTicks = 2 * RevokedDays /\ RevokedDays \in Nat
  BY Constants
<1>q. q = IF p \in {Null, 0} THEN p ELSE p - 1
  OBVIOUS
<1>b. b = IF a = Null THEN Null ELSE Older(a, RevokedTicks)
  OBVIOUS
<1> SUFFICES Owed(q, b, state, 1, 1, 1) <= Owed(p, a, state, 2, 2, 0) - 1
  OBVIOUS
<1> HIDE DEF q, b
<1>1. CASE p = Null
  <2>1. q = Null
    BY <1>1, <1>q
  <2>2. a \in 0 .. RevokedTicks /\ b = a + 1 /\ b # Null /\ a % 2 = 0 /\ a < RevokedTicks
    BY <1>0, <1>1, <1>b, Constants DEF Ages, Older
  <2>3. RevokedTicks - a >= 2
    <3>1. a \in Nat
      BY <1>0, <2>2
    <3>2. a # 2 * RevokedDays - 1
      BY <1>0, <2>2, <3>1, EvenIsNotOdd
    <3> QED
      BY <1>0, <2>2, <3>1, <3>2
  <2>4. Larger(RevokedTicks - b, 1) = RevokedTicks - a - 1 /\ Larger(RevokedTicks - a, 0) = RevokedTicks - a
    BY <1>0, <2>2, <2>3 DEF Larger
  <2> QED
    BY <1>0, <1>1, <2>1, <2>2, <2>4 DEF Owed
<1>2. CASE p # Null
  <2>1. p \in 0 .. GraceTicks /\ q = (IF p = 0 THEN 0 ELSE p - 1) /\ q # Null
    BY <1>0, <1>2, <1>q, Constants DEF Dates
  <2> QED
    BY <1>0, <1>2, <2>1 DEF Owed, Larger
<1> QED
  BY <1>1, <1>2

(* What is owed by whom nothing was owed a moment ago.                     *)
LEMMA OwedAtMost ==
    ASSUME NEW p \in Dates, NEW a \in Ages, NEW state, NEW next \in 0 .. 1, NEW h \in 0 .. 1
    PROVE  1 + Owed(p, a, state, next, next, h) <= Bound
<1>0. /\ 0 # Null /\ RevokedTicks \in Nat /\ GraceTicks \in Nat
      /\ RevokedTicks + 4 <= Bound /\ GraceTicks + 4 <= Bound /\ Bound \in Nat
  BY Constants DEF Bound, Larger
<1>1. (p # Null => p \in 0 .. GraceTicks) /\ (a # Null => a \in 0 .. RevokedTicks)
  BY DEF Dates, Ages
<1>2. a # Null => Larger(RevokedTicks - a, h) <= RevokedTicks + 1 /\ Larger(RevokedTicks - a, h) \in Int
  BY <1>0, <1>1 DEF Larger
<1>3. p # Null => Larger(p + 1, next) <= GraceTicks + 1 /\ Larger(p + 1, next) \in Int
  BY <1>0, <1>1 DEF Larger
<1> HIDE DEF Bound
<1> QED
  BY <1>0, <1>1, <1>2, <1>3 DEF Owed

LEMMA TimelyByOwner ==
    ASSUME LifeInv, TimelyInv, NEW l \in LibraryId,
           \/ \E state \in OwnerState \ {owner[l]} : OwnerChanges(l, state)
           \/ AccessRefreshed(l) \/ (\E again \in BOOLEAN : Webhook(l, again)) \/ WebhookLost(l) \/ Upload(l)
    PROVE  TimelyInv'
<1> SUFFICES ASSUME NEW k \in LibraryId
             PROVE  /\ Timely(k)' /\ Even(k)'
                    /\ event'[k] => owner'[k] = "gone"
                    /\ sinceLoss'[k] >= 1 => owner'[k] # "pro"
  BY DEF TimelyInv
<1>0. /\ UNCHANGED <<half, cron>> /\ LifecycleTypeOK /\ 0 # Null
      /\ Timely(k) /\ Even(k) /\ (event[k] => owner[k] = "gone") /\ (sinceLoss[k] >= 1 => owner[k] # "pro")
  BY Constants DEF OwnerChanges, AccessRefreshed, Webhook, WebhookLost, Upload, TimelyInv, LifeInv, clock
<1>1. ASSUME NEW state \in OwnerState \ {owner[l]}, OwnerChanges(l, state), k = l
      PROVE  /\ Timely(k)' /\ Even(k)'
             /\ event'[k] => owner'[k] = "gone"
             /\ sinceLoss'[k] >= 1 => owner'[k] # "pro"
  <2>1. sinceLoss'[k] = 0 /\ owner'[k] = state /\ event'[k] = (state = "gone") /\ UNCHANGED <<columns, half>>
    BY <1>0, <1>1 DEF OwnerChanges, LifecycleTypeOK, clock
  <2>2. sinceUpload'[k] \in Nat
    BY <1>0, <1>1, Constants DEF OwnerChanges, LifecycleTypeOK
  <2>3. ~(Since(k)' >= 1)
    BY <2>1, <2>2 DEF Since
  <2>4. Timely(k)' /\ Even(k)'
    BY <1>0, <2>1, <2>3 DEF Timely, Even, Half, columns
  <2>5. event'[k] => owner'[k] = "gone"
    BY <2>1
  <2> QED
    BY <2>1, <2>4, <2>5
<1>2. CASE Upload(l) /\ k = l
  <2>1. sinceUpload'[k] = 0 /\ ~purged_at'[k] /\ pro_revoked_at'[k] = Null /\ UNCHANGED <<owner, event, sinceLoss>>
    BY <1>0, <1>2 DEF Upload, LifecycleTypeOK, clerk
  <2>2. sinceLoss'[k] \in Nat
    BY <1>0, <2>1, Constants DEF LifecycleTypeOK
  <2>3. ~(Since(k)' >= 1)
    BY <2>1, <2>2 DEF Since
  <2> QED
    BY <1>0, <2>1, <2>3 DEF Timely, Even
<1>3. ASSUME NEW again \in BOOLEAN, Webhook(l, again), k = l
      PROVE  /\ Timely(k)' /\ Even(k)'
             /\ event'[k] => owner'[k] = "gone"
             /\ sinceLoss'[k] >= 1 => owner'[k] # "pro"
  <2>1. /\ owner[k] = "gone" /\ UNCHANGED <<owner, docs, pro_revoked_at, purged_at, half, cron, sinceUpload, sinceLoss>>
        /\ purge_after'[k] = IF purged_at[k] THEN purge_after[k] ELSE Sooner(purge_after[k], GraceTicks)
    BY <1>0, <1>3 DEF Webhook, markLibraryForPurge, LifecycleTypeOK, clock, history
  <2>2. CASE purged_at[k] \/ ~docs[k]
    BY <1>0, <2>1, <2>2 DEF Timely, Even, Half
  <2>3. CASE ~purged_at[k] /\ docs[k]
    <3>1. purge_after'[k] = IF purge_after[k] = Null THEN GraceTicks ELSE purge_after[k]
      <4>1. purge_after[k] # Null => purge_after[k] \in 0 .. GraceTicks
        BY OwedTypes DEF Dates
      <4>2. purge_after[k] # Null => ~(purge_after[k] > GraceTicks)
        BY <4>1, Constants
      <4> QED
        BY <2>1, <2>3, <4>2 DEF Sooner
    <3>2. Since(k)' = Since(k) /\ ToNextRun' = ToNextRun /\ ToPurge(k)' = ToPurge(k) /\ Half' = Half
      BY <2>1 DEF Since, ToNextRun, ToPurge, Half
    <3>3. OwedBy(k)' <= OwedBy(k) /\ OwedBy(k)' \in Nat
      <4>1. CASE purge_after[k] # Null
        BY <2>1, <3>1, <3>2, <4>1, OwedTypes DEF OwedBy
      <4>2. CASE purge_after[k] = Null
        <5>1. OwedBy(k) = Half + GraceTicks + 1
          BY <1>0, <2>1, <4>2 DEF OwedBy, Owed
        <5>2. OwedBy(k)' = Larger(GraceTicks + 1, ToNextRun)
          BY <3>1, <3>2, <4>2, Constants DEF OwedBy, Owed
        <5> QED
          BY <5>1, <5>2, OwedTypes, Constants DEF Larger
      <4> QED
        BY <4>1, <4>2
    <3>4. InHand(k) => InHand(k)'
      <4>1. /\ GraceTicks # 0 /\ GraceTicks # Null
            /\ (purge_after'[k] = Null => FALSE) /\ (purge_after'[k] = 0 => purge_after[k] = 0)
        BY <3>1, Constants
      <4> QED
        BY <2>1, <4>1 DEF InHand
    <3>5. Since(k) + OwedBy(k) <= Bound => Since(k) + OwedBy(k)' <= Bound
      BY <3>3, OwedTypes
    <3> QED
      BY <1>0, <2>1, <3>2, <3>4, <3>5 DEF Timely, Even, Bound
  <2>4. event'[k] => owner'[k] = "gone"
    BY <2>1
  <2> QED
    BY <1>0, <2>1, <2>2, <2>3, <2>4
<1>4. ASSUME owner'[k] = owner[k], event'[k] => event[k], UNCHANGED <<half, cron>>,
             docs'[k] = docs[k], purged_at'[k] = purged_at[k], purge_after'[k] = purge_after[k],
             pro_revoked_at'[k] = pro_revoked_at[k],
             sinceUpload'[k] = sinceUpload[k], sinceLoss'[k] = sinceLoss[k]
      PROVE  /\ Timely(k)' /\ Even(k)'
             /\ event'[k] => owner'[k] = "gone"
             /\ sinceLoss'[k] >= 1 => owner'[k] # "pro"
  BY <1>0, <1>4, Untouched
<1>5. CASE (\E state \in OwnerState \ {owner[l]} : OwnerChanges(l, state)) /\ k # l
  BY <1>0, <1>4, <1>5 DEF OwnerChanges, LifecycleTypeOK, columns
<1>6. CASE AccessRefreshed(l) \/ WebhookLost(l)
  BY <1>0, <1>4, <1>6 DEF AccessRefreshed, WebhookLost, LifecycleTypeOK, columns, history
<1>7. CASE (\E again \in BOOLEAN : Webhook(l, again)) /\ k # l
  BY <1>0, <1>4, <1>7 DEF Webhook, markLibraryForPurge, LifecycleTypeOK, history
<1>8. CASE Upload(l) /\ k # l
  BY <1>0, <1>4, <1>8 DEF Upload, LifecycleTypeOK, clerk
<1> QED
  BY <1>1, <1>2, <1>3, <1>5, <1>6, <1>7, <1>8

(* What the run does, for a library k of which something has been owed     *)
(* for a while.                                                            *)
LEMMA TimelyByRun ==
    ASSUME LifeInv, TimelyInv, CronReachesAll, CronStep
    PROVE  TimelyInv'
<1>0. UNCHANGED <<clerk, clock, history>> /\ ~half /\ cron \in Runs /\ LifecycleTypeOK /\ Half = 0
  BY DEF CronStep, CronLists, CronPurges, CronTurnsToOwners, CronAsks, CronSettles, CronEnds, LifeInv, Half
<1> SUFFICES ASSUME NEW k \in LibraryId
             PROVE  /\ docs'[k] => ~purged_at'[k]
                    /\ docs'[k] /\ Since(k) >= 1 => OwedBy(k)' <= OwedBy(k) /\ InHand(k)'
                    /\ Even(k)'
  <2>1. ASSUME NEW k \in LibraryId
        PROVE  /\ event'[k] => owner'[k] = "gone"
               /\ sinceLoss'[k] >= 1 => owner'[k] # "pro"
               /\ Since(k)' = Since(k) /\ owner'[k] = owner[k]
    BY <1>0 DEF TimelyInv, clerk, history, Since
  <2>2. ASSUME NEW k \in LibraryId
        PROVE  docs'[k] => docs[k]
    BY <1>0 DEF CronStep, CronLists, CronPurges, CronTurnsToOwners, CronAsks, CronSettles, CronEnds, columns, LifecycleTypeOK
  <2>3. ASSUME NEW k \in LibraryId, docs'[k], Since(k) >= 1, OwedBy(k)' <= OwedBy(k)
        PROVE  owner[k] # "pro" /\ Since(k) + OwedBy(k)' <= Bound
    <3>1. owner[k] # "pro" /\ Since(k) + OwedBy(k) <= Bound
      BY <2>2, <2>3 DEF TimelyInv, Timely
    <3>2. OwedBy(k)' \in Nat
      <4>1. purge_after'[k] \in Dates /\ pro_revoked_at'[k] \in Ages
        BY RunKeeps DEF LifeInv, LifecycleTypeOK, Dates, Ages
      <4>2. ToNextRun' \in 0 .. 2 /\ Half' \in 0 .. 1
        BY DEF ToNextRun, Half
      <4>3. ToPurge(k)' \in 0 .. 2
        BY <4>2 DEF ToPurge
      <4> QED
        BY <4>1, <4>2, <4>3, OwedIsNat DEF OwedBy
    <3> QED
      BY <2>3, <3>1, <3>2, OwedTypes
  <2> QED
    BY <2>1, <2>3 DEF TimelyInv, Timely, Bound
<1> DEFINE p == purge_after[k]
           a == pro_revoked_at[k]
<1>1. /\ (docs[k] => ~purged_at[k]) /\ Even(k)
      /\ docs[k] /\ Since(k) >= 1 => owner[k] # "pro" /\ InHand(k)
  BY DEF TimelyInv, Timely
<1>2. /\ p \in Dates /\ a \in Ages /\ owner[k] \in OwnerState /\ owner' = owner /\ 0 # Null
      /\ (p # Null => p \in Nat) /\ (a # Null => a \in 0 .. RevokedTicks) /\ half' = half /\ Half' = 0
      /\ OwedBy(k) \in Nat
  BY <1>0, OwedTypes, Constants DEF clerk, clock, Half
<1>3. CASE CronLists
  <2> DEFINE listed == {l \in LibraryId : ~purged_at[l]}
             due == {l \in listed : purge_after[l] # Null /\ purge_after[l] = 0}
  <2>1. Sliced(due, PurgePerRun) = due
    BY SlicedIsAll, LifecycleAssumption DEF CronReachesAll
  <2>2. /\ cron' = [Idle EXCEPT !.step = "purge", !.listed = listed, !.after = purge_after,
                                !.revoked = pro_revoked_at, !.todo = due]
        /\ UNCHANGED columns /\ cron.step = "idle"
    BY <1>3, <2>1 DEF CronLists
  <2>3. /\ cron'.step = "purge" /\ cron'.after = purge_after /\ cron'.revoked = pro_revoked_at /\ cron'.purged = {}
        /\ cron'.listed = listed /\ cron'.todo = due /\ cron'.answer = Null
    BY <2>2 DEF Idle
  <2>4. docs[k] => k \in listed /\ (p = 0 => k \in due)
    BY <1>1, <1>2
  <2> HIDE DEF listed, due
  <2>5. Even(k)' /\ (docs'[k] => ~purged_at'[k]) /\ docs' = docs /\ purge_after' = purge_after /\ pro_revoked_at' = pro_revoked_at
    BY <1>1, <1>2, <2>2, <1>0 DEF columns, Even
  <2>6. docs[k] => OwedBy(k)' <= OwedBy(k)
    <3>1. ToNextRun = 0 /\ ToPurge(k) = 0 /\ ToNextRun' = 2 /\ (docs[k] /\ p = 0 => ToPurge(k)' = 0)
      BY <1>0, <1>2, <2>2, <2>3, <2>4 DEF ToNextRun, ToPurge
    <3>2. CASE p = Null
      BY <1>0, <1>2, <2>5, <3>2 DEF OwedBy, Owed
    <3>3. CASE p = 0
      BY <1>2, <2>5, <3>1, <3>3 DEF OwedBy, Owed
    <3>4. CASE p # Null /\ p # 0
      BY <1>2, <2>5, <3>1, <3>4 DEF OwedBy, Owed, Larger
    <3> QED
      BY <3>2, <3>3, <3>4
  <2>7. docs[k] => InHand(k)'
    BY <2>3, <2>4, <2>5 DEF InHand, Unvisited, Running
  <2> QED
    BY <2>5, <2>6, <2>7
<1>4. CASE CronPurges
  <2> DEFINE l == Foremost(cron.todo)
             due == PurgeIsDue(l)
             todo == cron.todo \ {l}
             purged == IF due THEN cron.purged \cup {l} ELSE cron.purged
  <2>1. l \in LibraryId /\ l \in cron.todo /\ cron.step = "purge" /\ cron.answer = Null
    BY <1>4, Visits DEF CronPurges, LifeInv
  <2>2. /\ docs' = [docs EXCEPT ![l] = @ /\ ~due] /\ purged_at' = [purged_at EXCEPT ![l] = @ \/ due]
        /\ cron' = [cron EXCEPT !.todo = todo, !.purged = purged]
        /\ UNCHANGED <<purge_after, pro_revoked_at>>
    BY <1>4 DEF CronPurges
  <2>3. k = l => (due <=> ~purged_at[k] /\ p # Null /\ p = 0)
    BY DEF PurgeIsDue
  <2>4. due \in BOOLEAN
    BY DEF PurgeIsDue
  <2>5. k # l => (k \in todo <=> k \in cron.todo) /\ (k \in purged <=> k \in cron.purged)
    OBVIOUS
  <2>6. k = l /\ ~due => (k \in purged <=> k \in cron.purged)
    OBVIOUS
  <2> HIDE DEF l, due, todo, purged
  <2>7. /\ cron'.step = "purge" /\ cron'.answer = Null /\ cron'.todo = todo /\ cron'.purged = purged
        /\ cron'.after = cron.after /\ cron'.revoked = cron.revoked /\ cron'.listed = cron.listed
    BY <1>0, <2>1, <2>2 DEF Runs
  <2>8. /\ k # l => docs'[k] = docs[k] /\ purged_at'[k] = purged_at[k]
        /\ k = l => docs'[k] = (docs[k] /\ ~due) /\ purged_at'[k] = (purged_at[k] \/ due)
    BY <1>0, <2>1, <2>2 DEF LifecycleTypeOK
  <2>9. docs'[k] => docs[k] /\ ~purged_at'[k] /\ ~(k = l /\ (p = 0 \/ due))
    BY <1>1, <1>2, <2>3, <2>8
  <2>10. Even(k)'
    BY <1>0, <1>1, <1>2, <2>2 DEF Even
  <2>11. docs'[k] /\ Since(k) >= 1 => OwedBy(k)' <= OwedBy(k)
    <3>1. ToNextRun' = ToNextRun
      BY <1>2, <2>1, <2>7 DEF ToNextRun
    <3>2. docs'[k] /\ p = 0 => ToPurge(k)' = ToPurge(k)
      BY <2>1, <2>5, <2>7, <2>9, <3>1 DEF ToPurge
    <3>3. CASE p = 0
      BY <1>2, <2>2, <3>2, <3>3 DEF OwedBy, Owed
    <3>4. CASE p # 0
      <4>1. OwedBy(k)' = OwedBy(k)
        BY <1>0, <1>2, <2>2, <3>1, <3>4 DEF OwedBy, Owed
      <4> QED
        BY <1>2, <4>1
    <3> QED
      BY <3>3, <3>4
  <2>12. docs'[k] /\ Since(k) >= 1 => InHand(k)'
    <3> SUFFICES ASSUME docs'[k], Since(k) >= 1  PROVE InHand(k)'
      OBVIOUS
    <3>1. InHand(k) /\ purge_after'[k] = p /\ pro_revoked_at'[k] = a
      BY <1>1, <2>2, <2>9
    <3>2. p = 0 => k \in todo
      BY <2>1, <2>5, <2>9, <3>1 DEF InHand
    <3>3. p = Null => k \in cron.listed \ purged /\ cron.after[k] = Null /\ cron.revoked[k] = a
      BY <2>1, <2>5, <2>6, <2>9, <3>1 DEF InHand, Unvisited, Running
    <3> QED
      BY <2>7, <3>1, <3>2, <3>3 DEF InHand, Unvisited, Running
  <2> QED
    BY <2>9, <2>10, <2>11, <2>12
<1>5. CASE CronTurnsToOwners
  <2> DEFINE checked == {l \in cron.listed \ cron.purged : cron.after[l] = Null \/ cron.revoked[l] # Null}
  <2>1. checked \in SUBSET LibraryId
    BY <1>0 DEF Runs
  <2>2. Rotate(checked, ChecksPerRun) = checked
    BY <2>1, RotateIsAll, LifecycleAssumption DEF CronReachesAll
  <2>3. /\ cron.step = "purge" /\ cron' = [cron EXCEPT !.step = "owners", !.todo = checked] /\ UNCHANGED columns
        /\ cron.todo = {} /\ cron.answer = Null
    BY <1>5, <2>2 DEF CronTurnsToOwners, CronReachesAll, LifeInv
  <2>4. cron.after[k] = Null /\ k \in cron.listed \ cron.purged => k \in checked
    OBVIOUS
  <2> HIDE DEF checked
  <2>5. /\ cron'.step = "owners" /\ cron'.todo = checked /\ cron'.after = cron.after /\ cron'.revoked = cron.revoked
        /\ cron'.answer = Null /\ cron'.listed = cron.listed /\ cron'.purged = cron.purged
    BY <1>0, <2>3 DEF Runs
  <2>6. /\ docs' = docs /\ purged_at' = purged_at /\ purge_after' = purge_after /\ pro_revoked_at' = pro_revoked_at
        /\ Even(k)'
    BY <1>0, <1>1, <1>2, <2>3 DEF columns, Even
  <2> SUFFICES ASSUME docs[k], Since(k) >= 1  PROVE OwedBy(k)' <= OwedBy(k) /\ InHand(k)'
    BY <1>1, <2>6
  <2>7. p # 0 /\ (p = Null => k \in checked /\ cron.revoked[k] = a /\ k \in cron.listed \ cron.purged /\ cron.after[k] = Null)
    BY <1>1, <2>3, <2>4 DEF InHand, Unvisited, Running
  <2>8. ToNextRun' = ToNextRun
    BY <1>2, <2>3, <2>5 DEF ToNextRun
  <2>9. OwedBy(k)' = OwedBy(k)
    BY <1>0, <1>2, <2>6, <2>7, <2>8 DEF OwedBy, Owed
  <2>10. InHand(k)'
    BY <2>5, <2>6, <2>7 DEF InHand, Unvisited, Running
  <2> QED
    BY <1>2, <2>9, <2>10
<1>6. CASE CronAsks
  <2> DEFINE l == Foremost(cron.todo)
  <2>1. cron.step = "owners" /\ cron' = [cron EXCEPT !.answer = owner[l]] /\ UNCHANGED columns
    BY <1>6 DEF CronAsks, CronReachesAll
  <2> HIDE DEF l
  <2>2. /\ cron'.step = cron.step /\ cron'.todo = cron.todo /\ cron'.after = cron.after /\ cron'.revoked = cron.revoked
        /\ cron'.answer = owner[l] /\ cron'.listed = cron.listed /\ cron'.purged = cron.purged
    BY <1>0, <2>1 DEF Runs
  <2>3. /\ docs' = docs /\ purged_at' = purged_at /\ purge_after' = purge_after /\ pro_revoked_at' = pro_revoked_at
        /\ Even(k)'
    BY <1>0, <1>1, <1>2, <2>1 DEF columns, Even
  <2>4. OwedBy(k)' = OwedBy(k)
    BY <1>0, <1>2, <2>2, <2>3 DEF OwedBy, ToNextRun, ToPurge
  <2>5. InHand(k) => InHand(k)'
    BY <1>2, <2>2, <2>3 DEF InHand, Unvisited, Running, RevokedLately, l
  <2>6. OwedBy(k)' <= OwedBy(k)
    BY <1>2, <2>4
  <2> QED
    BY <1>1, <2>3, <2>5, <2>6
<1>7. CASE CronSettles
  <2> DEFINE l == Foremost(cron.todo)
             todo == cron.todo \ {l}
  <2>1. /\ l \in LibraryId /\ l \in cron.todo /\ CronDecides(l) /\ cron.step = "owners" /\ cron.answer # Null /\ Running
        /\ cron' = [cron EXCEPT !.todo = todo, !.answer = Null] /\ docs' = docs
    BY <1>0, <1>7, Visits DEF CronSettles, Running
  <2>2. k # l => (k \in todo <=> k \in cron.todo)
    OBVIOUS
  <2>3. k = l => k = Foremost(cron.todo)
    OBVIOUS
  <2> HIDE DEF l, todo
  <2>4. /\ cron'.step = "owners" /\ cron'.todo = todo /\ cron'.after = cron.after /\ cron'.revoked = cron.revoked
        /\ cron'.answer = Null /\ cron'.listed = cron.listed /\ cron'.purged = cron.purged
    BY <1>0, <2>1 DEF Runs
  <2>5. ToNextRun = 2 /\ ToPurge(k) = 2 /\ ToNextRun' = 2 /\ ToPurge(k)' = 2
    BY <1>0, <1>2, <2>1, <2>4 DEF ToNextRun, ToPurge
  <2>6. CASE k # l
    <3>1. purge_after'[k] = p /\ pro_revoked_at'[k] = a /\ purged_at'[k] = purged_at[k]
      BY <2>1, <2>6, DecisionTypes
    <3>2. Even(k)'
      BY <1>1, <1>2, <3>1, <1>0 DEF Even
    <3>3. OwedBy(k)' <= OwedBy(k)
      BY <1>0, <1>2, <2>5, <3>1 DEF OwedBy
    <3>4. InHand(k) => InHand(k)'
      BY <1>2, <2>1, <2>2, <2>4, <2>6, <3>1 DEF InHand, Unvisited, Running, RevokedLately
    <3> QED
      BY <1>1, <2>1, <3>1, <3>2, <3>3, <3>4
  <2>7. CASE k = l
    <3>0. /\ purge_after \in [LibraryId -> Dates] /\ pro_revoked_at \in [LibraryId -> Ages]
          /\ purged_at \in [LibraryId -> BOOLEAN] /\ CronDecides(k)
      BY <1>0, <2>1, <2>7 DEF LifecycleTypeOK, Dates, Ages
    <3>1. docs[k] => ~purged_at'[k]
      BY <1>1, <3>0 DEF CronDecides, reviveLibrary
    <3>2. Even(k)'
      <4>1. pro_revoked_at'[k] \in {a, 0, Null}
        BY <3>0 DEF CronDecides, reviveLibrary, setProRevoked
      <4>2. 0 % 2 = 0
        OBVIOUS
      <4> QED
        BY <1>0, <1>1, <1>2, <4>1, <4>2 DEF Even
    <3> SUFFICES ASSUME docs[k], Since(k) >= 1  PROVE OwedBy(k)' <= OwedBy(k) /\ InHand(k)'
      BY <2>1, <3>1, <3>2
    <3>3. /\ owner[k] # "pro" /\ cron.answer = owner[k] /\ ~purged_at[k]
          /\ p = Null => cron.after[k] = Null /\ cron.revoked[k] = a /\ k \in cron.listed \ cron.purged
      BY <1>1, <2>1, <2>3, <2>7 DEF InHand, Unvisited, Running
    <3>4. ASSUME p # Null, purge_after'[k] \in {p, 0}
          PROVE  OwedBy(k)' <= OwedBy(k) /\ InHand(k)'
      <4>1. OwedBy(k)' <= OwedBy(k)
        BY <1>2, <2>5, <3>4 DEF OwedBy, Owed, Larger
      <4>2. purge_after'[k] # Null
        BY <1>2, <3>4
      <4> QED
        BY <2>4, <4>1, <4>2 DEF InHand, Running
    <3>5. CASE p # Null
      <4>1. purge_after'[k] \in {p, 0}
        <5>1. CASE cron.after[k] # Null
          BY <3>0, <3>3, <5>1 DEF CronDecides
        <5>2. CASE cron.after[k] = Null
          <6>1. markLibraryForPurge(k, GraceTicks) \/ markLibraryForPurge(k, 0) \/ UNCHANGED purge_after
            BY <3>0, <5>2 DEF CronDecides
          <6>2. ~(p > GraceTicks)
            BY <1>2, <3>5, Constants DEF Dates
          <6>3. Sooner(p, GraceTicks) \in {p, 0} /\ Sooner(p, 0) \in {p, 0}
            BY <3>5, <6>2 DEF Sooner
          <6> QED
            BY <3>0, <3>3, <6>1, <6>3 DEF markLibraryForPurge
        <5> QED
          BY <5>1, <5>2
      <4> QED
        BY <3>4, <3>5, <4>1
    <3>6. CASE p = Null /\ owner[k] = "gone"
      <4>1. purge_after'[k] = GraceTicks
        BY <3>0, <3>3, <3>6 DEF CronDecides, markLibraryForPurge, Sooner
      <4>2. OwedBy(k) = GraceTicks + 1 /\ OwedBy(k)' = Larger(GraceTicks + 1, 2)
        BY <1>0, <1>2, <2>5, <3>6, <4>1, Constants DEF OwedBy, Owed
      <4>3. OwedBy(k)' <= OwedBy(k)
        BY <4>2, Constants DEF Larger
      <4>4. purge_after'[k] # Null
        BY <4>1, Constants
      <4> QED
        BY <2>4, <4>3, <4>4 DEF InHand, Running
    <3>7. CASE p = Null /\ owner[k] = "not_pro" /\ a = Null
      <4>1. purge_after'[k] = Null /\ pro_revoked_at'[k] = 0
        BY <3>0, <3>3, <3>7 DEF CronDecides, setProRevoked
      <4>2. OwedBy(k) = RevokedTicks + 2 /\ OwedBy(k)' = Larger(RevokedTicks - 0, 0) + 2
        BY <1>0, <1>2, <2>5, <3>7, <4>1, Constants DEF OwedBy, Owed
      <4>3. OwedBy(k)' <= OwedBy(k)
        BY <4>2, Constants DEF Larger
      <4>4. RevokedLately(k)' /\ ~Unvisited(k)'
        <5>1. k \notin todo
          BY <2>7 DEF todo
        <5> QED
          BY <1>2, <2>4, <3>7, <4>1, <5>1, Constants DEF RevokedLately, Unvisited
      <4> QED
        BY <2>4, <3>3, <3>7, <4>1, <4>3, <4>4 DEF InHand, Running
    <3>8. CASE p = Null /\ owner[k] = "not_pro" /\ a # Null /\ a >= RevokedTicks
      <4>1. purge_after'[k] = 0
        BY <3>0, <3>3, <3>8 DEF CronDecides, markLibraryForPurge, Sooner
      <4>2. OwedBy(k) = Larger(RevokedTicks - a, 0) + 2 /\ OwedBy(k)' = 2
        BY <1>0, <1>2, <2>5, <3>8, <4>1 DEF OwedBy, Owed
      <4>3. OwedBy(k)' <= OwedBy(k)
        BY <1>2, <3>8, <4>2, Constants DEF Larger
      <4> QED
        BY <1>2, <2>4, <4>1, <4>3 DEF InHand, Running
    <3>9. CASE p = Null /\ owner[k] = "not_pro" /\ a # Null /\ ~(a >= RevokedTicks)
      <4>1. purge_after'[k] = Null /\ pro_revoked_at'[k] = a
        BY <3>0, <3>3, <3>9 DEF CronDecides
      <4>2. OwedBy(k)' = OwedBy(k)
        BY <1>0, <1>2, <2>5, <3>9, <4>1 DEF OwedBy
      <4>3. OwedBy(k)' <= OwedBy(k)
        BY <1>2, <4>2
      <4>4. RevokedLately(k)' /\ ~Unvisited(k)'
        <5>1. k \notin todo
          BY <2>7 DEF todo
        <5>2. a < RevokedTicks
          BY <1>2, <3>9, Constants
        <5> QED
          BY <1>2, <2>4, <3>9, <4>1, <5>1, <5>2, Constants DEF RevokedLately, Unvisited, RevokedTicks, Ticks
      <4> QED
        BY <2>4, <3>3, <3>9, <4>1, <4>3, <4>4 DEF InHand, Running
    <3> QED
      BY <1>2, <3>3, <3>5, <3>6, <3>7, <3>8, <3>9 DEF OwnerState
  <2> QED
    BY <2>6, <2>7
<1>8. CASE CronEnds
  <2>1. cron' = [Idle EXCEPT !.step = "done"] /\ UNCHANGED columns /\ cron.step = "owners" /\ cron.todo = {}
    BY <1>8 DEF CronEnds, CronReachesAll
  <2>2. cron'.step = "done" /\ cron'.answer = Null /\ cron'.todo = {}
    BY <2>1 DEF Idle
  <2>3. /\ docs' = docs /\ purged_at' = purged_at /\ purge_after' = purge_after /\ pro_revoked_at' = pro_revoked_at
        /\ Even(k)'
    BY <1>0, <1>1, <1>2, <2>1 DEF columns, Even
  <2>4. ToNextRun = ToNextRun' /\ ToPurge(k) = ToPurge(k)'
    BY <1>0, <1>2, <2>1, <2>2 DEF ToNextRun, ToPurge
  <2>5. OwedBy(k)' <= OwedBy(k)
    BY <1>0, <1>2, <2>3, <2>4 DEF OwedBy
  <2>6. InHand(k) => InHand(k)'
    BY <1>2, <2>1, <2>2, <2>3 DEF InHand, Unvisited, Running, RevokedLately
  <2> QED
    BY <1>1, <2>3, <2>5, <2>6
<1> QED
  BY <1>3, <1>4, <1>5, <1>6, <1>7, <1>8 DEF CronStep

LEMMA TimelyByTime == ASSUME LifeInv, TimelyInv, Tick PROVE TimelyInv'
<1> SUFFICES ASSUME NEW k \in LibraryId
             PROVE  /\ Timely(k)' /\ Even(k)'
                    /\ event'[k] => owner'[k] = "gone"
                    /\ sinceLoss'[k] >= 1 => owner'[k] # "pro"
  BY DEF TimelyInv
<1> DEFINE p == purge_after[k]
           a == pro_revoked_at[k]
           q == purge_after'[k]
           b == pro_revoked_at'[k]
<1>1. /\ UNCHANGED <<owner, event, docs, purged_at>> /\ half' = ~half /\ half \in BOOLEAN
      /\ cron'.step = "idle" /\ cron'.answer = Null
      /\ (half => cron.step = "idle") /\ (~half => cron.step = "done")
  BY DEF Tick, Idle, LifeInv, LifecycleTypeOK
<1>2. /\ q = IF p \in {Null, 0} THEN p ELSE p - 1
      /\ b = IF a = Null THEN Null ELSE Older(a, RevokedTicks)
      /\ sinceUpload'[k] = Older(sinceUpload[k], HistoryBound)
      /\ sinceLoss'[k] = IF owner[k] = "pro" THEN 0 ELSE Older(sinceLoss[k], HistoryBound)
  BY DEF Tick
<1>3. /\ p \in Dates /\ a \in Ages /\ (a # Null => a \in 0 .. RevokedTicks) /\ owner[k] \in OwnerState
      /\ sinceUpload[k] \in Nat /\ sinceLoss[k] \in Nat /\ sinceUpload'[k] \in Nat /\ sinceLoss'[k] \in Nat
      /\ q \in Dates /\ b \in Ages
      /\ Since(k) \in Nat /\ OwedBy(k) \in Nat /\ Bound \in Nat /\ 0 # Null
  BY OwedTypes, TickKeeps, Constants DEF LifeInv, LifecycleTypeOK, Dates, Ages
<1>4. /\ (docs[k] => ~purged_at[k]) /\ Even(k) /\ (event[k] => owner[k] = "gone")
      /\ docs[k] /\ Since(k) >= 1 => owner[k] # "pro" /\ Since(k) + OwedBy(k) <= Bound /\ InHand(k)
  BY DEF TimelyInv, Timely
<1>5. Even(k)'
  <2>1. CASE a = Null \/ a = RevokedTicks
    <3>1. b = a
      BY <1>2, <1>3, <2>1, Constants DEF Older
    <3> QED
      BY <2>1, <3>1, Constants DEF Even, RevokedTicks, Ticks
  <2>2. CASE a # Null /\ a # RevokedTicks
    <3>1. a \in Nat /\ b = a + 1 /\ a % 2 = Half
      BY <1>2, <1>3, <1>4, <2>2, Constants DEF Older, Even
    <3>2. CASE half
      <4>1. Half = 1 /\ Half' = 0
        BY <1>1, <3>2 DEF Half
      <4> QED
        BY <3>1, <4>1, Alternates DEF Even
    <3>3. CASE ~half
      <4>1. Half = 0 /\ Half' = 1
        BY <1>1, <3>3 DEF Half
      <4> QED
        BY <3>1, <4>1, Alternates DEF Even
    <3> QED
      BY <3>2, <3>3
  <2> QED
    BY <2>1, <2>2
<1>6. event'[k] => owner'[k] = "gone"
  BY <1>1, <1>4
<1>7. sinceLoss'[k] >= 1 => owner'[k] # "pro"
  BY <1>1, <1>2
<1>8. InHand(k)'
  BY <1>1 DEF InHand, Unvisited, Running
<1> HIDE DEF p, a, q, b
<1>9. CASE Since(k) = 0
  <2>1. sinceUpload'[k] <= 1 \/ sinceLoss'[k] <= 1
    BY <1>2, <1>3, <1>9 DEF Since, Older
  <2>2. Since(k)' <= 1 /\ Since(k)' \in Nat /\ (Since(k)' >= 1 => sinceLoss'[k] >= 1)
    BY <1>3, <2>1 DEF Since
  <2>3. ToNextRun' \in 0 .. 1 /\ Half' \in 0 .. 1 /\ ToPurge(k)' = ToNextRun'
    BY <1>1 DEF ToNextRun, Half, ToPurge
  <2>4. 1 + OwedBy(k)' <= Bound /\ OwedBy(k)' \in Nat
    <3>1. 1 + Owed(q, b, owner'[k], ToNextRun', ToNextRun', Half') <= Bound
      BY <1>3, <2>3, OwedAtMost
    <3>2. Owed(q, b, owner'[k], ToNextRun', ToNextRun', Half') \in Nat
      BY <1>3, <2>3, OwedIsNat
    <3>3. OwedBy(k)' = Owed(q, b, owner'[k], ToNextRun', ToNextRun', Half')
      BY <2>3 DEF OwedBy, q, b
    <3> QED
      BY <3>1, <3>2, <3>3
  <2>5. Since(k)' + OwedBy(k)' <= Bound
    BY <1>3, <2>2, <2>4
  <2> QED
    BY <1>1, <1>4, <1>5, <1>6, <1>7, <1>8, <2>2, <2>5 DEF Timely, Bound
<1>10. CASE Since(k) # 0
  <2>1. Since(k) >= 1 /\ Since(k)' <= Since(k) + 1 /\ Since(k)' \in Nat
    <3>1. sinceUpload'[k] <= sinceUpload[k] + 1 /\ sinceLoss'[k] <= sinceLoss[k] + 1
      BY <1>2, <1>3 DEF Older
    <3> QED
      BY <1>3, <1>10, <3>1 DEF Since
  <2> SUFFICES ASSUME docs[k]  PROVE Since(k)' + OwedBy(k)' <= Bound
    BY <1>1, <1>4, <1>5, <1>6, <1>7, <1>8, <2>1 DEF Timely, Bound
  <2>2. owner[k] # "pro" /\ Since(k) + OwedBy(k) <= Bound /\ InHand(k)
    BY <1>4, <2>1
  <2>3. OwedBy(k)' <= OwedBy(k) - 1 /\ OwedBy(k)' \in Nat
    <3>1. CASE half
      <4>1. /\ ToNextRun = 1 /\ ToPurge(k) = 1 /\ Half = 1 /\ ToNextRun' = 0 /\ ToPurge(k)' = 0 /\ Half' = 0
        BY <1>1, <3>1 DEF ToNextRun, ToPurge, Half
      <4>2. OwedBy(k)' = Owed(q, b, owner[k], 0, 0, 0) /\ OwedBy(k) = Owed(p, a, owner[k], 1, 1, 1)
        BY <1>1, <4>1 DEF OwedBy, p, a, q, b
      <4>3. Owed(q, b, owner[k], 0, 0, 0) <= Owed(p, a, owner[k], 1, 1, 1) - 1
        BY <1>2, <1>3, MorningPays
      <4>4. Owed(q, b, owner[k], 0, 0, 0) \in Nat
        BY <1>3, OwedIsNat
      <4> QED
        BY <4>2, <4>3, <4>4
    <3>2. CASE ~half
      <4>1. /\ ToNextRun = 2 /\ ToPurge(k) = 2 /\ Half = 0 /\ ToNextRun' = 1 /\ ToPurge(k)' = 1 /\ Half' = 1
        BY <1>1, <3>2 DEF ToNextRun, ToPurge, Half
      <4>2. OwedBy(k)' = Owed(q, b, owner[k], 1, 1, 1) /\ OwedBy(k) = Owed(p, a, owner[k], 2, 2, 0)
        BY <1>1, <4>1 DEF OwedBy, p, a, q, b
      <4>3. p = Null => owner[k] = "not_pro" /\ a # Null /\ a < RevokedTicks
        BY <1>1, <2>2, <3>2 DEF InHand, Unvisited, RevokedLately, p, a
      <4>4. p = Null => a % 2 = 0
        <5>1. a < RevokedTicks => a # RevokedTicks
          BY <1>3, Constants
        <5> QED
          BY <1>4, <4>1, <4>3, <5>1 DEF Even, a
      <4>5. Owed(q, b, owner[k], 1, 1, 1) <= Owed(p, a, owner[k], 2, 2, 0) - 1
        BY <1>2, <1>3, <4>3, <4>4, EveningPays
      <4>6. Owed(q, b, owner[k], 1, 1, 1) \in Nat
        BY <1>3, OwedIsNat
      <4> QED
        BY <4>2, <4>5, <4>6
    <3> QED
      BY <1>1, <3>1, <3>2
  <2> QED
    BY <1>3, <2>1, <2>2, <2>3
<1> QED
  BY <1>9, <1>10

(* Where the cron works every day and a run reaches every library, one     *)
(* whose owner lost Pro is empty two days after the longer of the periods, *)
(* in whatever order the steps of the runs, the webhook, Clerk's answers   *)
(* and uploads come (route.ts:39-55, 166-254).                             *)
THEOREM PurgesAreTimely == ASSUME CronReachesAll PROVE LifecycleSpec => []PurgedInTime
<1>1. LifecycleInit => TimelyInv
  <2> SUFFICES ASSUME LifecycleInit, NEW k \in LibraryId
               PROVE  /\ Timely(k) /\ Even(k) /\ (event[k] => owner[k] = "gone")
                      /\ sinceLoss[k] >= 1 => owner[k] # "pro"
    BY DEF TimelyInv
  <2>1. ~purged_at[k] /\ pro_revoked_at[k] = Null /\ ~event[k] /\ sinceLoss[k] = 0 /\ sinceUpload[k] = 0
    BY DEF LifecycleInit
  <2> QED
    BY <2>1 DEF Timely, Even, Since
<1>2. LifeInv /\ TimelyInv /\ [LifecycleNext]_lifecycleVars => TimelyInv'
  <2> SUFFICES ASSUME LifeInv, TimelyInv, [LifecycleNext]_lifecycleVars  PROVE TimelyInv'
    OBVIOUS
  <2>1. CASE UNCHANGED lifecycleVars
    BY <2>1, Untouched DEF lifecycleVars, clerk, columns, clock, history, TimelyInv
  <2>2. CASE LifecycleNext
    BY <2>2, TimelyByOwner, TimelyByRun, TimelyByTime DEF LifecycleNext
  <2> QED
    BY <2>1, <2>2
<1>3. LifeInv /\ TimelyInv => PurgedInTime
  <2> SUFFICES ASSUME LifeInv, TimelyInv, NEW l \in LibraryId, docs[l], sinceUpload[l] >= sinceLoss[l]
               PROVE  sinceLoss[l] <= Ticks(IF RevokedDays > GraceDays THEN RevokedDays + 2 ELSE GraceDays + 2)
    BY DEF PurgedInTime
  <2>1. Bound = Ticks(IF RevokedDays > GraceDays THEN RevokedDays + 2 ELSE GraceDays + 2)
    BY Constants DEF Bound, Larger, Ticks
  <2>2. Since(l) = sinceLoss[l] /\ Since(l) \in Nat /\ OwedBy(l) \in Nat /\ Bound \in Nat
    BY OwedTypes DEF Since, LifeInv, LifecycleTypeOK
  <2>3. Since(l) >= 1 => Since(l) + OwedBy(l) <= Bound
    BY DEF TimelyInv, Timely
  <2> QED
    BY <2>1, <2>2, <2>3
<1> QED
  BY <1>1, <1>2, <1>3, LifecycleInvariant, PTL DEF LifecycleSpec
=============================================================================
