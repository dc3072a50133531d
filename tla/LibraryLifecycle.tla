-------------------------- MODULE LibraryLifecycle --------------------------
(***************************************************************************)
(* When a library of Vlastni zdroje is emptied for good: its owner in      *)
(* Clerk, the account webhook, the daily cron (route.ts) and an upload     *)
(* write the same three columns of `libraries`, and the cron acts on what  *)
(* it listed at its start and on what Clerk told it a moment ago.          *)
(*                                                                         *)
(* Time runs in half days: the cron runs at the even ticks and other       *)
(* things happen at any tick, also between two steps of a run.  Dates are  *)
(* kept relative to now, so that time is unbounded: purge_after is the     *)
(* time left, pro_revoked_at the time since.                               *)
(***************************************************************************)
EXTENDS Integers, FiniteSets

CONSTANTS
    Libraries,       \* how many libraries there are
    RevokedDays,     \* REVOKED_PURGE_DAYS
    GraceDays,       \* PURGE_GRACE_DAYS of the webhook, 6 days in the cron too
    PurgePerRun,     \* PURGE_PER_RUN
    ChecksPerRun,    \* OWNER_CHECKS_PER_RUN
    CronIsReliable,  \* the cron runs every day and no task of it fails
    HistoryBound,    \* where the history variables saturate
    DayBound,        \* the day counts modulo this multiple of every length
                     \* of a list of which a run takes only a part
    Null

ASSUME LifecycleAssumption ==
    /\ {Libraries, RevokedDays, GraceDays, PurgePerRun, ChecksPerRun, DayBound}
          \subseteq Nat \ {0}
    /\ HistoryBound \in Nat
    /\ \A len \in ChecksPerRun + 1 .. Libraries : DayBound % len = 0
    /\ CronIsReliable \in BOOLEAN
    /\ Null \notin Int

VARIABLES
    owner,            \* Clerk: what libraryOwnerState answers for each library
    accessPro,        \* an instance still holds the owner's access with Pro (10 s)
    event,            \* a user.deleted webhook Svix has yet to deliver
    docs,             \* does the library hold documents
    purge_after, pro_revoked_at, purged_at,
    half, day,        \* is it between two runs; the day, for rotate
    cron,             \* the maintenance run
    everLost,         \* history: the owner was without Pro at some time
    sinceUpload,      \* history: ticks since the last upload
    sinceLoss         \* history: ticks since the owner lost Pro or, later than
                      \* that, the account was deleted; 0 with Pro

columns == <<docs, purge_after, pro_revoked_at, purged_at>>
clock == <<half, day>>
history == <<everLost, sinceUpload, sinceLoss>>
clerk == <<owner, accessPro, event>>
lifecycleVars == <<clerk, columns, clock, cron, history>>

LibraryId == 1 .. Libraries
OwnerState == {"pro", "not_pro", "gone"}
Ticks(days) == 2 * days
RevokedTicks == Ticks(RevokedDays)
GraceTicks == Ticks(GraceDays)

(* What a run listed, and where it is.  todo: the libraries its current    *)
(* task still has to visit; answer: what Clerk said of the first of them.  *)
Idle == [step |-> "idle", listed |-> {}, after |-> <<>>, revoked |-> <<>>,
         purged |-> {}, todo |-> {}, answer |-> Null]

(* The type invariant. *)
LifecycleTypeOK ==
    /\ owner \in [LibraryId -> OwnerState]
    /\ accessPro \in [LibraryId -> BOOLEAN]
    /\ event \in [LibraryId -> BOOLEAN]
    /\ docs \in [LibraryId -> BOOLEAN]
    /\ purge_after \in [LibraryId -> {Null} \cup 0 .. GraceTicks]
    /\ pro_revoked_at \in [LibraryId -> {Null} \cup 0 .. RevokedTicks]
    /\ purged_at \in [LibraryId -> BOOLEAN]
    /\ half \in BOOLEAN
    /\ day \in 0 .. DayBound - 1
    /\ cron.step \in {"idle", "purge", "owners", "done"}
    /\ cron.todo \subseteq LibraryId
    /\ cron.answer \in OwnerState \cup {Null}
    /\ everLost \in [LibraryId -> BOOLEAN]
    /\ sinceUpload \in [LibraryId -> 0 .. HistoryBound]
    /\ sinceLoss \in [LibraryId -> 0 .. HistoryBound]

(* Libraries that have just been filled by an owner with Pro. *)
LifecycleInit ==
    /\ owner = [l \in LibraryId |-> "pro"]
    /\ accessPro = [l \in LibraryId |-> TRUE]
    /\ event = [l \in LibraryId |-> FALSE]
    /\ docs = [l \in LibraryId |-> TRUE]
    /\ purge_after = [l \in LibraryId |-> Null]
    /\ pro_revoked_at = [l \in LibraryId |-> Null]
    /\ purged_at = [l \in LibraryId |-> FALSE]
    /\ half = TRUE
    /\ day = 0
    /\ cron = Idle
    /\ everLost = [l \in LibraryId |-> FALSE]
    /\ sinceUpload = [l \in LibraryId |-> 0]
    /\ sinceLoss = [l \in LibraryId |-> 0]
-----------------------------------------------------------------------------
(* Clerk and the webhook *)

OwnerChanges(l, state) ==
    /\ owner[l] # "gone"
    /\ owner' = [owner EXCEPT ![l] = state]
    /\ event' = [event EXCEPT ![l] = state = "gone"]
    /\ everLost' = [everLost EXCEPT ![l] = TRUE]
    /\ sinceLoss' = [sinceLoss EXCEPT ![l] = 0]
    /\ UNCHANGED <<accessPro, columns, clock, cron, sinceUpload>>

(* getAccess: a fresh answer replaces the cached one. *)
AccessRefreshed(l) ==
    /\ accessPro' = [accessPro EXCEPT ![l] = owner[l] = "pro"]
    /\ UNCHANGED <<owner, event, columns, clock, cron, history>>

(* The earlier of two dates wins. *)
Sooner(date, after) == IF date = Null \/ date > after THEN after ELSE date

markLibraryForPurge_postpones(l, after) ==
    purge_after' = IF purged_at[l] THEN purge_after ELSE [purge_after EXCEPT ![l] = after]

markLibraryForPurge(l, after) ==
    purge_after' = IF purged_at[l] THEN purge_after
                   ELSE [purge_after EXCEPT ![l] = Sooner(@, after)]

(* scheduleLibraryPurge; Svix may deliver an event more than once (again)  *)
(* and gives up on one that is refused for too long (WebhookLost).         *)
Webhook(l, again) ==
    /\ event[l]
    /\ markLibraryForPurge(l, GraceTicks)
    /\ event' = [event EXCEPT ![l] = again]
    /\ UNCHANGED <<owner, accessPro, docs, pro_revoked_at, purged_at, clock, cron, history>>

WebhookLost(l) ==
    /\ event[l]
    /\ event' = [event EXCEPT ![l] = FALSE]
    /\ UNCHANGED <<owner, accessPro, columns, clock, cron, history>>
-----------------------------------------------------------------------------
(* Upload: with Pro as the instance knows it; the same transaction revives *)
(* the library.                                                            *)
Upload(l) ==
    /\ accessPro[l]
    /\ docs' = [docs EXCEPT ![l] = TRUE]
    /\ purge_after' = [purge_after EXCEPT ![l] = Null]
    /\ pro_revoked_at' = [pro_revoked_at EXCEPT ![l] = Null]
    /\ purged_at' = [purged_at EXCEPT ![l] = FALSE]
    /\ sinceUpload' = [sinceUpload EXCEPT ![l] = 0]
    /\ UNCHANGED <<clerk, clock, cron, everLost, sinceLoss>>
-----------------------------------------------------------------------------
(* The cron *)

Foremost(S) == CHOOSE l \in S : \A k \in S : l <= k

(* The first n of a set in id order (slice). *)
Sliced(S, n) == {l \in S : Cardinality({k \in S : k < l}) < n}

Rotate_fromTheFirst(S, n) == Sliced(S, n)

(* rotate: n of the items, from a position that moves every day. *)
Rotate(S, n) ==
    LET len == Cardinality(S)
        start == (day * n) % len
        position(l) == Cardinality({k \in S : k < l})
    IN  IF len <= n THEN S
        ELSE {l \in S : (position(l) - start + len) % len < n}

(* The run lists the live libraries and picks those due. *)
CronLists ==
    LET listed == {l \in LibraryId : ~purged_at[l]}
        due == {l \in listed : purge_after[l] # Null /\ purge_after[l] = 0}
    IN  /\ ~half
        /\ cron.step = "idle"
        /\ cron' = [Idle EXCEPT !.step = "purge", !.listed = listed, !.after = purge_after,
                                !.revoked = pro_revoked_at, !.todo = Sliced(due, PurgePerRun)]
        /\ UNCHANGED <<clerk, columns, clock, history>>

(* lockDuePurge *)
PurgeIsDue_asListed(l) == cron.after[l] = 0

PurgeIsDue(l) == ~purged_at[l] /\ purge_after[l] # Null /\ purge_after[l] = 0

(* One library of the purge task, in id order. *)
CronPurges ==
    LET l == Foremost(cron.todo)
    IN  /\ cron.step = "purge"
        /\ cron.todo # {}
        /\ docs' = [docs EXCEPT ![l] = @ /\ ~PurgeIsDue(l)]
        /\ purged_at' = [purged_at EXCEPT ![l] = @ \/ PurgeIsDue(l)]
        /\ cron' = [cron EXCEPT !.todo = @ \ {l},
                                !.purged = IF PurgeIsDue(l) THEN @ \cup {l} ELSE @]
        /\ UNCHANGED <<clerk, purge_after, pro_revoked_at, clock, history>>

(* The libraries the owners task asks Clerk about, as they were listed. *)
CronTurnsToOwners ==
    LET checked == {l \in cron.listed \ cron.purged :
                       cron.after[l] = Null \/ cron.revoked[l] # Null}
    IN  /\ cron.step = "purge"
        /\ cron.todo = {} \/ ~CronIsReliable
        /\ cron' = [cron EXCEPT !.step = "owners", !.todo = Rotate(checked, ChecksPerRun)]
        /\ UNCHANGED <<clerk, columns, clock, history>>

(* libraryOwnerState of the next library; a failed lookup skips it. *)
CronAsks ==
    /\ cron.step = "owners"
    /\ cron.todo # {}
    /\ cron.answer = Null
    /\ \/ cron' = [cron EXCEPT !.answer = owner[Foremost(cron.todo)]]
       \/ ~CronIsReliable /\ cron' = [cron EXCEPT !.todo = @ \ {Foremost(cron.todo)}]
    /\ UNCHANGED <<clerk, columns, clock, history>>

reviveLibrary(l) ==
    /\ purge_after' = [purge_after EXCEPT ![l] = Null]
    /\ pro_revoked_at' = [pro_revoked_at EXCEPT ![l] = Null]
    /\ purged_at' = [purged_at EXCEPT ![l] = FALSE]

(* The first revocation date is kept. *)
setProRevoked(l, revoked) ==
    pro_revoked_at' = IF purged_at[l] THEN pro_revoked_at
                      ELSE [pro_revoked_at EXCEPT ![l] =
                              IF ~revoked THEN Null ELSE IF @ = Null THEN 0 ELSE @]

CronDecides_forgetsToClear(l) ==
    \/ /\ cron.after[l] # Null
       /\ UNCHANGED <<purge_after, pro_revoked_at, purged_at>>
    \/ /\ cron.after[l] = Null
       /\ cron.answer = "not_pro"
       /\ setProRevoked(l, TRUE)
       /\ UNCHANGED <<purge_after, purged_at>>
    \/ /\ cron.after[l] = Null
       /\ cron.answer # "not_pro"
       /\ UNCHANGED <<purge_after, pro_revoked_at, purged_at>>

(* What the transaction of one library writes, from the columns as they    *)
(* were listed and from Clerk's answer.                                    *)
CronDecides(l) ==
    \/ /\ cron.after[l] # Null
       /\ IF cron.answer = "pro" THEN reviveLibrary(l)
          ELSE UNCHANGED <<purge_after, pro_revoked_at, purged_at>>
    \/ /\ cron.after[l] = Null
       /\ cron.answer = "gone"
       /\ markLibraryForPurge(l, GraceTicks)
       /\ UNCHANGED <<pro_revoked_at, purged_at>>
    \/ /\ cron.after[l] = Null
       /\ cron.answer = "pro"
       /\ IF cron.revoked[l] # Null THEN setProRevoked(l, FALSE) ELSE UNCHANGED pro_revoked_at
       /\ UNCHANGED <<purge_after, purged_at>>
    \/ /\ cron.after[l] = Null
       /\ cron.answer = "not_pro"
       /\ cron.revoked[l] = Null
       /\ setProRevoked(l, TRUE)
       /\ UNCHANGED <<purge_after, purged_at>>
    \/ /\ cron.after[l] = Null
       /\ cron.answer = "not_pro"
       /\ cron.revoked[l] # Null
       /\ IF cron.revoked[l] >= RevokedTicks THEN markLibraryForPurge(l, 0)
          ELSE UNCHANGED purge_after
       /\ UNCHANGED <<pro_revoked_at, purged_at>>

CronSettles_keepsAnswer ==
    LET l == Foremost(cron.todo)
    IN  /\ cron.step = "owners"
        /\ cron.todo # {}
        /\ cron.answer # Null
        /\ CronDecides(l)
        /\ cron' = [cron EXCEPT !.todo = @ \ {l}]
        /\ UNCHANGED <<clerk, docs, clock, history>>

CronSettles ==
    LET l == Foremost(cron.todo)
    IN  /\ cron.step = "owners"
        /\ cron.todo # {}
        /\ cron.answer # Null
        /\ CronDecides(l)
        /\ cron' = [cron EXCEPT !.todo = @ \ {l}, !.answer = Null]
        /\ UNCHANGED <<clerk, docs, clock, history>>

(* The run ends: nothing left, or (not CronIsReliable) a task threw, the   *)
(* soft deadline passed, the function was killed, or it never started.     *)
CronEnds ==
    /\ ~half
    /\ cron.step # "done"
    /\ (cron.step = "owners" /\ cron.todo = {}) \/ ~CronIsReliable
    /\ cron' = [Idle EXCEPT !.step = "done"]
    /\ UNCHANGED <<clerk, columns, clock, history>>

CronStep == CronLists \/ CronPurges \/ CronTurnsToOwners \/ CronAsks \/ CronSettles \/ CronEnds
-----------------------------------------------------------------------------
Older(age, bound) == IF age < bound THEN age + 1 ELSE age

(* Half a day passes; a run is over within it and so is the access cache.  *)
Tick ==
    /\ half \/ cron.step = "done"
    /\ half' = ~half
    /\ day' = IF half THEN (day + 1) % DayBound ELSE day
    /\ cron' = Idle
    /\ accessPro' = [l \in LibraryId |-> owner[l] = "pro"]
    /\ purge_after' = [l \in LibraryId |->
                         IF purge_after[l] \in {Null, 0} THEN purge_after[l] ELSE purge_after[l] - 1]
    /\ pro_revoked_at' = [l \in LibraryId |-> IF pro_revoked_at[l] = Null THEN Null
                                              ELSE Older(pro_revoked_at[l], RevokedTicks)]
    /\ sinceUpload' = [l \in LibraryId |-> Older(sinceUpload[l], HistoryBound)]
    /\ sinceLoss' = [l \in LibraryId |-> IF owner[l] = "pro" THEN 0
                                        ELSE Older(sinceLoss[l], HistoryBound)]
    /\ UNCHANGED <<owner, event, docs, purged_at, everLost>>

LifecycleNext ==
    \/ \E l \in LibraryId :
         \/ \E state \in OwnerState \ {owner[l]} : OwnerChanges(l, state)
         \/ AccessRefreshed(l)
         \/ \E again \in BOOLEAN : Webhook(l, again)
         \/ WebhookLost(l)
         \/ Upload(l)
    \/ CronStep
    \/ Tick

LifecycleSpec == LifecycleInit /\ [][LifecycleNext]_lifecycleVars

(* The daily schedule: time passes, and a run that is under way goes on    *)
(* (with CronIsReliable nothing cuts it short).                            *)
FairLifecycleSpec == LifecycleSpec /\ WF_lifecycleVars(Tick) /\ WF_lifecycleVars(CronStep)
-----------------------------------------------------------------------------
(* The cron empties this library in this step. *)
Purges(l) == docs[l] /\ ~docs'[l]

(* A document is never wiped by the run during which it was uploaded: the  *)
(* purge re-reads the mark under the row lock, whatever the run listed     *)
(* (lockDuePurge, reviveLibrary).                                          *)
PurgeSparesUploads == \A l \in LibraryId : Purges(l) => sinceUpload[l] >= Ticks(1)
UploadOutlivesTheRun == [][PurgeSparesUploads]_lifecycleVars

(* Nothing the owner of one library does, and no order of the steps of a   *)
(* run, ever empties the library of an owner who had Pro all along (the    *)
(* owners task decides each library by its own lookup).                    *)
PurgeSparesKeptPro == \A l \in LibraryId : Purges(l) => everLost[l]
KeptProKeepsDocuments == [][PurgeSparesKeptPro]_lifecycleVars

(* With a cron that works every day, a library is empty at the latest two  *)
(* days after the grace period, so eight days with the six of the code:    *)
(* one day until the loss is noticed, one until the mark it then gets is   *)
(* acted on (the week that the comments speak of is PurgedWithinAWeek).    *)
PurgedInTime ==
    \A l \in LibraryId : docs[l] /\ sinceUpload[l] >= sinceLoss[l] =>
        sinceLoss[l] <= Ticks(IF RevokedDays > GraceDays THEN RevokedDays + 2 ELSE GraceDays + 2)

(* The library of an owner who never gets Pro again is emptied for good,   *)
(* whatever the webhook and the races with late uploads did.               *)
LostIsPurged ==
    \A l \in LibraryId : (<>[](owner[l] # "pro")) => <>[](~docs[l])

(* An owner who has Pro for good is left alone for good: no revocation and *)
(* no live purge mark stays behind to strike later.                        *)
RestoredIsLeftAlone ==
    \A l \in LibraryId :
        (<>[](owner[l] = "pro")) =>
            <>[](purged_at[l] \/ (purge_after[l] = Null /\ pro_revoked_at[l] = Null))
-----------------------------------------------------------------------------
(* Claims of the comments and the docs that the code does not keep.        *)

(* development.md:530-531 "do výmazu (6 dní + nejvýš den do cronu,         *)
(* `/soukromi` říká „do týdne“)", and files-legal-texts.test.ts:70: one    *)
(* day after the grace period a library is empty.                          *)
PurgedWithinAWeek ==
    \A l \in LibraryId : docs[l] /\ sinceUpload[l] >= sinceLoss[l] =>
        sinceLoss[l] <= Ticks(IF RevokedDays > GraceDays THEN RevokedDays + 1 ELSE GraceDays + 1)

(* route.ts:72-73 "Pro restored before that purge ran revives the library". *)
RestoredProIsSpared == [][\A l \in LibraryId : Purges(l) => owner[l] # "pro"]_lifecycleVars
=============================================================================
