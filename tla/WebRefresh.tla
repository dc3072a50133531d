----------------------------- MODULE WebRefresh -----------------------------
(***************************************************************************)
(* What the page shows of the server and how it is kept current.           *)
(*                                                                         *)
(* The summary that every surface shares (app/_zdroje/store.ts 125-205):   *)
(* one fetch at a time, calls during it coalesced into one more, and a     *)
(* timer that follows documents in processing until they settle.  A        *)
(* summary is the set of documents it shows in processing, with the number *)
(* of the server's changes it has seen.                                    *)
(*                                                                         *)
(* The list of files in the open modal (app/_zdroje/files-modal.tsx,       *)
(* useDocumentList and Library): each reload replaces the one under way,   *)
(* and while a shown file is in processing its status is polled.           *)
(*                                                                         *)
(* Answers are late and may fail, the tab is hidden and shown; one         *)
(* signed-in account.                                                      *)
(***************************************************************************)
EXTENDS Naturals, FiniteSets

CONSTANT MaxChanges   \* bound: changes at the server

ASSUME WebSummaryAssumption == MaxChanges \in Nat

VARIABLES
    changes,         \* at the server: changes so far, 1 + one per event
    processing,      \* at the server: documents in processing
    told,            \* the change the page last asked to be shown
    summaryFetch,    \* inflight: none, asked for, or the answer under way
    again,           \* the follow-up that calls during a fetch asked for
    summary,         \* what is shown
    summaryFailed,
    followTimer,     \* the timer of followProcessing
    followWaits,     \* its fetch waits for the tab to be visible
    tabVisible

summaryVars == <<changes, processing, told, summaryFetch, again, summary, summaryFailed,
                 followTimer, followWaits, tabVisible>>

Summary(change, documents) == [change |-> change, processing |-> documents]
Fetch(stage, answer) == [stage |-> stage, answer |-> answer]
NotFetching == Fetch("none", Summary(0, 0))
Asked == Fetch("asked", Summary(0, 0))

SummaryInit ==
    /\ changes = 1 /\ processing \in 0..1 /\ told = 1
    /\ summaryFetch = Asked /\ again = FALSE      \* setAuth("signed_in")
    /\ summary = Summary(0, 0) /\ summaryFailed = FALSE
    /\ followTimer = FALSE /\ followWaits = FALSE /\ tabVisible = TRUE

\* An upload, a delete or an edit of this page: its end calls refreshSummary.
RefreshSummary_dropsCalls ==
    IF summaryFetch = NotFetching
    THEN summaryFetch' = Asked /\ UNCHANGED again
    ELSE UNCHANGED <<summaryFetch, again>>

RefreshSummary ==
    IF summaryFetch = NotFetching
    THEN summaryFetch' = Asked /\ UNCHANGED again
    ELSE again' = TRUE /\ UNCHANGED summaryFetch

PageChanges(documents) ==
    /\ changes < MaxChanges
    /\ changes' = changes + 1 /\ told' = changes + 1
    /\ processing' = documents
    /\ RefreshSummary
    /\ UNCHANGED <<summary, summaryFailed, followTimer, followWaits, tabVisible>>

\* A document settles; nothing tells the page.
ServerSettles ==
    /\ processing > 0 /\ changes < MaxChanges
    /\ changes' = changes + 1
    /\ processing' = processing - 1
    /\ UNCHANGED <<told, summaryFetch, again, summary, summaryFailed, followTimer, followWaits, tabVisible>>

ServerReads ==
    /\ summaryFetch = Asked
    /\ summaryFetch' = Fetch("answered", Summary(changes, processing))
    /\ UNCHANGED <<changes, processing, told, again, summary, summaryFailed,
                   followTimer, followWaits, tabVisible>>

FollowProcessing_once(documents) == followTimer' = (documents > 0 /\ summary.processing = 0)

FollowProcessing(documents) == followTimer' = (documents > 0)

\* inflight = null, and the follow-up starts at once.
FetchEnds ==
    /\ summaryFetch' = IF again THEN Asked ELSE NotFetching
    /\ again' = FALSE

SummaryArrives ==
    /\ summaryFetch.stage = "answered"
    /\ summary' = summaryFetch.answer /\ summaryFailed' = FALSE
    /\ FollowProcessing(summaryFetch.answer.processing)
    /\ FetchEnds
    /\ UNCHANGED <<changes, processing, told, followWaits, tabVisible>>

SummaryFails ==
    /\ summaryFetch # NotFetching
    /\ summaryFailed' = TRUE
    /\ FetchEnds
    /\ UNCHANGED <<changes, processing, told, summary, followTimer, followWaits, tabVisible>>

FollowDue ==
    /\ followTimer
    /\ followTimer' = FALSE
    /\ IF tabVisible THEN RefreshSummary /\ UNCHANGED followWaits
                     ELSE followWaits' = TRUE /\ UNCHANGED <<summaryFetch, again>>
    /\ UNCHANGED <<changes, processing, told, summary, summaryFailed, tabVisible>>

TabTurns ==
    /\ tabVisible' = ~tabVisible
    /\ IF followWaits THEN RefreshSummary ELSE UNCHANGED <<summaryFetch, again>>
    /\ followWaits' = FALSE
    /\ UNCHANGED <<changes, processing, told, summary, summaryFailed, followTimer>>

SummaryNext ==
    \/ \E documents \in {n \in 0..2 : n <= processing + 1 /\ processing <= n + 1} : PageChanges(documents)
    \/ ServerSettles \/ ServerReads \/ SummaryArrives \/ SummaryFails
    \/ FollowDue \/ TabTurns

SummarySpec == SummaryInit /\ [][SummaryNext]_summaryVars
-----------------------------------------------------------------------------
(* Calls may be coalesced, never swallowed: once nothing is being fetched  *)
(* and nothing failed, the page shows a state not older than its own last  *)
(* change (store.ts:131 "concurrent calls coalesce into one follow-up").   *)
OwnChangeShows == summaryFetch = NotFetching /\ ~summaryFailed => summary.change >= told

(* While a document is shown in processing something will look again: a    *)
(* fetch, the timer or the tab's return, unless the last fetch failed      *)
(* (store.ts:164 "refresh the summary until they settle").                 *)
ProcessingIsFollowed ==
    summary.processing > 0 /\ ~summaryFailed => summaryFetch # NotFetching \/ followTimer \/ followWaits
-----------------------------------------------------------------------------
(* The list of files. *)

CONSTANTS
    Rows,        \* files of the library
    MaxLoops     \* bound: timers and status requests at once

ASSUME WebListAssumption == MaxLoops \in Nat \ {0}

\* "absent": not uploaded yet. A row is never uploaded again once it is "gone".
Statuses == {"absent", "pending", "settled", "gone"}

VARIABLES
    stored,        \* at the server: [Rows -> Statuses]
    shown,         \* documents, as the list shows them
    load,          \* the list request: asked, or its answer under way
    loadFailed,    \* error of the last reload
    timers,        \* polls that wait for their time
    polls,         \* status requests under way
    listVisible

listVars == <<stored, shown, load, loadFailed, timers, polls, listVisible>>

ListLoad(stage, answer) == [stage |-> stage, answer |-> answer]
Nothing == [r \in Rows |-> "absent"]
NotLoadingList == ListLoad("none", Nothing)
AskList == load' = ListLoad("asked", Nothing)

Pending(list) == {r \in Rows : list[r] = "pending"}

ListInit ==
    /\ stored \in [Rows -> Statuses]
    /\ shown = Nothing /\ load = ListLoad("asked", Nothing) /\ loadFailed = FALSE
    /\ timers = 0 /\ polls = 0 /\ listVisible = TRUE

ListServerReads ==
    /\ load.stage = "asked"
    /\ load' = ListLoad("answered", stored)
    /\ UNCHANGED <<stored, shown, loadFailed, timers, polls, listVisible>>

\* The mutant restarts the polls only for a list that had none.
Repolls_onlyAtFirst(list) ==
    IF Pending(list) = Pending(shown) \/ Pending(shown) # {}
    THEN UNCHANGED <<timers, polls>>
    ELSE timers' = 1 /\ polls' = 0

(* The effect on pendingKey: other pending files stop every poll of the    *)
(* ones before and start their own.                                        *)
Repolls(list) ==
    IF Pending(list) = Pending(shown)
    THEN UNCHANGED <<timers, polls>>
    ELSE /\ timers' = IF Pending(list) = {} THEN 0 ELSE 1
         /\ polls' = 0

ListArrives ==
    /\ load.stage = "answered"
    /\ shown' = load.answer /\ loadFailed' = FALSE
    /\ Repolls(load.answer)
    /\ load' = NotLoadingList
    /\ UNCHANGED <<stored, listVisible>>

ListFails ==
    /\ load # NotLoadingList
    /\ loadFailed' = TRUE /\ load' = NotLoadingList
    /\ UNCHANGED <<stored, shown, timers, polls, listVisible>>

\* The uploader's onUploaded reloads, ending a reload under way.
UploadsRow(r) ==
    /\ stored[r] = "absent"
    /\ stored' = [stored EXCEPT ![r] = "pending"]
    /\ AskList
    /\ UNCHANGED <<shown, loadFailed, timers, polls, listVisible>>

\* onDeleted takes the row out at once and reloads. Rows in processing have no such button.
DeletesRow(r) ==
    /\ shown[r] = "settled"
    /\ stored' = [stored EXCEPT ![r] = "gone"]
    /\ shown' = [shown EXCEPT ![r] = "gone"]
    /\ AskList
    /\ UNCHANGED <<loadFailed, timers, polls, listVisible>>

\* Processing ends, or another tab deletes a row.
ServerMoves(r) ==
    /\ stored[r] \in {"pending", "settled"}
    /\ \E status \in {"settled", "gone"} \ {stored[r]} : stored' = [stored EXCEPT ![r] = status]
    /\ UNCHANGED <<shown, load, loadFailed, timers, polls, listVisible>>

PollDue ==
    /\ timers > 0
    /\ timers' = timers - 1
    /\ polls' = IF listVisible THEN polls + 1 ELSE polls
    /\ UNCHANGED <<stored, shown, load, loadFailed, listVisible>>

\* Some polled file is no longer pending: the list is read again.
PollFindsSettled ==
    /\ polls > 0
    /\ \E r \in Pending(shown) : stored[r] # "pending"
    /\ polls' = polls - 1
    /\ AskList
    /\ UNCHANGED <<stored, shown, loadFailed, timers, listVisible>>

\* Still pending when the server answered, or the request failed.
PollAgain ==
    /\ polls > 0
    /\ polls' = polls - 1
    /\ timers' = timers + 1
    /\ UNCHANGED <<stored, shown, load, loadFailed, listVisible>>

(* Shown again, the list polls at once; the newest timer is cleared, one   *)
(* that an earlier round left is not.                                      *)
ListTabTurns ==
    /\ listVisible' = ~listVisible
    /\ IF ~listVisible /\ Pending(shown) # {}
       THEN /\ timers' \in {timers} \cup {n \in {timers - 1} : timers > 0}
            /\ timers' + polls < MaxLoops
            /\ polls' = polls + 1
       ELSE UNCHANGED <<timers, polls>>
    /\ UNCHANGED <<stored, shown, load, loadFailed>>

ListNext ==
    \/ ListServerReads \/ ListArrives \/ ListFails
    \/ \E r \in Rows : UploadsRow(r) \/ DeletesRow(r) \/ ServerMoves(r)
    \/ PollDue \/ PollFindsSettled \/ PollAgain \/ ListTabTurns

ListSpec == ListInit /\ [][ListNext]_listVars
-----------------------------------------------------------------------------
(* A file shown in processing is being watched: its status is asked for,   *)
(* a timer will ask, the list is being read again, or the tab is hidden -  *)
(* unless the last reload failed (files-modal.tsx:127 "While a file is     *)
(* still being processed the list polls").                                 *)
PendingIsWatched ==
    Pending(shown) # {} /\ ~loadFailed =>
        timers + polls > 0 \/ load # NotLoadingList \/ ~listVisible
=============================================================================
