------------------------------ MODULE WebModals ------------------------------
(***************************************************************************)
(* The modals of the web page (app/_zdroje/store.ts, modals.tsx) and the   *)
(* uploader inside the modal of files (upload.tsx): which modal shows is   *)
(* read from the URL, so closing one moves through the browser's history,  *)
(* and the files that wait or are being converted live only in the         *)
(* uploader's memory while that modal shows.                               *)
(*                                                                         *)
(* A URL is its page, the modal it shows and whether a row of the list is  *)
(* open. A move through the history is asynchronous: the page asks for it, *)
(* the browser makes it later and then fires popstate.                     *)
(***************************************************************************)
EXTENDS Naturals, Integers, Sequences, FiniteSets

CONSTANTS
    Uploadables,   \* files the user drops
    NoUploadable,
    NoHref,        \* modalHref is null
    MaxEntries     \* bound: entries of the session history

Urls == [page : {"here", "there"}, shows : {"nothing", "files", "zotero"}, row : BOOLEAN]

ASSUME WebModalsAssumption ==
    MaxEntries \in Nat \ {0} /\ NoUploadable \notin Uploadables /\ NoHref \notin Urls

VARIABLES
    entries, at,      \* the session history and the entry shown
    going,            \* moves asked for and not yet made: -1 back, 1 forward
    pushedModal, modalHref, closingByBack,
    waitingFiles,     \* Uploader's queue
    converting,       \* Uploader's current
    dropped,          \* files dropped so far
    agreed,           \* files the user agreed to lose
    lostFiles              \* files that went with their uploader on the same page

modalVars == <<entries, at, going, pushedModal, modalHref, closingByBack,
               waitingFiles, converting, dropped, agreed, lostFiles>>

Url(page, shows, row) == [page |-> page, shows |-> shows, row |-> row]
Shown == entries[at]
HrefOf(url) == IF url.shows = "files" THEN url ELSE NoHref

InUploader == {waitingFiles[i] : i \in DOMAIN waitingFiles} \cup ({converting} \ {NoUploadable})
HasWork == InUploader # {}

ModalsTypeOK ==
    /\ \A i \in DOMAIN entries : entries[i] \in Urls
    /\ at \in DOMAIN entries /\ Len(entries) <= MaxEntries
    /\ pushedModal \in BOOLEAN /\ closingByBack \in BOOLEAN
    /\ InUploader \subseteq dropped

(* The page is loaded at a plain URL or at a link that opens a modal,      *)
(* perhaps after another page of the site.                                 *)
ModalsInit ==
    /\ \E shows \in {"nothing", "files", "zotero"} :
         /\ entries \in {<<Url("here", shows, FALSE)>>,
                         <<Url("there", "nothing", FALSE), Url("here", shows, FALSE)>>}
         /\ modalHref = HrefOf(Url("here", shows, FALSE))
    /\ at = Len(entries) /\ going = <<>>
    /\ pushedModal = FALSE /\ closingByBack = FALSE
    /\ waitingFiles = <<>> /\ converting = NoUploadable
    /\ dropped = {} /\ agreed = {} /\ lostFiles = {}

(* The modal of files is mounted only at its own URL: anywhere else its    *)
(* uploader is gone, with what it held. Another page is announced by its   *)
(* own content and not guarded.                                            *)
Renders(url) ==
    IF url.shows = "files"
    THEN UNCHANGED <<waitingFiles, converting, lostFiles>>
    ELSE /\ waitingFiles' = <<>> /\ converting' = NoUploadable
         /\ lostFiles' = IF url.page = Shown.page THEN lostFiles \cup InUploader ELSE lostFiles

ReplaceEntry(url) == entries' = [entries EXCEPT ![at] = url] /\ at' = at

PushEntry(url) ==
    /\ at < MaxEntries
    /\ entries' = Append(SubSeq(entries, 1, at), url)
    /\ at' = at + 1

(* pushParams: the URL changes and with it the place of the modal.         *)
PushParams(url, replace) ==
    /\ IF replace THEN ReplaceEntry(url) ELSE PushEntry(url)
    /\ modalHref' = HrefOf(url)
    /\ Renders(url)

\* mayDiscardWork, with the user's answer to the question it asks.
MayDiscardWork(yes) ==
    /\ HasWork => yes
    /\ agreed' = agreed \cup InUploader

OpenFiles(row) ==
    /\ Shown.shows # "files"
    /\ PushParams(Url(Shown.page, "files", row), Shown.shows = "zotero")
    /\ pushedModal' = (pushedModal \/ Shown.shows # "zotero")
    /\ UNCHANGED <<going, closingByBack, dropped, agreed>>

ShowFile(row) ==
    /\ Shown.shows = "files" /\ Shown.row # row
    /\ PushParams(Url(Shown.page, "files", row), TRUE)
    /\ UNCHANGED <<going, pushedModal, closingByBack, dropped, agreed>>

CloseModal_pushesPlain ==
    /\ PushParams(Url(Shown.page, "nothing", FALSE), FALSE)
    /\ UNCHANGED <<going, pushedModal, closingByBack>>

(* An entry this page pushed is popped, any other is rewritten in place.   *)
CloseModal ==
    IF pushedModal
    THEN /\ pushedModal' = FALSE /\ closingByBack' = TRUE
         /\ Len(going) < 2 /\ going' = Append(going, -1)
         /\ UNCHANGED <<entries, at, modalHref, waitingFiles, converting, lostFiles>>
    ELSE /\ PushParams(Url(Shown.page, "nothing", FALSE), TRUE)
         /\ UNCHANGED <<going, pushedModal, closingByBack>>

CloseFiles(yes) ==
    /\ Shown.shows = "files"
    /\ MayDiscardWork(yes)
    /\ CloseModal
    /\ UNCHANGED dropped

CloseZotero ==
    /\ Shown.shows = "zotero"
    /\ CloseModal
    /\ UNCHANGED <<dropped, agreed>>

OpenZotero(yes) ==
    /\ Shown.shows # "zotero"
    /\ IF Shown.shows = "files" THEN MayDiscardWork(yes) ELSE UNCHANGED agreed
    /\ PushParams(Url(Shown.page, "zotero", FALSE), Shown.shows = "files")
    /\ pushedModal' = (pushedModal \/ Shown.shows # "files")
    /\ UNCHANGED <<going, closingByBack, dropped>>

\* The user's Back or Forward.
UserMoves(delta) ==
    /\ at + delta \in DOMAIN entries /\ Len(going) < 2
    /\ going' = Append(going, delta)
    /\ UNCHANGED <<entries, at, pushedModal, modalHref, closingByBack,
                   waitingFiles, converting, dropped, agreed, lostFiles>>

Asks_onlyWhenPushed(to) ==
    /\ pushedModal /\ ~closingByBack /\ to.shows # "files" /\ modalHref # NoHref
    /\ modalHref.page = to.page
    /\ HasWork

(* onPopState asks before the modal of this page disappears with work in   *)
(* it, unless the user has just agreed.                                    *)
Asks(to) ==
    /\ ~closingByBack /\ to.shows # "files" /\ modalHref # NoHref
    /\ modalHref.page = to.page
    /\ HasWork

(* The browser makes the move and fires popstate; a refusal pushes the     *)
(* modal's URL again over the entry arrived at.                            *)
PopState(yes) ==
    /\ going # <<>>
    /\ going' = Tail(going)
    /\ closingByBack' = FALSE
    /\ UNCHANGED dropped
    /\ LET arrived == at + Head(going)
           to == entries[arrived]
       IN  IF arrived \notin DOMAIN entries
           THEN UNCHANGED <<entries, at, pushedModal, modalHref, waitingFiles, converting, agreed, lostFiles>>
           ELSE IF Asks(to) /\ ~yes
           THEN /\ arrived < MaxEntries
                /\ entries' = Append(SubSeq(entries, 1, arrived), modalHref)
                /\ at' = arrived + 1
                /\ pushedModal' = TRUE
                /\ UNCHANGED <<modalHref, waitingFiles, converting, agreed, lostFiles>>
           ELSE /\ at' = arrived
                /\ pushedModal' = FALSE
                /\ modalHref' = HrefOf(to)
                /\ agreed' = IF Asks(to) THEN agreed \cup InUploader ELSE agreed
                /\ Renders(to)
                /\ UNCHANGED entries

\* Nobody drops a file in the instant between closing and the browser's move.
DropFile(f) ==
    /\ Shown.shows = "files" /\ going = <<>> /\ f \notin dropped
    /\ dropped' = dropped \cup {f}
    /\ waitingFiles' = Append(waitingFiles, f)
    /\ UNCHANGED <<entries, at, going, pushedModal, modalHref, closingByBack, converting, agreed, lostFiles>>

TakesNext ==
    /\ converting = NoUploadable /\ waitingFiles # <<>>
    /\ converting' = Head(waitingFiles)
    /\ waitingFiles' = Tail(waitingFiles)
    /\ UNCHANGED <<entries, at, going, pushedModal, modalHref, closingByBack, dropped, agreed, lostFiles>>

\* processFile stored the text or threw the reason that the log shows.
FileEnds ==
    /\ converting # NoUploadable
    /\ converting' = NoUploadable
    /\ UNCHANGED <<entries, at, going, pushedModal, modalHref, closingByBack,
                   waitingFiles, dropped, agreed, lostFiles>>

ModalsNext ==
    \/ \E row \in BOOLEAN : OpenFiles(row) \/ ShowFile(row)
    \/ \E yes \in BOOLEAN : CloseFiles(yes) \/ OpenZotero(yes) \/ PopState(yes)
    \/ CloseZotero
    \/ \E delta \in {-1, 1} : UserMoves(delta)
    \/ \E f \in Uploadables : DropFile(f)
    \/ TakesNext
    \/ FileEnds

ModalsSpec == ModalsInit /\ [][ModalsNext]_modalVars
-----------------------------------------------------------------------------
(* However the modal of files goes away on its page - its button, the      *)
(* other modal, Back, Forward, several of them at once - a file in the     *)
(* uploader is lost only after the user agreed (store.ts: "the question    *)
(* every other exit asks").                                                *)
NothingLostUnasked == lostFiles \subseteq agreed

(* A modal that was closed does not come back with the Back button: no     *)
(* entry below one without a modal shows one (store.ts: "closed with       *)
(* history.back(), so Back never reopens it").                             *)
BackNeverReopens ==
    Shown.shows = "nothing" => \A i \in 1..at : entries[i].shows = "nothing"
=============================================================================
