------------------------------ MODULE MCClients ------------------------------
(***************************************************************************)
(* The connection of one user to Zotero and the requests that many users'  *)
(* calls send there, the parts of the web page that show and edit the own  *)
(* sources, and single calls of the tools over own documents. They share   *)
(* no state: a behaviour follows one of them, chosen at the start, and the *)
(* variables of the others stay as they are.                               *)
(***************************************************************************)
EXTENDS ZoteroConnection, ZoteroHttp, WebModals, WebRefresh, WebEditor, WebZotero,
        FilesSearch, SearchFusion, ReadWindows, DmdWindows, DmdChunks, TLC

CONSTANTS t1, t2, t3, r1, k1, k2, u1, u2   \* requests, keys and users

VARIABLE clientPart

\* A user who makes more calls at once than there are slots, and another user
\* with another key.
MCKeyOf == [r \in HttpRequest |-> IF r = r1 THEN k2 ELSE k1]
MCUserOf == [r \in HttpRequest |-> IF r = r1 THEN u2 ELSE u1]

\* The requests of ZoteroConnection are alike, and those of ZoteroHttp with the
\* first key, which have the same names.
ClientSymmetry == Permutations(ConnInstances) \cup Permutations(ConnTasks)

textVars == <<dmdVars, winVars, dmdChunks>>
ownVars == <<searchCallVars, fusionVars, readVars>>

ClientParts == {"connection", "http", "modals", "summary", "list", "editor", "status", "search", "fusion", "reading",
                "dmd"}

\* What belongs to a part is there only in the behaviours of that part, except
\* for the variables that a property speaks of in all of them.
Absent == 0

Init ==
    /\ clientPart \in ClientParts
    /\ IF clientPart = "connection" THEN ConnInit
       ELSE /\ clerk = Absent /\ live = Absent /\ issued = Absent /\ connCache = Absent
            /\ inflight = Absent /\ task = Absent /\ ownWrite = Absent /\ lost = Absent
            /\ raced = Absent
    /\ HttpInit
    /\ IF clientPart = "modals" THEN ModalsInit
       ELSE /\ entries = Absent /\ at = Absent /\ going = Absent /\ pushedModal = Absent
            /\ modalHref = Absent /\ closingByBack = Absent /\ waitingFiles = Absent
            /\ converting = Absent /\ dropped = Absent /\ agreed = Absent /\ lostFiles = Absent
    /\ IF clientPart = "summary" THEN SummaryInit
       ELSE /\ changes = Absent /\ processing = Absent /\ told = Absent /\ summaryFetch = Absent
            /\ again = Absent /\ summary = Absent /\ summaryFailed = Absent /\ followTimer = Absent
            /\ followWaits = Absent /\ tabVisible = Absent
    /\ IF clientPart = "list" THEN ListInit
       ELSE /\ stored = Absent /\ shown = Absent /\ load = Absent /\ loadFailed = Absent
            /\ timers = Absent /\ polls = Absent /\ listVisible = Absent
    /\ IF clientPart = "editor" THEN EditorInit
       ELSE /\ editor = Absent /\ meta = Proposal /\ pressed = {0} /\ overtaken = Absent /\ blind = FALSE
    /\ IF clientPart = "status" THEN WebZoteroInit
       ELSE /\ zotero = Absent /\ panel = Absent /\ request = Absent /\ disconnecting = Absent
            /\ gone = Absent /\ asks = Absent
    /\ IF clientPart = "search" THEN SearchCallInit
       ELSE /\ lookedFor = Absent /\ given = Absent /\ document = Absent /\ verdict = Absent
            /\ found = Absent /\ answer = Absent /\ readySeen = Absent /\ walk = Absent
    /\ IF clientPart = "fusion" THEN FusionInit
       ELSE /\ fused = Absent /\ fusedAnswers = Absent /\ fusedEntries = Absent
    /\ IF clientPart = "reading" THEN ReadInit
       ELSE /\ readDoc = Absent /\ readGoal = Absent /\ readAnswers = Absent
    /\ IF clientPart = "dmd" THEN DmdInit(Foci \cup {"windows", "chunks"}) /\ WinInit
       ELSE /\ dmdFocus = "none" /\ dmdLines = <<>> /\ dmdParser = Absent /\ dmdParsed = Absent
            /\ winMode = Absent /\ winStart = Absent /\ winFrom = Absent /\ winShown = Absent
            /\ winAgain = Absent /\ winOmitted = Absent /\ winDropped = Absent /\ winUnread = Absent
    /\ ChunksInit

Next ==
    /\ UNCHANGED clientPart
    /\ \/ /\ clientPart = "http" /\ HttpNext
          /\ UNCHANGED <<connVars, modalVars, summaryVars, listVars, editorVars, webZoteroVars, ownVars, textVars>>
       \/ /\ clientPart = "connection" /\ ConnNext
          /\ UNCHANGED <<httpVars, modalVars, summaryVars, listVars, editorVars, webZoteroVars, ownVars, textVars>>
       \/ /\ clientPart = "modals" /\ ModalsNext
          /\ UNCHANGED <<connVars, httpVars, summaryVars, listVars, editorVars, webZoteroVars, ownVars, textVars>>
       \/ /\ clientPart = "summary" /\ SummaryNext
          /\ UNCHANGED <<connVars, httpVars, modalVars, listVars, editorVars, webZoteroVars, ownVars, textVars>>
       \/ /\ clientPart = "list" /\ ListNext
          /\ UNCHANGED <<connVars, httpVars, modalVars, summaryVars, editorVars, webZoteroVars, ownVars, textVars>>
       \/ /\ clientPart = "editor" /\ EditorNext
          /\ UNCHANGED <<connVars, httpVars, modalVars, summaryVars, listVars, webZoteroVars, ownVars, textVars>>
       \/ /\ clientPart = "status" /\ WebZoteroNext
          /\ UNCHANGED <<connVars, httpVars, modalVars, summaryVars, listVars, editorVars, ownVars, textVars>>
       \/ /\ clientPart = "search" /\ SearchCallNext
          /\ UNCHANGED <<connVars, httpVars, modalVars, summaryVars, listVars, editorVars, webZoteroVars, fusionVars, readVars, textVars>>
       \/ /\ clientPart = "fusion" /\ FusionNext
          /\ UNCHANGED <<connVars, httpVars, modalVars, summaryVars, listVars, editorVars, webZoteroVars, searchCallVars, readVars, textVars>>
       \/ /\ clientPart = "reading" /\ ReadNext
          /\ UNCHANGED <<connVars, httpVars, modalVars, summaryVars, listVars, editorVars, webZoteroVars, searchCallVars, fusionVars, textVars>>
       \/ /\ clientPart = "dmd"
          /\ \/ dmdFocus \in Foci /\ DmdNext /\ UNCHANGED <<winVars, dmdChunks>>
             \/ dmdFocus = "windows" /\ WinNext /\ UNCHANGED dmdChunks
             \/ dmdFocus = "chunks" /\ ChunksNext /\ UNCHANGED winVars
          /\ UNCHANGED <<connVars, httpVars, modalVars, summaryVars, listVars, editorVars, webZoteroVars, ownVars>>

vars == <<clientPart, connVars, httpVars, modalVars, summaryVars, listVars, editorVars, webZoteroVars,
          ownVars, textVars>>

Spec == Init /\ [][Next]_vars
-----------------------------------------------------------------------------
(* What the page shows of the server is the server's, or something is      *)
(* still under way that will look again, or the user was told that looking *)
(* failed; and a connection the user has removed is never shown again.     *)
PageIsCurrent ==
    /\ clientPart = "summary" => OwnChangeShows /\ ProcessingIsFollowed
    /\ clientPart = "list" => PendingIsWatched
    /\ clientPart = "status" => GoneIsNotShown

(* However the modals are opened, closed and moved through, a file waiting *)
(* in the uploader is lost only after the user agreed, and Back never      *)
(* reopens a closed modal.                                                 *)
ModalsKeepWork == clientPart = "modals" => NothingLostUnasked /\ BackNeverReopens

(* What the tools over the own documents say is what they know: counts are *)
(* never more than there is and a list without a mark is whole, the guards *)
(* speak before any result, and paging skips no hit.                       *)
AnswersFollowTheRecord ==
    /\ clientPart = "fusion" => CountsAreHonest
    /\ clientPart = "search" => VerdictComesFirst /\ PagesTileTheHits

(* Following the answers of files_get_document reads all that was asked    *)
(* for, and the calls that hits offer show them; the windows of a document *)
(* show its text once, and a footnote is shown by one of them, or the one  *)
(* that cites it says that it is left out.                                 *)
ReadingIsWhole ==
    /\ clientPart = "reading" => ReadingShowsAll
    /\ clientPart = "dmd" => WindowsShowOnce

(* A request that begins to load after a write of its own instance has     *)
(* ended is not given an older record, whatever the instance remembers or  *)
(* is reading; and where every answer arrived and no request overwrote a   *)
(* record other than the one it had loaded (ReplacedIsRevoked tells what   *)
(* else may happen), a reconnect, a failed one and a disconnect leave no   *)
(* key at Zotero but the stored one.                                       *)
ConnectionIsTheUsers == clientPart = "connection" => ReadsOwnWrites /\ NothingLeftBehind
=============================================================================
