------------------------------ MODULE MCServices ------------------------------
(***************************************************************************)
(* Small parts that share no state with each other, checked in one run: a  *)
(* behaviour follows one of them, chosen at the start, and the variables   *)
(* of the others stay as they are.                                         *)
(***************************************************************************)
EXTENDS FilesGuards, FilesTakedown, ZoteroSearch, ZoteroReads, ZoteroText, ZoteroSave,
        SourceCache, NssHandshake, NsGate, CaselawFanOut, PublicPaging,
        EsbirkaSection, EsbirkaActs, CourtSessions, EuDocuments, TLC

CONSTANTS
    p1, p2, p3, p4,   \* calls, whatever the part
    NoDate

VARIABLES
    part,
    paged,            \* the search that "paging" is about
    owner, accessPro, event, docs, purge_after, pro_revoked_at, purged_at,
    half, day, cron, everLost, sinceUpload, sinceLoss

ASSUME ServicesAssumption == NoDate \notin Int

Months == INSTANCE LibraryLifecycle WITH
    Libraries <- 1, RevokedDays <- 3, GraceDays <- 3, PurgePerRun <- 5, ChecksPerRun <- 50,
    CronIsReliable <- TRUE, HistoryBound <- 12, DayBound <- 1, Null <- NoDate

MCLanes == <<"nss", "ns", "sdeu">>

ServicesSymmetry == Permutations({p1, p2, p3})

Parts == {"guards", "takedown", "search", "reads", "text", "save",
          "cache", "handshake", "gate", "fanout", "paging", "section", "acts", "courts", "eu", "months"}

\* What belongs to a part is there only in the behaviours of that part, except
\* for the variables that a property speaks of in all of them.
Absent == 0

Init ==
    /\ part \in Parts
    /\ IF part = "guards" THEN GuardsInit
       ELSE /\ question = Absent /\ tick = Absent /\ setting = Absent /\ modeCache = Absent /\ measuring = Absent
            /\ accessCache = Absent /\ decided = Absent /\ inForce = Absent /\ proDuring = Absent
            /\ settings = Absent
    /\ IF part = "takedown" THEN TakedownInit
       ELSE /\ uploads = Absent /\ held = Absent /\ counted = Absent /\ blocked = Absent /\ takedown = Absent
            /\ takedowns = Absent /\ spared = Absent
    /\ IF part = "search" THEN SearchInit
       ELSE /\ world = Absent /\ listed = Absent /\ scanned = Absent /\ stage = Absent /\ titles = Absent
            /\ lists = Absent /\ answer = Absent
    /\ IF part = "reads" THEN ReadsInit
       ELSE /\ library = Absent /\ size = Absent /\ kind = Absent /\ kept = Absent /\ entry = Absent
            /\ load = Absent /\ reader = Absent
    /\ IF part = "text" THEN TextInit
       ELSE /\ pdf = Absent /\ index = Absent /\ pdfTexts = Absent /\ pdfMeta = Absent /\ pdfFailed = Absent
            /\ call = Absent /\ refusals = Absent
    /\ IF part = "save" THEN SaveInit
       ELSE /\ account = Absent /\ saveStage = Absent /\ early = Absent /\ attempt = Absent /\ sent = <<>>
            /\ applied = {} /\ items = 0 /\ said = "nothing"
    /\ IF part = "cache" THEN CacheInit
       ELSE /\ generation = Absent /\ store = Absent /\ pending = Absent /\ loads = Absent /\ callers = Absent
            /\ foundDead = Absent
    /\ IF part = "handshake" THEN NssInit
       ELSE /\ opened = Absent /\ forgotten = Absent /\ cachedSession = Absent /\ fresh = Absent
            /\ pendingSession = Absent /\ searches = Absent /\ losses = Absent /\ gets = Absent
    /\ IF part = "gate" THEN GateInit
       ELSE /\ nsInFlight = Absent /\ nsWaiting = Absent /\ requests = Absent /\ late = Absent
    /\ IF part = "fanout" THEN FanInit
       ELSE /\ fanCall = [readTop |-> 1, late |-> 0] /\ fanClock = 0 /\ lanes = Absent /\ fetches = Absent
            /\ fanAnswer = NoFanAnswer
    /\ IF part = "section" THEN SectionInit
       ELSE /\ act = Absent /\ target = Absent /\ scan = Absent /\ sparql = Absent /\ sparqlBlocked = Absent
            /\ served = Absent /\ article = Absent
    /\ IF part = "acts" THEN ActsInit
       ELSE /\ fetching = Absent /\ keyedDown = Absent /\ up = Absent /\ changes = Absent /\ blamed = Absent
            /\ actReader = Absent
    /\ IF part = "courts" THEN CourtInit
       ELSE /\ rows = Absent /\ sessions = Absent /\ keptSession = Absent /\ calls = Absent /\ decision = Absent
            /\ mishaps = Absent
    /\ IF part = "eu" THEN EuInit
       ELSE /\ euDoc = Absent /\ euTexts = Absent /\ euMisses = Absent /\ euCall = Absent /\ euFirst = Absent
    /\ IF part = "paging" THEN paged \in PagingSamples ELSE paged = Absent
    /\ Months!LifecycleInit

monthsVars == <<owner, accessPro, event, docs, purge_after, pro_revoked_at, purged_at,
                half, day, cron, everLost, sinceUpload, sinceLoss>>
filesVars == <<guardsVars, takedownVars>>
zoteroVars == <<searchVars, readsVars, textVars, saveVars>>
esbirkaVars == <<sectionVars, actsVars>>
courtsVars == <<courtVars, euVars>>
sourceVars == <<cacheVars, nssVars, gateVars, fanVars, esbirkaVars, courtsVars>>

Next ==
    /\ UNCHANGED <<part, paged>>
    /\ \/ /\ part = "guards" /\ GuardsNext
          /\ UNCHANGED <<takedownVars, zoteroVars, sourceVars, monthsVars>>
       \/ /\ part = "takedown" /\ TakedownNext
          /\ UNCHANGED <<guardsVars, zoteroVars, sourceVars, monthsVars>>
       \/ /\ part = "search" /\ SearchNext
          /\ UNCHANGED <<filesVars, readsVars, textVars, saveVars, sourceVars, monthsVars>>
       \/ /\ part = "reads" /\ ReadsNext
          /\ UNCHANGED <<filesVars, searchVars, textVars, saveVars, sourceVars, monthsVars>>
       \/ /\ part = "text" /\ TextNext
          /\ UNCHANGED <<filesVars, searchVars, readsVars, saveVars, sourceVars, monthsVars>>
       \/ /\ part = "save" /\ SaveNext
          /\ UNCHANGED <<filesVars, searchVars, readsVars, textVars, sourceVars, monthsVars>>
       \/ /\ part = "cache" /\ CacheNext
          /\ UNCHANGED <<filesVars, zoteroVars, nssVars, gateVars, fanVars, esbirkaVars, courtsVars, monthsVars>>
       \/ /\ part = "handshake" /\ NssNext
          /\ UNCHANGED <<filesVars, zoteroVars, cacheVars, gateVars, fanVars, esbirkaVars, courtsVars, monthsVars>>
       \/ /\ part = "gate" /\ GateNext
          /\ UNCHANGED <<filesVars, zoteroVars, cacheVars, nssVars, fanVars, esbirkaVars, courtsVars, monthsVars>>
       \/ /\ part = "fanout" /\ FanNext
          /\ UNCHANGED <<filesVars, zoteroVars, cacheVars, nssVars, gateVars, esbirkaVars, courtsVars, monthsVars>>
       \/ /\ part = "section" /\ SectionNext
          /\ UNCHANGED <<filesVars, zoteroVars, cacheVars, nssVars, gateVars, fanVars, actsVars, courtsVars, monthsVars>>
       \/ /\ part = "acts" /\ ActsNext
          /\ UNCHANGED <<filesVars, zoteroVars, cacheVars, nssVars, gateVars, fanVars, sectionVars, courtsVars, monthsVars>>
       \/ /\ part = "courts" /\ CourtNext
          /\ UNCHANGED <<filesVars, zoteroVars, cacheVars, nssVars, gateVars, fanVars, esbirkaVars, euVars, monthsVars>>
       \/ /\ part = "eu" /\ EuNext
          /\ UNCHANGED <<filesVars, zoteroVars, cacheVars, nssVars, gateVars, fanVars, esbirkaVars, courtVars, monthsVars>>
       \/ /\ part = "months" /\ Months!LifecycleNext
          /\ UNCHANGED <<filesVars, zoteroVars, sourceVars>>

vars == <<part, paged, filesVars, zoteroVars, sourceVars, monthsVars>>

Spec == Init /\ [][Next]_vars

-----------------------------------------------------------------------------
(* A scan of Zotero gives each library the pages it would get in turn, and *)
(* "nothing found" without a warning is said only where every list was     *)
(* empty, every library was searched or named as left out, and no scan     *)
(* failed: how far a scan got is in the answer, not in this property.  A   *)
(* text of the EU is said not to exist only where no place failed and each *)
(* said so or gave a stub; InfoCuria's English, the last place, may be     *)
(* left unasked where the call is out of time (curia.ts:694-699).          *)
SearchIsHonest ==
    /\ part = "search" => ScanIsSequential /\ NothingFoundIsProven
    /\ part = "eu" => EuAnswersAreHonest

(* Calls that share a load get what is current when they join it, and no   *)
(* load goes on, or is joined, that nobody waits for.                      *)
SharedReadsAreSound == part = "reads" => AnswersAreCurrent /\ LoadsAreWatched

(* What the operator decides takes effect: a mode within its time on every *)
(* instance; and the only copies of a text a call took down that are left, *)
(* or made later, are of uploads that were under way while the call        *)
(* blocked and listed (it is not complete: TakedownIsComplete).            *)
OperatorIsObeyed ==
    /\ part = "guards" => DecisionsAreTimely
    /\ part = "takedown" => GoneForGood

(* A window of a PDF holds the page it was asked for, and asking once more *)
(* gets there after as many refusals as there are chunks in between.       *)
PdfTextIsReached == part = "text" => WindowHoldsThePage /\ OnceMoreGetsThere

(* Searches share what they can of a slow source and no more: a value     *)
(* found dead or incomplete is not kept, one expiry of the NSS session     *)
(* costs one handshake, a NALUS session shared by searches shows each the  *)
(* page it asked for, the slots of NS never leak; and a 404, a rejection   *)
(* or a search that breaks the service does not close e-Sbirka's channel   *)
(* for the others (a GET that times out, breaks it or is too large does,   *)
(* esbirka.ts:202-206), nor is a document called missing that is there.    *)
SourcesAreShared ==
    /\ part = "cache" => DeadStaysOut
    /\ part = "handshake" => ExpiryCostsOneHandshake
    /\ part = "gate" => SlotsNeverLeak
    /\ part = "acts" => OneRequestsFateIsItsOwn
    /\ part = "courts" => ThePageAskedFor /\ CutIsNotKept

(* Page after page, the tools of the public sources show every hit once,   *)
(* but for the search of InfoCuria with several variants and a filter,     *)
(* whose pages filter before they merge (curia.ts:574); an act is read     *)
(* whole, and a § or an article of it, if found, without loss; a § of an   *)
(* act out of order may be called not found (SectionIsWhole says when).    *)
(* The next page of a text of the EU is shown without asking for it again. *)
PagingIsWhole ==
    /\ part = "paging" => PagesAreWhole(paged)
    /\ part = "acts" => ActIsWhole /\ RowsAreTheWindow
    /\ part = "section" => SectionIsWhole /\ ArticleIsWhole
    /\ part = "courts" => NssEndIsTheEnd
    /\ part = "eu" => PagingAsksNothingAgain

\* LibraryLifecycle's property, over months of days of grace: two days after the
\* longer period.  The week that is promised is PurgedWithinAWeek, which fails.
PurgedInTime == Months!PurgedInTime

=============================================================================
