-------------------------------- MODULE MCCron --------------------------------
(***************************************************************************)
(* The two queues that the daily cron empties in the end: the uploads that *)
(* wait to be ingested (FilesStore), with one document and the real number *)
(* of attempts, and the requests to derive an index again (Reindex).  They *)
(* share no state here: a behaviour follows one of them, chosen at the     *)
(* start, and the variables of the other stay as they are.                 *)
(***************************************************************************)
EXTENDS MCFilesStore, Reindex

VARIABLE queue       \* which of the two the behaviour follows

cronVars == <<queue, vars, reindexVars>>

CronInit ==
    /\ queue \in {"uploads", "requests"}
    /\ Init
    /\ ReindexInit
    /\ queue = "uploads" =>
        faults = {} /\ \A d \in Indexed : doc_type[d][0] = CHOOSE t \in DocType : TRUE

OfUploads(A) == queue = "uploads" /\ A /\ UNCHANGED <<queue, reindexVars>>
OfRequests(A) == queue = "requests" /\ A /\ UNCHANGED <<queue, vars>>

CronNext == OfUploads(Next) \/ OfRequests(ReindexNext)

(* The fairness of FilesStore!FairSpec and of FairReindexSpec: each        *)
(* condition speaks of an action of one and of one of the other, of which  *)
(* a behaviour has only one; the calls of ingestDocument are as many as    *)
(* the workers of the re-derivation, and one library has one document.     *)
CronFairness ==
    /\ \A d \in Document \cap Indexed :
        /\ WF_cronVars(OfUploads(LeaseExpires(d)) \/ OfRequests(RequestAges(d)))
        /\ SF_cronVars(OfUploads(\E w \in Run : ClaimForIngest(w, d)) \/ OfRequests(CronTakes(d)))
    /\ \A w \in Run \cap Worker :
        /\ WF_cronVars(OfUploads(RunStep(w)))
        /\ SF_cronVars(OfUploads(\E d \in Document : WriteFailure(w, d)) \/ OfRequests(Progress(w)))
    /\ WF_cronVars(OfRequests(~cpuLeft /\ CpuChanges))

FairCronSpec == CronInit /\ [][CronNext]_cronVars /\ CronFairness
=============================================================================
