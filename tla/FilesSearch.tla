----------------------------- MODULE FilesSearch -----------------------------
(***************************************************************************)
(* files_search (src/mcp/tools/files.ts): one call, whose queries run next *)
(* to the look-up of the document and to a measurement of the guards that  *)
(* the gate started; and the pages of its hits, each call taking the one   *)
(* that the answer before it names.  The two never meet: a behaviour       *)
(* follows one of them.  What the queries find is SearchFusion's.          *)
(***************************************************************************)
EXTENDS Naturals, FiniteSets, Sequences, Functions

CONSTANTS
    QueryVariants,   \* the variants of the query
    MaxHits,         \* bound: entries of the list the pages are taken from
    MaxLimit,        \* bound: `limit`
    HitsBudget       \* SEARCH_HITS_CHARS; a hit takes 1 or 2

ASSUME FilesSearchAssumption == {MaxHits, MaxLimit, HitsBudget} \subseteq Nat \ {0}

VARIABLES
    lookedFor,   \* "call" or "pages"
    given,       \* the call: its caller, the cached mode and the true one, its document, its variants
    document,    \* the document of a doc search now: in review, ready, gone
    verdict,     \* the mode check the gate left: none, running, passed, guardOff
    found,       \* the look-up and the variants: running, or what they came to
    answer,      \* "none" while the call runs
    readySeen,   \* history: the document has been ready since the call began
    walk         \* the pages: entries, the page asked for, what was shown

searchCallVars == <<lookedFor, given, document, verdict, found, answer, readySeen, walk>>

SearchCallers == {"unknown", "no Pro", "unverified", "over the limit", "Pro"}
Lookups == QueryVariants \cup {"document"}
NotAskedFor == [k \in Lookups |-> "idle"]

\* sizes: what each entry takes when rendered; inNotes: entries whose only
\* match lies in a footnote, left out of the page when in_footnotes is false.
Walk(sizes, inNotes, limit) ==
    [sizes |-> sizes, inNotes |-> inNotes, limit |-> limit, page |-> 1, seen |-> {}, again |-> FALSE, over |-> FALSE]
Walks == {Walk(s, n, l) : s \in UNION {[1 .. k -> 1 .. 2] : k \in 0 .. MaxHits}, n \in SUBSET (1 .. MaxHits), l \in 1 .. MaxLimit}
NoWalk == Walk(<<>>, {}, 1)

Calls == [caller : SearchCallers, cached : {"unknown", "open", "off"}, mode : {"open", "off"},
          docMode : BOOLEAN, searchable : SUBSET QueryVariants]
IsCall(c) == c.cached \in {"unknown", c.mode}
PlainCall == [caller |-> "Pro", cached |-> "open", mode |-> "open", docMode |-> FALSE, searchable |-> QueryVariants]

SearchCallInit ==
    /\ \/ lookedFor = "call" /\ given \in {c \in Calls : IsCall(c)} /\ walk = NoWalk
       \/ lookedFor = "pages" /\ given = PlainCall
          /\ walk \in {w \in Walks : w.inNotes \subseteq DOMAIN w.sizes}
    /\ document \in (IF given.docMode THEN {"review", "ready", "gone"} ELSE {"ready"})
    /\ verdict = "none" /\ found = NotAskedFor /\ answer = "none" /\ readySeen = (document = "ready")

-----------------------------------------------------------------------------
(* One call.                                                               *)

\* gate, and the refusals of filesSearch before any query.
Gate ==
    /\ lookedFor = "call" /\ answer = "none" /\ verdict = "none" /\ found = NotAskedFor
    /\ answer' = CASE given.caller # "Pro"    -> "refused"
                   [] given.caller = "Pro" /\ given.cached = "off" -> "guardOff"
                   [] given.caller = "Pro" /\ given.cached # "off" ->
                        IF given.searchable = {} THEN "nothing searchable" ELSE "none"
    /\ IF answer' = "none"
       THEN /\ verdict' = IF given.cached = "unknown" THEN "running" ELSE "passed"
            /\ found' = [k \in Lookups |-> IF k \in given.searchable \/ (k = "document" /\ given.docMode)
                                           THEN "running" ELSE "idle"]
       ELSE UNCHANGED <<verdict, found>>
    /\ UNCHANGED <<lookedFor, given, document, readySeen, walk>>

\* The measurement the gate started; one that fails leaves the environment's mode, which was open.
Measured ==
    /\ verdict = "running"
    /\ verdict' \in {IF given.mode = "off" THEN "guardOff" ELSE "passed", "passed but failed"}
    /\ UNCHANGED <<lookedFor, given, document, found, answer, readySeen, walk>>

DocumentLookedUp ==
    /\ found["document"] = "running"
    /\ found' \in {[found EXCEPT !["document"] = r] : r \in {document, "failed"}}
    /\ UNCHANGED <<lookedFor, given, document, verdict, answer, readySeen, walk>>

\* searchVariant: the channels return passages of ready documents only.
VariantSearched(v) ==
    /\ found[v] = "running"
    /\ found' \in {[found EXCEPT ![v] = r] : r \in {"nothing", "failed"} \cup {h \in {"hits"} : document = "ready"}}
    /\ UNCHANGED <<lookedFor, given, document, verdict, answer, readySeen, walk>>

\* The user confirms the document, or deletes it.
UserMovesDocument(next) ==
    /\ lookedFor = "call" /\ given.docMode /\ answer = "none"
    /\ document # "gone" /\ next # document
    /\ document' = next
    /\ readySeen' = (readySeen \/ next = "ready")
    /\ UNCHANGED <<lookedFor, given, verdict, found, answer, walk>>

Settled == \A k \in Lookups : found[k] # "running"
VariantsThat(r) == {v \in given.searchable : found[v] = r}

Blocks_lookupFirst ==
    /\ verdict = "guardOff" /\ Settled
    /\ ~given.docMode \/ found["document"] = "ready"

Blocks == verdict = "guardOff"

(* The verdict of the guards comes first; then the document's look-up,     *)
(* then the variants, all of which failing fails the call; without hits    *)
(* the answer says so and names the variants that failed or had nothing to *)
(* search.  With hits the passages are read in another transaction.        *)
Decide ==
    /\ lookedFor = "call" /\ answer = "none" /\ found # NotAskedFor /\ verdict # "running"
    /\ Blocks \/ Settled
    /\ LET doc == found["document"]
       IN answer' \in
            IF Blocks THEN {"guardOff"}
            ELSE IF given.docMode /\ doc # "ready" THEN {IF doc = "failed" THEN "failed" ELSE "not for reading"}
            ELSE IF VariantsThat("failed") = given.searchable THEN {"failed"}
            ELSE IF VariantsThat("hits") = {}
            THEN {IF VariantsThat("nothing") = QueryVariants THEN "no match" ELSE "no match of some"}
            ELSE {IF document = "gone" THEN "gone meanwhile" ELSE "passages", "failed"}
    /\ UNCHANGED <<lookedFor, given, document, verdict, found, readySeen, walk>>

-----------------------------------------------------------------------------
(* The pages of one list, which does not change meanwhile.                 *)

\* The first k of a set of entries.
FirstOf(k, entries) == {e \in entries : Cardinality({d \in entries : d <= e}) <= k}

SizeOf(sizes, entries) == FoldFunctionOnSet(+, 0, sizes, entries)

(* How many of the page's hits fit: those before the first that exceeds    *)
(* the budget, at least one.                                               *)
Fitting(sizes, entries) ==
    LET over == {k \in 2 .. Cardinality(entries) : SizeOf(sizes, FirstOf(k, entries)) > HitsBudget}
    IN  IF over = {} THEN Cardinality(entries) ELSE (CHOOSE k \in over : \A j \in over : k <= j) - 1

budgetHits_anyCount(sizes, entries, first) == Fitting(sizes, entries)

\* When the page is cut, the largest such count that divides its offset.
budgetHits(sizes, entries, first) ==
    LET fit == Fitting(sizes, entries)
        dividing == {n \in 1 .. fit : first % n = 0}
    IN  IF fit = Cardinality(entries) THEN fit ELSE CHOOSE n \in dividing : \A m \in dividing : m <= n

NextPageOfHits ==
    /\ lookedFor = "pages" /\ ~walk.over
    /\ LET first == (walk.page - 1) * walk.limit
           shown == {e \in DOMAIN walk.sizes \ walk.inNotes : first < e /\ e <= first + walk.limit}
           fit == budgetHits(walk.sizes, shown, first)
           now == FirstOf(fit, shown)
           cut == fit < Cardinality(shown)
       IN  walk' = [walk EXCEPT
             !.seen = @ \cup now,
             !.again = @ \/ now \cap walk.seen # {},
             !.limit = IF cut THEN fit ELSE @,
             !.page = IF cut THEN first \div fit + 2 ELSE @ + 1,
             !.over = ~cut /\ Len(walk.sizes) <= first + walk.limit]
    /\ UNCHANGED <<lookedFor, given, document, verdict, found, answer, readySeen>>

SearchCallNext ==
    \/ Gate \/ Measured \/ DocumentLookedUp \/ Decide \/ NextPageOfHits
    \/ \E v \in QueryVariants : VariantSearched(v)
    \/ \E next \in {"ready", "gone"} : UserMovesDocument(next)

SearchCallSpec == SearchCallInit /\ [][SearchCallNext]_searchCallVars
-----------------------------------------------------------------------------
(* Queries that ran next to a measurement tell nothing once it says off,   *)
(* not even whether the document exists (files.ts: "Its verdict comes      *)
(* first"); and passages shown are of a document that was ready to read    *)
(* since the call began.                                                   *)
VerdictComesFirst ==
    /\ verdict = "guardOff" => answer \in {"none", "guardOff"}
    /\ answer = "passages" => readySeen

(* The next call that each answer names misses no hit: what lies before    *)
(* the page it asks for was shown, or was left out for its footnotes; and  *)
(* it repeats none, unless some were left out (files.ts: "so the rest is   *)
(* exactly `limit: k, page: first / k + 2`").                              *)
PagesTileTheHits ==
    /\ \A e \in DOMAIN walk.sizes \ walk.inNotes :
         walk.over \/ e <= (walk.page - 1) * walk.limit => e \in walk.seen
    /\ walk.again => walk.inNotes # {}
=============================================================================
