---------------------------- MODULE ZoteroSearch ----------------------------
(***************************************************************************)
(* One zotero_search call for a spisova znacka (src/mcp/tools/zotero.ts):  *)
(* the libraries the key reads, searched side by side in rounds, and the   *)
(* scan of their case items, which shares a budget of pages among the      *)
(* libraries while their answers are still on their way (docketScan over   *)
(* scanCases of src/zotero/client.ts).                                     *)
(*                                                                         *)
(* Library 1 is the personal one; the others are groups, known once they   *)
(* are listed.  What a library holds, and which of its scans fails, is     *)
(* fixed at the start: the code must not let the order of the answers      *)
(* show.  The items, the filters and the texts of the answer are left out. *)
(***************************************************************************)
EXTENDS Integers, FiniteSets, Functions

CONSTANTS
    Groups,             \* how many group libraries the key may read
    MaxLibraries,       \* LIMITS.maxLibrariesPerSearch
    ScanPerLibrary,     \* LIMITS.scanPagesPerLibrary
    ScanTotal,          \* LIMITS.scanPagesTotal
    MaxCasePages        \* the most pages of case items a library has

ASSUME SearchAssumption ==
    /\ Groups \in Nat /\ MaxLibraries \in Nat \ {0}
    /\ ScanPerLibrary \in Nat \ {0} /\ ScanTotal \in Nat /\ MaxCasePages \in Nat \ {0}

VARIABLES
    world,     \* what zotero.org holds and which of its answers fail
    listed,    \* the group listing has come in
    scanned,   \* library -> its share of the pages, the pages it spends, its run
    stage,     \* the search: the title round, the widened round, or over
    titles,    \* the libraries whose title list failed, while the search is widened
    lists,     \* what the lists of the round that counts answered
    answer

searchVars == <<world, listed, scanned, stage, titles, lists, answer>>

Libs == 1 .. Groups + 1
Unknown == -1
Answers == {"hits", "empty", "failed"}

\* The libraries searched: the personal one and the groups listed, up to the cap.
Readable == IF world.listing THEN Libs ELSE {1}
Searched == IF listed THEN {l \in Readable : l <= MaxLibraries} ELSE {1}
Omitted == Readable \ Searched

NotScanned == [share |-> Unknown, spent |-> Unknown, run |-> "none"]

SearchInit ==
    /\ world \in [cases : [Libs -> 1 .. MaxCasePages],
                  fails : {f \in [Libs -> {"no", "first", "later"}] :
                              Cardinality({l \in Libs : f[l] # "no"}) <= 1},
                  listing : BOOLEAN, quoted : BOOLEAN]
    /\ listed = FALSE
    /\ scanned = [l \in Libs |-> NotScanned]
    /\ stage = "title"
    /\ titles = {}
    /\ lists = {}
    /\ answer = [kind |-> "none", warned |-> FALSE]

\* listGroups, read softly: its failure leaves the personal library.
ListGroups ==
    /\ ~listed /\ listed' = TRUE
    /\ UNCHANGED <<world, scanned, stage, titles, lists, answer>>

-----------------------------------------------------------------------------
(* docketScan.  Variants with a plausible bug are named <definition>_<bug>; *)
(* each breaks a property that the definition it stands before keeps.       *)

Started(l) == scanned[l].share # Unknown

\* The pages the libraries before l leave it, counting the full share of one
\* whose pages are not known yet.
Left(l) ==
    ScanTotal - FoldFunctionOnSet(+, 0, [k \in Libs |-> IF scanned[k].spent # Unknown THEN scanned[k].spent
                                                         ELSE scanned[k].share], 1 .. l - 1)

Certain_anyLeft(l) == Left(l) > 0 \/ \A k \in 1 .. l - 1 : scanned[k].spent # Unknown

\* The share of l is certain: the pages before it are known, or even their
\* full shares leave it a whole one.
Certain(l) == Left(l) >= ScanPerLibrary \/ \A k \in 1 .. l - 1 : scanned[k].spent # Unknown

Share(l) == IF Left(l) <= 0 THEN 0 ELSE IF Left(l) < ScanPerLibrary THEN Left(l) ELSE ScanPerLibrary

\* The next library starts; without a share it is skipped.
StartScan(l) ==
    /\ l \in Searched /\ ~Started(l)
    /\ \A k \in 1 .. l - 1 : Started(k)
    /\ Certain(l)
    /\ scanned' = [scanned EXCEPT ![l] =
                      IF Share(l) = 0 THEN [share |-> 0, spent |-> 0, run |-> "skipped"]
                      ELSE [share |-> Share(l), spent |-> Unknown, run |-> "first"]]
    /\ UNCHANGED <<world, listed, stage, titles, lists, answer>>

\* The pages a run that was given `share` reads once its first answer names
\* the total.
Planned(l, share) == IF world.cases[l] < share THEN world.cases[l] ELSE share

FirstPage_onlyPlans(l) ==
    /\ scanned[l].run = "first"
    /\ scanned' = [scanned EXCEPT ![l] =
           IF world.fails[l] = "first" THEN [@ EXCEPT !.run = "failed"]
           ELSE [@ EXCEPT !.run = "rest", !.spent = Planned(l, scanned[l].share)]]
    /\ UNCHANGED <<world, listed, stage, titles, lists, answer>>

\* The first answer fixes the pages, before the others arrive (onPages); a run
\* that fails before it reads none.
FirstPage(l) ==
    /\ scanned[l].run = "first"
    /\ scanned' = [scanned EXCEPT ![l] =
           IF world.fails[l] = "first" THEN [@ EXCEPT !.run = "failed", !.spent = 0]
           ELSE [@ EXCEPT !.run = "rest", !.spent = Planned(l, scanned[l].share)]]
    /\ UNCHANGED <<world, listed, stage, titles, lists, answer>>

\* The other pages, read together; a failure now keeps its pages counted.
RestOfPages(l) ==
    /\ scanned[l].run = "rest"
    /\ scanned' = [scanned EXCEPT ![l].run = IF world.fails[l] = "later" THEN "failed" ELSE "read"]
    /\ UNCHANGED <<world, listed, stage, titles, lists, answer>>

ScanOver == listed /\ \A l \in Searched : scanned[l].run \in {"skipped", "read", "failed"}

-----------------------------------------------------------------------------
(* zoteroSearch: the rounds and the answer.                                *)

\* What n requests of a round may answer, as a set.
Outcomes(n) == {s \in SUBSET Answers : s # {} /\ Cardinality(s) <= n}

\* A round in which every request failed fails the call.
AfterRound(settled, next) == IF settled = {"failed"} THEN "failed" ELSE next

\* The title lists of every library; some fail.  All empty: the search is
\* widened, as everything mode adds the attachments' text.
TitleRound ==
    /\ stage = "title" /\ listed
    /\ \E failed \in SUBSET Searched :
       \E others \in {s \in Outcomes(Cardinality(Searched \ failed)) \cup {{}} :
                         "failed" \notin s /\ (s = {} <=> failed = Searched)} :
         LET settled == others \cup (IF failed = {} THEN {} ELSE {"failed"}) IN
         /\ stage' = AfterRound(settled, IF "hits" \in settled THEN "searched" ELSE "widen")
         /\ lists' = IF "hits" \in settled THEN settled ELSE {}
         /\ titles' = IF stage' = "widen" THEN failed ELSE {}
    /\ UNCHANGED <<world, listed, scanned, answer>>

\* KnownPage: only a title list that ANSWERED stands for its repetition.
Known == Searched \ titles

\* Everything mode: the text of the attachments, and for a quoted query its
\* words in titles once more, those lists known from the title round.
WidenedRound ==
    /\ stage = "widen"
    /\ \E text \in Outcomes(Cardinality(Searched)), again \in Outcomes(Cardinality(titles)) \cup {{}} :
          /\ again = {} <=> titles = {} \/ ~world.quoted
          /\ LET words == again \cup (IF world.quoted /\ Known # {} THEN {"empty"} ELSE {}) IN
              /\ lists' = text \cup words
              /\ stage' = AfterRound(text \cup words, "searched")
    /\ titles' = {}
    /\ UNCHANGED <<world, listed, scanned, answer>>

Warned_withoutListing ==
    \/ "failed" \in lists
    \/ \E l \in Searched : scanned[l].run = "failed"

\* The answer says what it does not cover: a list or a scan that failed, and
\* groups that could not be listed.
Warned ==
    \/ "failed" \in lists
    \/ \E l \in Searched : scanned[l].run = "failed"
    \/ ~world.listing

\* The call answers when both are over: the hits, the scan's matches, or nothing.
Answer ==
    /\ stage = "searched" /\ ScanOver /\ answer.kind = "none"
    /\ \E matches \in BOOLEAN :
          /\ matches => \E l \in Searched : scanned[l].run = "read"
          /\ answer' = [kind |-> IF matches \/ "hits" \in lists THEN "found" ELSE "nothing", warned |-> Warned]
    /\ UNCHANGED <<world, listed, scanned, stage, titles, lists>>

SearchNext ==
    \/ ListGroups
    \/ \E l \in Libs : StartScan(l) \/ FirstPage(l) \/ RestOfPages(l)
    \/ TitleRound \/ WidenedRound
    \/ Answer

SearchSpec == SearchInit /\ [][SearchNext]_searchVars

-----------------------------------------------------------------------------
(* Properties.                                                             *)

\* What the budget gives if the libraries are scanned one after another: the
\* pages left before each of them.
SequentialLeft[l \in Libs] ==
    IF l = 1 THEN ScanTotal
    ELSE LET left == SequentialLeft[l - 1]
             share == IF left < ScanPerLibrary THEN left ELSE ScanPerLibrary
         IN  IF share = 0 \/ world.fails[l - 1] = "first" THEN left ELSE left - Planned(l - 1, share)

\* In whatever order the answers come, each library gets the share of pages it
\* would get if the libraries were scanned one after another (docketScan), and
\* none waits for pages nobody will report: until the scan is over, an answer is
\* on its way or the next library can start.
ScanIsSequential ==
    /\ \A l \in Libs : Started(l) =>
          scanned[l].share = IF SequentialLeft[l] < ScanPerLibrary THEN SequentialLeft[l] ELSE ScanPerLibrary
    /\ \/ ScanOver \/ ~listed
       \/ \E l \in Libs : scanned[l].run \in {"first", "rest"}
       \/ \E l \in Searched : ~Started(l) /\ (\A k \in 1 .. l - 1 : Started(k)) /\ Certain(l)

\* "No match" without a warning means that every library was either searched,
\* each of its lists answering with nothing and its scan read or skipped and none
\* failed, or named as left out.  It does not mean that nothing was left: a scan
\* skipped or stopped at its share is what the answer's coverage tells.
NothingFoundIsProven ==
    answer.kind = "nothing" /\ ~answer.warned =>
        /\ lists = {"empty"}
        /\ Searched \cup Omitted = Libs
        /\ \A l \in Searched : scanned[l].run \in {"read", "skipped"}

=============================================================================
