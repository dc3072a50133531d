----------------------------- MODULE EuDocuments -----------------------------
(***************************************************************************)
(* One document of the EU: the chain of places its text is asked for, in   *)
(* the language wanted and then in English, within one time budget         *)
(* (src/sources/cellar.ts, eurlex.ts, curia.ts).                           *)
(*                                                                         *)
(* Cellar is asked by CELEX and by ECLI, and for a judgment InfoCuria by   *)
(* its own id ("blob"). A reader makes two calls, for two pages; what the  *)
(* source holds does not change. The parts of a document are one request.  *)
(***************************************************************************)
EXTENDS Integers, Sequences, SequencesExt, FiniteSetsExt

CONSTANTS
    EuBudget,    \* CELLAR_CALL_BUDGET_MS, in ticks
    EuTimeout,   \* GET_TIMEOUT_MS
    EuMinLeft,   \* MIN_ATTEMPT_MS
    EuRetryLeft, \* RETRY_MIN_LEFT_MS, with the back-off
    MaxEuFaults  \* bound: failures and stubs, both calls together

ASSUME EuAssumption ==
    /\ EuBudget \in Nat /\ EuTimeout \in Nat
    /\ EuMinLeft \in Nat /\ EuRetryLeft \in Nat /\ EuRetryLeft >= EuMinLeft /\ MaxEuFaults \in Nat

VARIABLES
    euDoc,     \* what the call asks for, and what the sources hold
    euTexts,   \* textCache and blobCache: texts kept
    euMisses,  \* missCache: texts Cellar said it has not
    euCall,    \* the call under way
    euFirst    \* history: what the first call was like, and whether anything lapsed since

euVars == <<euDoc, euTexts, euMisses, euCall, euFirst>>

-----------------------------------------------------------------------------
(* A text is an identifier and a language; "??" is a code nobody knows,    *)
(* which only a read by the InfoCuria id accepts, as English.              *)
Identifiers == {"celex", "ecli", "blob"}
wanted == IF euDoc.language = "??" THEN "en" ELSE euDoc.language

TextsBy(id) ==
    IF id \notin euDoc.given THEN <<>>
    ELSE IF wanted = "en" THEN <<<<id, "en">>>> ELSE <<<<id, wanted>>, <<id, "en">>>>

Chain == TextsBy("celex") \o TextsBy("ecli") \o TextsBy("blob")

\* The parts of a call that are history: texts answered "none", stubs, failures, requests.
NewCall(n, faults) ==
    [n |-> n, faults |-> faults, chain |-> Chain, left |-> EuBudget, retried |-> FALSE, failure |-> "none",
     none |-> {}, stubs |-> {}, failed |-> {}, requests |-> FALSE,
     result |-> [kind |-> "none", id |-> "none", language |-> "none", fallback |-> FALSE]]

NotOver == euCall.result.kind = "none"
textSought == Head(euCall.chain)
hasBudget == euCall.left >= EuMinLeft

CallEnds(call, kind) == [call EXCEPT !.result.kind = kind]

Serves(call) ==
    [call EXCEPT !.result = [kind |-> "text", id |-> textSought[1], language |-> textSought[2],
                             fallback |-> textSought[2] # wanted \/ euDoc.language = "??"]]

NextText(call) == [call EXCEPT !.chain = Tail(@), !.retried = FALSE]

\* A failure ends the call with its error; one of Cellar's leaves InfoCuria its
\* chance, straight away, and is the error told if that has nothing either.
Fails_next(call, kind) == NextText(call)
Fails(call, kind) ==
    LET told == IF call.failure = "none" THEN kind ELSE call.failure
        down == [call EXCEPT !.failed = @ \cup {Head(call.chain)}]
    IN  IF textSought[1] # "blob" /\ "blob" \in euDoc.given
        THEN [down EXCEPT !.failure = kind, !.chain = TextsBy("blob"), !.retried = FALSE]
        ELSE CallEnds(down, told)

-----------------------------------------------------------------------------
\* The checks made before a text is looked for in the cache: for InfoCuria, and
\* in EUR-Lex for the ECLI after a CELEX.
CheckedFirst ==
    \/ textSought[1] = "blob"
    \/ euDoc.tool = "eurlex" /\ "celex" \in euDoc.given /\ textSought = <<"ecli", wanted>>

NoTimeLeft ==
    /\ NotOver /\ euCall.chain # <<>> /\ CheckedFirst /\ ~hasBudget
    /\ euCall' = IF textSought[1] = "blob" /\ textSought[2] # wanted
                 THEN [euCall EXCEPT !.chain = <<>>]
                 ELSE CallEnds(euCall, IF euCall.failure = "none" THEN "budget" ELSE euCall.failure)
    /\ UNCHANGED <<euDoc, euTexts, euMisses, euFirst>>

MayLook == NotOver /\ euCall.chain # <<>> /\ (CheckedFirst => hasBudget)

FromCache ==
    /\ MayLook /\ textSought \in euTexts
    /\ euCall' = Serves(euCall)
    /\ UNCHANGED <<euDoc, euTexts, euMisses, euFirst>>

KnownMiss ==
    /\ MayLook /\ textSought \notin euTexts /\ textSought \in euMisses
    /\ euCall' = NextText([euCall EXCEPT !.none = @ \cup {textSought}])
    /\ UNCHANGED <<euDoc, euTexts, euMisses, euFirst>>

MustAsk == MayLook /\ textSought \notin euTexts \cup euMisses

BudgetSpent ==
    /\ MustAsk /\ ~hasBudget
    /\ euCall' = Fails(euCall, "budget")
    /\ UNCHANGED <<euDoc, euTexts, euMisses, euFirst>>

\* One attempt: answered at once, or as late as it may be.
AskedFor(ticks) == [euCall EXCEPT !.left = @ - ticks, !.requests = TRUE]
Faulty(ticks) == [AskedFor(ticks) EXCEPT !.faults = @ + 1]
AttemptTicks == {0, Min({EuTimeout, euCall.left})}

GivesText ==
    /\ MustAsk /\ hasBudget /\ textSought \in euDoc.held
    /\ \E ticks \in AttemptTicks : euCall' = Serves(AskedFor(ticks))
    /\ euTexts' = euTexts \cup {textSought}
    /\ UNCHANGED <<euDoc, euMisses, euFirst>>

\* 404 or 406: Cellar's are remembered, not InfoCuria's.
missesAfter_none(t) == euMisses
missesAfter(t) == IF t[1] = "blob" THEN euMisses ELSE euMisses \cup {t}

HasNone ==
    /\ MustAsk /\ hasBudget /\ textSought \notin euDoc.held
    /\ \E ticks \in AttemptTicks : euCall' = NextText([AskedFor(ticks) EXCEPT !.none = @ \cup {textSought}])
    /\ euMisses' = missesAfter(textSought)
    /\ UNCHANGED <<euDoc, euTexts, euFirst>>

\* A stub, a part that is missing, a status that is neither: not remembered.
missesAfterStub_remembered(t) == missesAfter(t)
missesAfterStub(t) == euMisses

GivesStub ==
    /\ MustAsk /\ hasBudget /\ euCall.faults < MaxEuFaults
    /\ \E ticks \in AttemptTicks : euCall' = NextText([Faulty(ticks) EXCEPT !.stubs = @ \cup {textSought}])
    /\ euMisses' = missesAfterStub(textSought)
    /\ UNCHANGED <<euDoc, euTexts, euFirst>>

\* fetchWithinDeadline: a failure is tried once more if there is time for it.
AskFails ==
    /\ MustAsk /\ hasBudget /\ euCall.faults < MaxEuFaults
    /\ \E ticks \in AttemptTicks :
          euCall' = IF ~euCall.retried /\ Faulty(ticks).left >= EuRetryLeft
                    THEN [Faulty(ticks) EXCEPT !.retried = TRUE]
                    ELSE Fails(Faulty(ticks), "outage")
    /\ UNCHANGED <<euDoc, euTexts, euMisses, euFirst>>

NothingLeft ==
    /\ NotOver /\ euCall.chain = <<>>
    /\ euCall' = CallEnds(euCall, IF euCall.failure = "none" THEN "not found" ELSE euCall.failure)
    /\ UNCHANGED <<euDoc, euTexts, euMisses, euFirst>>

\* The next page of a text is a call of its own; what is kept may lapse in between.
Lapses ==
    /\ euCall.result.kind = "text" /\ euCall.n = 1 /\ ~euFirst.lapsed
    /\ \E t \in euTexts \cup euMisses : euTexts' = euTexts \ {t} /\ euMisses' = euMisses \ {t}
    /\ euFirst' = [euFirst EXCEPT !.lapsed = TRUE]
    /\ UNCHANGED <<euDoc, euCall>>

NextPageOfText ==
    /\ euCall.result.kind = "text" /\ euCall.n = 1
    /\ euCall' = NewCall(2, euCall.faults)
    /\ euFirst' = [euFirst EXCEPT !.served = euCall.result.id, !.stubs = euCall.stubs # {}]
    /\ UNCHANGED <<euDoc, euTexts, euMisses>>

-----------------------------------------------------------------------------
NoFirst == [served |-> "none", stubs |-> FALSE, lapsed |-> FALSE]

EuAsks(doc) ==
    /\ euDoc = doc /\ euTexts = {} /\ euMisses = {}
    /\ euCall = NewCall(1, 0) /\ euFirst = NoFirst

\* The two tools differ only where an ECLI follows a CELEX.
EuInit ==
    \E tool \in {"eurlex", "curia"}, given \in (SUBSET Identifiers) \ {{}}, language \in {"en", "cs", "??"} :
        /\ tool = "eurlex" => given = {"celex", "ecli"}
        /\ language = "??" => given = {"blob"}
        /\ \E held \in SUBSET (given \X ({"en", language} \ {"??"})) :
              EuAsks([tool |-> tool, given |-> given, language |-> language, held |-> held])

EuNext ==
    \/ NoTimeLeft \/ FromCache \/ KnownMiss \/ BudgetSpent
    \/ GivesText \/ HasNone \/ GivesStub \/ AskFails \/ NothingLeft
    \/ Lapses \/ NextPageOfText

EuSpec == EuInit /\ [][EuNext]_euVars

-----------------------------------------------------------------------------
(* Properties.                                                             *)

\* Wherever it came from, the text served is in the language it is said to be
\* in, and English stands in for a text that exists only where this very call
\* was given a stub of it; "not found" is said only where every place of the
\* chain answered so and none failed ("an outage must not read as no such
\* document"); and an error only where something failed or the budget ran out,
\* InfoCuria having had its chance if there was time for it.  The one place that
\* may be left out of "not found" is InfoCuria's English text, for want of time.
EuAnswersAreHonest ==
    LET r == euCall.result
        outOfTime == ~hasBudget
        asked == euCall.none \cup euCall.stubs \cup euCall.failed
    IN  /\ r.kind = "text" =>
              /\ <<r.id, r.language>> \in euDoc.held
              /\ r.fallback <=> r.language # euDoc.language
              /\ r.fallback => <<r.id, euDoc.language>> \notin euDoc.held \ euCall.stubs
        /\ r.kind = "not found" =>
              /\ euCall.failed = {}
              /\ \A i \in DOMAIN Chain :
                    Chain[i] \in asked \/ (outOfTime /\ Chain[i] = <<"blob", "en">>)
        /\ r.kind \in {"outage", "budget"} =>
              /\ euCall.failed # {} \/ outOfTime
              /\ "blob" \in euDoc.given => <<"blob", wanted>> \in asked \/ outOfTime

\* The next page of a text served by Cellar costs no request, in English instead
\* of the language wanted too, as long as nothing lapsed and no answer was a stub.
PagingAsksNothingAgain ==
    (euCall.n = 2 /\ euFirst.served \in {"celex", "ecli"} /\ ~euFirst.stubs /\ ~euFirst.lapsed) =>
        ~euCall.requests

=============================================================================
