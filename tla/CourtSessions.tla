----------------------------- MODULE CourtSessions -----------------------------
(***************************************************************************)
(* What the clients of two courts keep between calls: NALUS's finished     *)
(* search session, on which later pages are read, and its decisions        *)
(* (src/sources/nalus.ts); NSS's later pages, rebuilt from the first, and  *)
(* the renditions of a decision (src/sources/nss.ts).                      *)
(*                                                                         *)
(* One search of each is modelled; a page of hits is the number of the     *)
(* page and of the rows there were when it was rendered.  The handshake of *)
(* NSS is in NssHandshake, sharing of loads in SourceCache.                *)
(***************************************************************************)
EXTENDS Integers, Sequences

CONSTANTS
    CourtCalls,   \* calls of the tools
    NoCourtCall,
    PageSize,     \* rows of a NALUS page
    MaxRows,      \* bound: decisions the search finds
    MaxSearches,  \* bound: sessions NALUS opens
    MaxMishaps    \* bound: sessions that expire or lapse, rows that change, requests that fail

ASSUME SessionsAssumption ==
    /\ NoCourtCall \notin CourtCalls
    /\ PageSize \in Nat \ {0} /\ MaxRows \in Nat /\ MaxSearches \in Nat /\ MaxMishaps \in Nat

VARIABLES
    rows,         \* decisions the search finds now
    sessions,     \* NALUS: the sessions opened, whether alive and the page each served last
    keptSession,  \* sessionCache: the session of the last search, and its total
    calls,        \* call -> what it asks and has got
    decision,     \* getNalusDecision: the decision kept and its readers
    mishaps       \* bound

courtVars == <<rows, sessions, keptSession, calls, decision, mishaps>>

Pages == 0 .. (MaxRows - 1) \div PageSize + 1

NoKept == [session |-> 0, total |-> 0]
IdleCall == [at |-> "idle", page |-> 0, kept |-> NoKept, own |-> 0,
             shown |-> [page |-> 0, total |-> 0, hits |-> FALSE]]

Mishap == mishaps < MaxMishaps /\ mishaps' = mishaps + 1

-----------------------------------------------------------------------------
(* Results.aspx on a session.                                              *)

\* The pages a live session may serve: the one asked for; 0 is not named in the
\* request, which may serve the page rendered last instead.
Served(s, page) == {page} \cup (IF page = 0 THEN {sessions[s].last} ELSE {})

Rendered(page) == [page |-> page, total |-> rows, hits |-> page * PageSize < rows]

\* What is rendered for an expired session is not known: no results page, or an empty banner.
Unreadable == [page |-> -1, total |-> -1, hits |-> FALSE]
EmptyBanner == [page |-> 0, total |-> 0, hits |-> FALSE]

\* Results.aspx on session s, asked for `page`, replies.
Replies(s, page, reply) ==
    IF sessions[s].alive
    THEN \E given \in Served(s, page) :
            reply = Rendered(given) /\ sessions' = [sessions EXCEPT ![s].last = given]
    ELSE reply \in {Unreadable, EmptyBanner} /\ UNCHANGED sessions

AnyReply == {Rendered(page) : page \in Pages} \cup {Unreadable, EmptyBanner}

-----------------------------------------------------------------------------
(* runSearchNalus.                                                         *)

\* A call shows a reply, or goes to the form; what it was to read before is of no use then.
Shows(c, reply) == [calls EXCEPT ![c] = [IdleCall EXCEPT !.at = "done", !.page = calls[c].page, !.shown = reply]]
GoesToForm(c) == [calls EXCEPT ![c] = [IdleCall EXCEPT !.at = "form", !.page = calls[c].page]]

NalusAsks(c) ==
    /\ calls[c].at = "idle"
    /\ \E page \in Pages :
          calls' = [calls EXCEPT ![c] = [IdleCall EXCEPT !.page = page, !.kept = keptSession,
                                             !.at = IF keptSession = NoKept THEN "form" ELSE "reuse"]]
    /\ UNCHANGED <<rows, sessions, keptSession, mishaps, decision>>

\* readKeptPage: what the reply must be to count.
Trusted_byTotal(k, page, reply) ==
    /\ reply.total = k.total
    /\ reply.hits \/ page * PageSize >= k.total
Trusted_anyTotal(k, page, reply) ==
    reply.hits => reply.page = page
Trusted(k, page, reply) ==
    /\ reply.total = k.total
    /\ reply.hits \/ page * PageSize >= k.total
    /\ reply.hits => reply.page = page

ReadsKept(c) ==
    /\ calls[c].at = "reuse"
    /\ \E reply \in AnyReply :
          /\ Replies(calls[c].kept.session, calls[c].page, reply)
          /\ IF Trusted(calls[c].kept, calls[c].page, reply)
             THEN calls' = Shows(c, reply) /\ UNCHANGED keptSession
             ELSE calls' = GoesToForm(c) /\ keptSession' = NoKept
    /\ UNCHANGED <<rows, mishaps, decision>>

\* The read of a kept page fails: the whole search is run.
KeptFails(c) ==
    /\ calls[c].at = "reuse" /\ Mishap
    /\ calls' = GoesToForm(c) /\ keptSession' = NoKept
    /\ UNCHANGED <<rows, sessions, decision>>

\* Search.aspx, the form and the criteria: hits open a session, none end the search.
Posts(c) ==
    /\ calls[c].at = "form"
    /\ IF rows = 0
       THEN calls' = Shows(c, EmptyBanner) /\ UNCHANGED sessions
       ELSE /\ Len(sessions) < MaxSearches
            /\ sessions' = Append(sessions, [alive |-> TRUE, last |-> 0])
            /\ calls' = [calls EXCEPT ![c].at = "results", ![c].own = Len(sessions) + 1]
    /\ UNCHANGED <<rows, keptSession, mishaps, decision>>

ReadsResults(c) ==
    /\ calls[c].at = "results" /\ sessions[calls[c].own].alive
    /\ \E reply \in AnyReply :
          /\ Replies(calls[c].own, calls[c].page, reply)
          /\ calls' = Shows(c, reply)
          /\ keptSession' = [session |-> calls[c].own, total |-> reply.total]
    /\ UNCHANGED <<rows, mishaps, decision>>

\* A request fails, or there is no time left for it.
SearchFails(c) ==
    /\ calls[c].at \in {"form", "results"} /\ Mishap
    /\ calls' = [calls EXCEPT ![c] = IdleCall]
    /\ UNCHANGED <<rows, sessions, keptSession, decision>>

CallSettles(c) ==
    /\ calls[c].at = "done"
    /\ calls' = [calls EXCEPT ![c] = IdleCall]
    /\ UNCHANGED <<rows, sessions, keptSession, mishaps, decision>>

SessionExpires(s) ==
    /\ sessions[s].alive /\ Mishap
    /\ sessions' = [sessions EXCEPT ![s] = [alive |-> FALSE, last |-> 0]]
    /\ UNCHANGED <<rows, keptSession, calls, decision>>

\* sessionCache drops what is older than SEARCH_TTL_MS.
KeptLapses ==
    /\ keptSession # NoKept /\ keptSession' = NoKept /\ Mishap
    /\ UNCHANGED <<rows, sessions, calls, decision>>

\* A decision is published, or one is withdrawn.
RowsChange ==
    /\ Mishap
    /\ rows' \in {rows - 1, rows + 1} \cap (0 .. MaxRows)
    /\ UNCHANGED <<sessions, keptSession, calls, decision>>

-----------------------------------------------------------------------------
(* getNalusDecision: the text and, beside it, the abstract, which may not  *)
(* come in time.  A result without it is kept by through() and then        *)
(* deleted, with the load under way, by everyone it was handed to.         *)
NoDecisionReader == [st |-> "idle", on |-> NoCourtCall]
NoDecision == [asked |-> FALSE, kept |-> "none", pending |-> NoCourtCall, loads |-> {},
               readers |-> [c \in CourtCalls |-> NoDecisionReader]]

DecisionAsked(c) ==
    /\ decision.readers[c].st = "idle" /\ c \notin decision.loads
    /\ decision' =
          IF decision.kept # "none" THEN [decision EXCEPT !.readers[c] = [st |-> decision.kept, on |-> NoCourtCall]]
          ELSE IF decision.pending # NoCourtCall
          THEN [decision EXCEPT !.readers[c] = [st |-> "waiting", on |-> decision.pending]]
          ELSE [decision EXCEPT !.readers[c] = [st |-> "waiting", on |-> c], !.pending = c, !.loads = @ \cup {c}]

\* A load lands "whole", or "cut": without the abstract.
DecisionLands(l) ==
    /\ l \in decision.loads
    /\ \E value \in {"whole", "cut"} :
          decision' = [decision EXCEPT
              !.loads = @ \ {l},
              !.kept = IF decision.pending = l THEN value ELSE @,
              !.pending = IF @ = l THEN NoCourtCall ELSE @,
              !.readers = [c \in CourtCalls |-> IF @[c].on = l THEN [st |-> value, on |-> NoCourtCall] ELSE @[c]]]

Forget_asItIs(value, d) == d
Forget(value, d) == IF value = "cut" THEN [d EXCEPT !.kept = "none", !.pending = NoCourtCall] ELSE d

DecisionRead(c) ==
    /\ decision.readers[c].st \in {"whole", "cut"}
    /\ decision' = [Forget(decision.readers[c].st, decision) EXCEPT !.readers[c] = NoDecisionReader]

DecisionLapses == decision.kept # "none" /\ decision' = [decision EXCEPT !.kept = "none"]

DecisionSteps ==
    /\ DecisionLapses \/ \E c \in CourtCalls : DecisionAsked(c) \/ DecisionLands(c) \/ DecisionRead(c)
    /\ UNCHANGED <<rows, sessions, keptSession, calls, mishaps>>

-----------------------------------------------------------------------------
(* NSS runLaterPage: page 2 and on, from what the first page said; `stale` *)
(* if the portal no longer knows the session.                              *)
nssOffset(page) == 2 * PageSize + (page - 2) * PageSize

NssLater_emptyIsTheEnd(total, paginated, page, now, stale) ==
    IF total # -1 /\ nssOffset(page) >= total THEN "past the end"
    ELSE IF ~paginated THEN "error"
    ELSE IF ~stale /\ now > nssOffset(page) THEN "hits" ELSE "past the end"

NssLater(total, paginated, page, now, stale) ==
    IF total # -1 /\ nssOffset(page) >= total THEN "past the end"
    ELSE IF ~paginated THEN "error"
    ELSE IF ~stale /\ now > nssOffset(page) THEN "hits"
    ELSE IF total # -1 THEN "error" ELSE "past the end"

-----------------------------------------------------------------------------

CourtInit ==
    /\ rows \in 0 .. MaxRows
    /\ sessions = <<>> /\ keptSession = NoKept /\ mishaps = 0
    /\ calls = [c \in CourtCalls |-> IdleCall]
    /\ decision \in {NoDecision, [NoDecision EXCEPT !.asked = TRUE]}
    /\ decision.asked => rows = 0

SearchSteps ==
    \/ \E c \in CourtCalls :
          NalusAsks(c) \/ ReadsKept(c) \/ KeptFails(c) \/ Posts(c) \/ ReadsResults(c) \/ SearchFails(c) \/ CallSettles(c)
    \/ \E s \in DOMAIN sessions : SessionExpires(s)
    \/ KeptLapses \/ RowsChange

CourtNext ==
    \/ ~decision.asked /\ SearchSteps
    \/ decision.asked /\ DecisionSteps

CourtSpec == CourtInit /\ [][CourtNext]_courtVars

-----------------------------------------------------------------------------
(* Properties.                                                             *)

\* Whichever session it was read on, the page a search shows is the page asked
\* for, and one without hits is shown only past the last decision of the same
\* rendering; hits are never shown under another rendering's total.
ThePageAskedFor ==
    \A c \in CourtCalls : calls[c].at = "done" =>
        /\ calls[c].shown.hits => calls[c].shown.page = calls[c].page
        /\ calls[c].shown.hits <=> calls[c].page * PageSize < calls[c].shown.total

\* A decision whose abstract did not come is not kept: once everyone who was
\* handed it has gone on, the next read asks again, and so it does for what a
\* load left behind when it was forgotten.
CutIsNotKept == (\A c \in CourtCalls : decision.readers[c].st # "cut") => decision.kept # "cut"

\* A later page of NSS without rows is shown only past the end of what the first
\* page counted: a session the portal has forgotten, or rows withdrawn since, are
\* an error, not the end of the results.
NssEndIsTheEnd ==
    (\A c \in CourtCalls : calls[c] = IdleCall) /\ sessions = <<>> /\ mishaps = 0 =>
        \A total \in 0 .. MaxRows + 3, now \in 0 .. MaxRows + 3, page \in 2 .. 4 : \A paginated, stale \in BOOLEAN :
            NssLater(total, paginated, page, now, stale) = "past the end" => nssOffset(page) >= total

=============================================================================
