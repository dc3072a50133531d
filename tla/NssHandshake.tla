----------------------------- MODULE NssHandshake -----------------------------
(***************************************************************************)
(* The session NSS searches share on one instance (src/sources/nss.ts):    *)
(* handshake() opens one by GET /, a search posts with it and, rejected,   *)
(* asks once more with the session it saw rejected named as stale.         *)
(*                                                                         *)
(* Sessions are numbered in the order the portal opened them; it forgets   *)
(* all it has opened so far at once.  Parsing the form and paging are left *)
(* out.                                                                    *)
(***************************************************************************)
EXTENDS Naturals

CONSTANTS
    Searches,
    MaxSessions,    \* bound: sessions the portal opens
    MaxLosses       \* bound: times the portal forgets its sessions, a session ages or GET / fails

ASSUME HandshakeAssumption == MaxSessions \in Nat \ {0} /\ MaxLosses \in Nat

VARIABLES
    opened,         \* sessions opened so far
    forgotten,      \* sessions up to this one are dead
    cachedSession,  \* the session kept, 0 for none
    fresh,          \* it is younger than SESSION_TTL_MS
    pendingSession, \* the handshake under way: "none", "asked" or the session opened
    searches,       \* search -> idle, waiting for a handshake or posting, with which session, after which
    losses,         \* bound
    gets            \* history: handshakes begun since the last loss

nssVars == <<opened, forgotten, cachedSession, fresh, pendingSession, searches, losses, gets>>

IdleSearch == [st |-> "idle", with |-> 0, rejected |-> 0]
NoHandshake == [st |-> "none", session |-> 0]

NssInit ==
    /\ opened = 0 /\ forgotten = 0 /\ cachedSession = 0 /\ fresh = TRUE
    /\ pendingSession = NoHandshake
    /\ searches = [s \in Searches |-> IdleSearch]
    /\ losses = 0 /\ gets = 0

-----------------------------------------------------------------------------

Reusable_anyButNone(stale) == stale = 0 /\ cachedSession # 0 /\ fresh

Reusable_evenStale(stale) == cachedSession # 0 /\ fresh

\* A cached session is reused unless it is the one just rejected or too old.
Reusable(stale) == cachedSession # 0 /\ cachedSession # stale /\ fresh

\* handshake(stale): the cached session, else the handshake under way, else a new one.
Handshake(s, stale) ==
    \/ /\ Reusable(stale)
       /\ searches' = [searches EXCEPT ![s] = [st |-> "posting", with |-> cachedSession, rejected |-> stale]]
       /\ UNCHANGED <<pendingSession, gets>>
    \/ /\ ~Reusable(stale)
       /\ searches' = [searches EXCEPT ![s] = [st |-> "waiting", with |-> 0, rejected |-> stale]]
       /\ IF pendingSession = NoHandshake
          THEN pendingSession' = [st |-> "asked", session |-> 0] /\ gets' = gets + 1
          ELSE UNCHANGED <<pendingSession, gets>>

SearchStarts(s) ==
    /\ searches[s].st = "idle"
    /\ Handshake(s, 0)
    /\ UNCHANGED <<opened, forgotten, cachedSession, fresh, losses>>

PortalOpens ==
    /\ pendingSession.st = "asked" /\ opened < MaxSessions
    /\ opened' = opened + 1
    /\ pendingSession' = [st |-> "opened", session |-> opened + 1]
    /\ UNCHANGED <<forgotten, cachedSession, fresh, searches, losses, gets>>

\* The form arrives: the session is kept and every search that waited has it.
HandshakeLands ==
    /\ pendingSession.st = "opened"
    /\ cachedSession' = pendingSession.session /\ fresh' = TRUE
    /\ pendingSession' = NoHandshake
    /\ searches' = [s \in Searches |-> IF searches[s].st = "waiting"
                        THEN [searches[s] EXCEPT !.st = "posting", !.with = pendingSession.session] ELSE searches[s]]
    /\ UNCHANGED <<opened, forgotten, losses, gets>>

Lost == losses < MaxLosses /\ losses' = losses + 1 /\ gets' = 0

HandshakeFails ==
    /\ pendingSession.st # "none" /\ Lost
    /\ pendingSession' = NoHandshake
    /\ searches' = [s \in Searches |-> IF searches[s].st = "waiting" THEN IdleSearch ELSE searches[s]]
    /\ UNCHANGED <<opened, forgotten, cachedSession, fresh>>

\* runFirstPage: an answer ends the search; a rejection is retried once with
\* another session.
Posted(s) ==
    /\ searches[s].st = "posting"
    /\ IF searches[s].with > forgotten \/ searches[s].rejected # 0
       THEN searches' = [searches EXCEPT ![s] = IdleSearch] /\ UNCHANGED <<pendingSession, gets>>
       ELSE Handshake(s, searches[s].with)
    /\ UNCHANGED <<opened, forgotten, cachedSession, fresh, losses>>

PortalForgets ==
    /\ opened > forgotten /\ Lost
    /\ forgotten' = opened
    /\ UNCHANGED <<opened, cachedSession, fresh, pendingSession, searches>>

SessionAges ==
    /\ fresh /\ cachedSession # 0 /\ Lost
    /\ fresh' = FALSE
    /\ UNCHANGED <<opened, forgotten, cachedSession, pendingSession, searches>>

NssNext ==
    \/ \E s \in Searches : SearchStarts(s) \/ Posted(s)
    \/ PortalOpens \/ HandshakeLands \/ HandshakeFails \/ PortalForgets \/ SessionAges

NssSpec == NssInit /\ [][NssNext]_nssVars

-----------------------------------------------------------------------------
(* Properties.                                                             *)

\* Between two losses at most one GET / is sent, however many searches hit the
\* same expiry and however late ("N requests hitting one expiry cost one GET /,
\* not N"), and a retry never posts with the session it just saw rejected or
\* an older one.
ExpiryCostsOneHandshake ==
    /\ gets <= 1
    /\ \A s \in Searches : searches[s].st = "posting" => searches[s].with > searches[s].rejected

=============================================================================
