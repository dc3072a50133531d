------------------------------ MODULE ZoteroHttp ------------------------------
(***************************************************************************)
(* The one door to api.zotero.org of a server instance (src/zotero/http.ts)*)
(* under many calls of zoteroFetch at once: the slots of each Zotero user, *)
(* the pauses Zotero asks for, the keys it rejected and the breaker that   *)
(* they trip.                                                              *)
(*                                                                         *)
(* JavaScript runs one call at a time and switches at an await: an action  *)
(* is what a call does between two of them.  Times are the ticks that are  *)
(* left (0: over), so that behaviours have no end.  Between the check of   *)
(* the pauses and the request no time passes, but other calls may run.     *)
(***************************************************************************)
EXTENDS Naturals, FiniteSets, Sequences

CONSTANTS
    HttpRequest,     \* calls of zoteroFetch, one after another on each
    HttpKey,         \* API keys, by fingerprint
    HttpUser,        \* politeness keys: "u:<Zotero user>" or "k:<fingerprint>"
    WholeInstance,    \* "*": the pause that holds every user
    KeyOf, UserOf,      \* of a request
    ConcurrencyPerUser, \* LIMITS.concurrencyPerUser
    BreakerInvalidKeys, \* LIMITS.breakerInvalidKeys
    BreakerTicks,       \* LIMITS.breakerMs
    MaxBackoffWait,     \* LIMITS.maxBackoffWaitMs
    MaxRetryAfter,      \* LIMITS.maxRetryAfterMs
    Wait,               \* what Backoff and Retry-After ask for
    NoRetryAfter        \* an answer without it

ASSUME ZoteroAssumption ==
    /\ IsFiniteSet(HttpRequest)
    /\ KeyOf \in [HttpRequest -> HttpKey]
    /\ UserOf \in [HttpRequest -> HttpUser]
    /\ WholeInstance \notin HttpUser
    /\ {ConcurrencyPerUser, BreakerInvalidKeys, BreakerTicks} \subseteq Nat \ {0}
    /\ {MaxBackoffWait, MaxRetryAfter} \subseteq Nat
    /\ Wait \subseteq Nat \ {0}
    /\ NoRetryAfter \notin Nat

VARIABLES
    call,          \* what each call waits for
    active,        \* active[u]: slots taken (0: no gate)
    waiting,       \* waiting[u]: calls in line for one
    notBefore,     \* pauses, by user and of the instance
    rejectedKeys,  \* ticks for which a rejected key is not sent again
    invalidKeysAt, \* the rejections the breaker counts: whose, and the ticks they count for
    breaker,       \* breakerUntil
    answers,       \* history: rejections of a key since it is in rejectedKeys
    fresh          \* history: the pauses set in this tick

httpVars == <<call, active, waiting, notBefore, rejectedKeys, invalidKeysAt, breaker, answers, fresh>>
gates == <<active, waiting>>
pauses == <<notBefore, fresh>>
keys == <<rejectedKeys, invalidKeysAt, breaker, answers>>

(* "check" and "go": about to look at the pauses, and to send; "pause" and *)
(* "retry": asleep in honourPause, and before the second attempt.          *)
HttpStep == {"idle", "waiting", "check", "pause", "go", "sent", "retry"}
CallState == [step : HttpStep, repeatable : BOOLEAN, attempt : 1 .. 2, sleep : Nat]
HttpIdle == [step |-> "idle", repeatable |-> FALSE, attempt |-> 1, sleep |-> 0]

SlotHolders(u) ==
    {r \in HttpRequest : UserOf[r] = u /\ call[r].step \in {"check", "pause", "go", "sent", "retry"}}
InLine(u) == {r \in HttpRequest : UserOf[r] = u /\ call[r].step = "waiting"}

(* The type invariant. *)
HttpTypeOK ==
    /\ call \in [HttpRequest -> CallState]
    /\ active \in [HttpUser -> 0 .. ConcurrencyPerUser]
    /\ waiting \in [HttpUser -> Seq(HttpRequest)]
    /\ notBefore \in [HttpUser \cup {WholeInstance} -> Nat]
    /\ rejectedKeys \in [HttpKey -> 0 .. BreakerTicks]
    /\ invalidKeysAt \subseteq [of : HttpRequest, left : 1 .. BreakerTicks]
    /\ breaker \in 0 .. BreakerTicks
    /\ answers \in [HttpKey -> Nat]
    /\ fresh \subseteq HttpUser \cup {WholeInstance}

HttpInit ==
    /\ call = [r \in HttpRequest |-> HttpIdle]
    /\ active = [u \in HttpUser |-> 0]
    /\ waiting = [u \in HttpUser |-> <<>>]
    /\ notBefore = [s \in HttpUser \cup {WholeInstance} |-> 0]
    /\ rejectedKeys = [k \in HttpKey |-> 0]
    /\ invalidKeysAt = {}
    /\ breaker = 0
    /\ answers = [k \in HttpKey |-> 0]
    /\ fresh = {}
-----------------------------------------------------------------------------
(* Variants with a plausible bug are named <definition>_<bug>; each breaks *)
(* a property that the definition it stands before keeps.                  *)

keyRejected(k) == rejectedKeys[k] > 0
zoteroBreakerOpen == breaker > 0

(* The call is over: its slot goes straight to the next in line, whose     *)
(* step is then "check".                                                   *)
Release(r) ==
    LET u == UserOf[r]
    IN  IF waiting[u] = <<>>
        THEN /\ call' = [call EXCEPT ![r] = HttpIdle]
             /\ active' = [active EXCEPT ![u] = @ - 1]
             /\ UNCHANGED waiting
        ELSE /\ call' = [call EXCEPT ![r] = HttpIdle, ![Head(waiting[u])].step = "check"]
             /\ waiting' = [waiting EXCEPT ![u] = Tail(@)]
             /\ UNCHANGED active

(* zoteroFetch up to acquire; a rejected key and an open breaker are       *)
(* refused at once.  repeatable: a GET, or a POST with a write token.      *)
ZoteroFetch(r, repeatable) ==
    LET u == UserOf[r]
        free == active[u] < ConcurrencyPerUser
    IN  /\ call[r].step = "idle"
        /\ ~keyRejected(KeyOf[r])
        /\ ~zoteroBreakerOpen
        /\ call' = [call EXCEPT ![r] = [HttpIdle EXCEPT !.repeatable = repeatable,
                                                    !.step = IF free THEN "check" ELSE "waiting"]]
        /\ IF free
           THEN active' = [active EXCEPT ![u] = @ + 1] /\ UNCHANGED waiting
           ELSE waiting' = [waiting EXCEPT ![u] = Append(@, r)] /\ UNCHANGED active
        /\ UNCHANGED <<pauses, keys>>

(* The pause a request has to keep. *)
PauseOf(r) ==
    IF notBefore[UserOf[r]] > notBefore[WholeInstance] THEN notBefore[UserOf[r]] ELSE notBefore[WholeInstance]

(* honourPause: no pause, a short one to sleep through, one too long. *)
HonourPause(r) ==
    /\ call[r].step = "check"
    /\ \/ /\ PauseOf(r) = 0
          /\ call' = [call EXCEPT ![r].step = "go"]
          /\ UNCHANGED gates
       \/ /\ PauseOf(r) \in 1 .. MaxBackoffWait
          /\ call' = [call EXCEPT ![r].step = "pause", ![r].sleep = PauseOf(r)]
          /\ UNCHANGED gates
       \/ /\ PauseOf(r) > MaxBackoffWait
          /\ Release(r)
    /\ UNCHANGED <<pauses, keys>>

Wakes_withoutChecking(r) ==
    /\ call[r].step \in {"pause", "retry"}
    /\ call[r].sleep = 0
    /\ call' = [call EXCEPT ![r].step = "go"]
    /\ UNCHANGED <<gates, pauses, keys>>

(* The sleep is over, in time or late: the pauses are looked at again. *)
Wakes(r) ==
    /\ call[r].step \in {"pause", "retry"}
    /\ call[r].sleep = 0
    /\ call' = [call EXCEPT ![r].step = "check"]
    /\ UNCHANGED <<gates, pauses, keys>>

Send_unchecked(r) ==
    /\ call[r].step = "go"
    /\ call' = [call EXCEPT ![r].step = "sent"]
    /\ UNCHANGED <<gates, pauses, keys>>

(* What other calls found out since this one took its slot counts. *)
Send(r) ==
    /\ call[r].step = "go"
    /\ IF keyRejected(KeyOf[r]) \/ zoteroBreakerOpen
       THEN Release(r)
       ELSE call' = [call EXCEPT ![r].step = "sent"] /\ UNCHANGED gates
    /\ UNCHANGED <<pauses, keys>>
-----------------------------------------------------------------------------
(* Answers *)

(* pause: an earlier, longer pause stands. *)
Paused(until, scope, n) == [until EXCEPT ![scope] = IF n > @ THEN n ELSE @]

(* Every answer may carry a Backoff (0: none), which holds the instance. *)
pause(backoff, scope, n) ==
    /\ notBefore' = Paused(Paused(notBefore, WholeInstance, backoff), scope, n)
    /\ fresh' = fresh \cup {s \in DOMAIN notBefore : notBefore'[s] > notBefore[s]}

(* An answer, of use or not. *)
AnswerArrives(r, backoff) ==
    /\ call[r].step = "sent"
    /\ pause(backoff, WholeInstance, 0)
    /\ Release(r)
    /\ UNCHANGED keys

(* 429 holds the user, 503 the instance, for as long as Retry-After says,  *)
(* if there is one; the first such answer is tried again if that is short. *)
Overloaded(r, backoff, scope, retryAfter) ==
    LET seconds == IF retryAfter = NoRetryAfter THEN 0 ELSE retryAfter
        again == /\ call[r].attempt = 1
                 /\ call[r].repeatable
                 /\ retryAfter # NoRetryAfter
                 /\ seconds <= MaxRetryAfter
    IN  /\ call[r].step = "sent"
        /\ pause(backoff, scope, seconds)
        /\ IF again
           THEN /\ call' = [call EXCEPT ![r].step = "retry", ![r].attempt = 2,
                                        ![r].sleep = seconds]
                /\ UNCHANGED gates
           ELSE Release(r)
        /\ UNCHANGED keys

(* The rejection of a request is counted, with those that still count, and *)
(* enough of them trip the breaker, which starts to count anew.            *)
Counted(r) == invalidKeysAt \cup {[of |-> r, left |-> BreakerTicks]}

CountRejection(r) ==
    LET trips == Cardinality(Counted(r)) >= BreakerInvalidKeys
    IN  /\ rejectedKeys' = [rejectedKeys EXCEPT ![KeyOf[r]] = BreakerTicks]
        /\ breaker' = IF trips THEN BreakerTicks ELSE breaker
        /\ invalidKeysAt' = IF trips THEN {} ELSE Counted(r)
        /\ answers' = [answers EXCEPT ![KeyOf[r]] = 1]

noteInvalidKey_countsAnswers(r) == CountRejection(r)

(* A rejection counts towards the breaker once per key and window. *)
noteInvalidKey(r) ==
    IF keyRejected(KeyOf[r])
    THEN /\ answers' = [answers EXCEPT ![KeyOf[r]] = @ + 1]
         /\ UNCHANGED <<rejectedKeys, invalidKeysAt, breaker>>
    ELSE CountRejection(r)

(* 403 "Invalid key": the key was deleted on zotero.org. *)
InvalidKey(r, backoff) ==
    /\ call[r].step = "sent"
    /\ pause(backoff, WholeInstance, 0)
    /\ noteInvalidKey(r)
    /\ Release(r)

(* The request timed out, failed, or the caller's budget ran out while it  *)
(* was asleep or on its way.                                               *)
Ends(r) ==
    /\ call[r].step \in {"pause", "retry", "sent"}
    /\ Release(r)
    /\ UNCHANGED <<pauses, keys>>

Leaves_staysInLine(r) ==
    /\ call[r].step = "waiting"
    /\ call' = [call EXCEPT ![r] = HttpIdle]
    /\ UNCHANGED <<gates, pauses, keys>>

(* It ran out in line. *)
Leaves(r) ==
    LET line == waiting[UserOf[r]]
    IN  /\ call[r].step = "waiting"
        /\ call' = [call EXCEPT ![r] = HttpIdle]
        /\ \E i \in DOMAIN line :
              /\ line[i] = r
              /\ waiting' = [waiting EXCEPT ![UserOf[r]] =
                               SubSeq(line, 1, i - 1) \o SubSeq(line, i + 1, Len(line))]
        /\ UNCHANGED <<active, pauses, keys>>

(* Time passes only when no call has anything left to do. *)
TickLess(n) == IF n > 0 THEN n - 1 ELSE 0
HttpTick ==
    /\ \A r \in HttpRequest : call[r].step \notin {"check", "go"}
    /\ call' = [r \in HttpRequest |-> [call[r] EXCEPT !.sleep = TickLess(@)]]
    /\ notBefore' = [s \in DOMAIN notBefore |-> TickLess(notBefore[s])]
    /\ rejectedKeys' = [k \in HttpKey |-> TickLess(rejectedKeys[k])]
    /\ invalidKeysAt' = {[e EXCEPT !.left = @ - 1] : e \in {f \in invalidKeysAt : f.left > 1}}
    /\ breaker' = TickLess(breaker)
    /\ answers' = [k \in HttpKey |-> IF rejectedKeys[k] > 1 THEN answers[k] ELSE 0]
    /\ fresh' = {}
    /\ UNCHANGED gates

HttpNext ==
    \/ \E r \in HttpRequest :
         \/ \E repeatable \in BOOLEAN : ZoteroFetch(r, repeatable)
         \/ HonourPause(r) \/ Send(r) \/ Wakes(r)
         \/ \E backoff \in {0} \cup Wait :
              \/ AnswerArrives(r, backoff)
              \/ \E scope \in {UserOf[r], WholeInstance}, retryAfter \in {0, NoRetryAfter} \cup Wait :
                   Overloaded(r, backoff, scope, retryAfter)
              \/ InvalidKey(r, backoff)
         \/ Ends(r)
         \/ Leaves(r)
    \/ HttpTick

HttpSpec == HttpInit /\ [][HttpNext]_httpVars

-----------------------------------------------------------------------------
(* At most ConcurrencyPerUser calls of a user hold a slot, every slot in   *)
(* use is somebody's, and calls stand in line only while all are taken:    *)
(* handing a slot over, leaving the line and ending in any other way lose  *)
(* none and invent none (acquire, http.ts:196-231).                        *)
SlotsHeld ==
    \A u \in HttpUser :
        /\ active[u] = Cardinality(SlotHolders(u))
        /\ InLine(u) = {waiting[u][i] : i \in DOMAIN waiting[u]}
        /\ waiting[u] # <<>> => active[u] = ConcurrencyPerUser

(* "Counting keys, not responses, keeps one user's revoked key from        *)
(* pausing Zotero for all" (http.ts:37): the breaker opens, or stays open  *)
(* longer, only for that many different keys.                              *)
OneKeyNeverTrips ==
    [][breaker' > breaker
        => Cardinality({k \in HttpKey : rejectedKeys'[k] > 0}) >= BreakerInvalidKeys]_httpVars

(* "A revoked key costs at most the requests already in flight"            *)
(* (http.ts:32-33): one per slot of the users that it is sent for.         *)
RejectedKeyCosts ==
    \A k \in HttpKey :
        answers[k] <= ConcurrencyPerUser * Cardinality({UserOf[r] : r \in {q \in HttpRequest : KeyOf[q] = k}})

(* No request goes out in a pause, unless an answer set it that very       *)
(* moment: calls that slept through one, or through the wait for a slot,   *)
(* look again (http.ts:243-248).                                           *)
PauseHonoured ==
    [][\A r \in HttpRequest :
        call[r].step # "sent" /\ call'[r].step = "sent"
            => \A s \in {UserOf[r], WholeInstance} : notBefore[s] > 0 => s \in fresh]_httpVars

=============================================================================
