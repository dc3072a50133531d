---------------------------- MODULE UpstreamProofs ----------------------------
(***************************************************************************)
(* Doors to what is outside. To api.zotero.org (ZoteroHttp), what holds    *)
(* for any number of calls, keys and users and any limits: the slots, the  *)
(* cost of a rejected key, the keys that it takes to trip the breaker, and *)
(* the pauses. To e-Sbirka (EsbirkaSection, EsbirkaActs), for any bounds   *)
(* of a scan and any length of a page: the § a scan serves is whole, an    *)
(* article is all of it, the pages of an act are the act, and a window of  *)
(* a ranking is that window. To the search tools (PublicPaging), for any   *)
(* lists of any number of variants: a page is a slice of the one merge of  *)
(* them all.                                                               *)
(***************************************************************************)
EXTENDS ZoteroHttp, EsbirkaSection, EsbirkaActs, PublicPaging, DataTheorems

Holding == {"check", "pause", "go", "sent", "retry"}

-----------------------------------------------------------------------------
(* The slots.                                                              *)

LinesOnce == \A u \in HttpUser : Once(waiting[u])

Slots(u) ==
    /\ active[u] = Cardinality(SlotHolders(u))
    /\ InLine(u) = Standing(waiting[u])
    /\ waiting[u] # <<>> => active[u] = ConcurrencyPerUser
    /\ Once(waiting[u])

SlotsInv == HttpTypeOK /\ SlotsHeld /\ LinesOnce

GatesOK ==
    /\ call \in [HttpRequest -> CallState]
    /\ active \in [HttpUser -> 0 .. ConcurrencyPerUser]
    /\ waiting \in [HttpUser -> Seq(HttpRequest)]
    /\ \A u \in HttpUser : Slots(u)

LEMMA SlotsByUser == SlotsHeld /\ LinesOnce <=> \A u \in HttpUser : Slots(u)
BY DEF SlotsHeld, LinesOnce, Slots, Standing

LEMMA HoldersFinite ==
    ASSUME NEW u \in HttpUser
    PROVE  /\ IsFiniteSet(SlotHolders(u)) /\ Cardinality(SlotHolders(u)) \in Nat
           /\ IsFiniteSet(SlotHolders(u)') /\ Cardinality(SlotHolders(u)') \in Nat
<1>1. SlotHolders(u) \in SUBSET HttpRequest /\ SlotHolders(u)' \in SUBSET HttpRequest
  BY DEF SlotHolders
<1> QED
  BY <1>1, FS_Subset, FS_CardinalityType, ZoteroAssumption

LEMMA IdleType == HttpIdle \in CallState
BY DEF HttpIdle, CallState, HttpStep

LEMMA StartsType ==
    ASSUME NEW c \in CallState, NEW b \in BOOLEAN, NEW st \in HttpStep
    PROVE  LET d == [c EXCEPT !.repeatable = b, !.step = st] IN d \in CallState /\ d.step = st
BY DEF CallState

LEMMA RetryType ==
    ASSUME NEW c \in CallState, NEW n \in Nat
    PROVE  LET d == [c EXCEPT !.step = "retry", !.attempt = 2, !.sleep = n]
           IN  d \in CallState /\ d.step = "retry"
BY 2 \in 1 .. 2 DEF CallState, HttpStep

(* A step after which the same calls hold slots and the same stand in line.*)
LEMMA SlotsStay ==
    ASSUME NEW u \in HttpUser, Slots(u),
           active'[u] = active[u], waiting'[u] = waiting[u],
           \A r \in HttpRequest : UserOf[r] = u =>
              /\ call'[r].step \in Holding <=> call[r].step \in Holding
              /\ call'[r].step = "waiting" <=> call[r].step = "waiting"
    PROVE  Slots(u)'
<1>1. SlotHolders(u)' = SlotHolders(u)
  BY DEF SlotHolders, Holding
<1>2. InLine(u)' = InLine(u)
  BY DEF InLine
<1> QED
  BY <1>1, <1>2 DEF Slots

(* The end of a call that held a slot: the slot is free, or the first in   *)
(* line has it.                                                            *)
LEMMA ReleaseKeeps ==
    ASSUME SlotsInv, NEW r \in HttpRequest, call[r].step \in Holding, Release(r)
    PROVE  GatesOK'
<1> DEFINE u == UserOf[r]
<1>0. u \in HttpUser /\ \A v \in HttpUser : Slots(v)
  BY SlotsByUser, ZoteroAssumption DEF SlotsInv
<1>1. r \in SlotHolders(u)
  BY DEF SlotHolders, Holding
<1>2. active[u] \in 1 .. ConcurrencyPerUser
  <2>1. SlotHolders(u) # {} /\ Cardinality(SlotHolders(u)) # 0
    BY <1>0, <1>1, HoldersFinite, FS_EmptySet
  <2>2. active[u] \in 0 .. ConcurrencyPerUser /\ active[u] = Cardinality(SlotHolders(u))
    BY <1>0 DEF SlotsInv, HttpTypeOK, Slots
  <2> QED
    BY <2>1, <2>2, ZoteroAssumption
<1>3. CASE waiting[u] = <<>>
  <2>1. /\ call' = [call EXCEPT ![r] = HttpIdle]
        /\ active' = [active EXCEPT ![u] = @ - 1]
        /\ waiting' = waiting
    BY <1>3 DEF Release
  <2>2. /\ call' \in [HttpRequest -> CallState]
        /\ active' \in [HttpUser -> 0 .. ConcurrencyPerUser]
        /\ waiting' \in [HttpUser -> Seq(HttpRequest)]
    <3>1. call' \in [HttpRequest -> CallState]
      BY <2>1, IdleType DEF SlotsInv, HttpTypeOK
    <3>2. active[u] - 1 \in 0 .. ConcurrencyPerUser /\ active \in [HttpUser -> 0 .. ConcurrencyPerUser]
      BY <1>2, ZoteroAssumption DEF SlotsInv, HttpTypeOK
    <3>3. active' \in [HttpUser -> 0 .. ConcurrencyPerUser]
      BY <1>0, <2>1, <3>2
    <3> QED
      BY <2>1, <3>1, <3>3 DEF SlotsInv, HttpTypeOK
  <2>3. ASSUME NEW v \in HttpUser, v # u  PROVE Slots(v)'
    BY <1>0, <2>1, <2>3, SlotsStay DEF SlotsInv, HttpTypeOK
  <2>4. Slots(u)'
    <3>1. SlotHolders(u)' = SlotHolders(u) \ {r}
      BY <2>1 DEF SlotHolders, SlotsInv, HttpTypeOK, HttpIdle
    <3>2. InLine(u)' = InLine(u)
      BY <2>1 DEF InLine, SlotsInv, HttpTypeOK, HttpIdle, Holding
    <3>3. Cardinality(SlotHolders(u) \ {r}) = Cardinality(SlotHolders(u)) - 1
      BY <1>0, <1>1, HoldersFinite, FS_RemoveElement
    <3>4. active'[u] = active[u] - 1
      BY <1>0, <2>1 DEF SlotsInv, HttpTypeOK
    <3> QED
      BY <1>0, <1>3, <2>1, <3>1, <3>2, <3>3, <3>4 DEF Slots
  <2> QED
    BY <2>2, <2>3, <2>4 DEF GatesOK
<1>4. CASE waiting[u] # <<>>
  <2> DEFINE h == Head(waiting[u])
  <2>1. /\ call' = [call EXCEPT ![r] = HttpIdle, ![h].step = "check"]
        /\ waiting' = [waiting EXCEPT ![u] = Tail(@)]
        /\ active' = active
    BY <1>4 DEF Release
  <2>2. waiting[u] \in Seq(HttpRequest) /\ Once(waiting[u])
    BY <1>0 DEF SlotsInv, HttpTypeOK, Slots
  <2>3. /\ h \in HttpRequest /\ h \in Standing(waiting[u])
        /\ Tail(waiting[u]) \in Seq(HttpRequest) /\ Once(Tail(waiting[u]))
        /\ Standing(Tail(waiting[u])) = Standing(waiting[u]) \ {h}
    BY <1>4, <2>2, FrontLeaves
  <2> HIDE DEF h
  <2>a. h \in InLine(u)
    BY <1>0, <2>3 DEF Slots
  <2>4. UserOf[h] = u /\ call[h].step = "waiting" /\ h # r /\ h \notin SlotHolders(u)
    BY <2>a DEF InLine, Holding, SlotHolders
  <2>5. /\ call' \in [HttpRequest -> CallState]
        /\ active' \in [HttpUser -> 0 .. ConcurrencyPerUser]
        /\ waiting' \in [HttpUser -> Seq(HttpRequest)]
    <3>1. [call EXCEPT ![r] = HttpIdle] \in [HttpRequest -> CallState]
      BY IdleType DEF SlotsInv, HttpTypeOK
    <3>2. "check" \in HttpStep /\ \A c \in CallState : [c EXCEPT !.step = "check"] \in CallState
      BY DEF CallState, HttpStep
    <3>3. call' \in [HttpRequest -> CallState]
      BY <2>1, <2>3, <3>1, <3>2
    <3> QED
      BY <1>0, <2>1, <2>3, <3>3 DEF SlotsInv, HttpTypeOK
  <2>6. /\ call'[h].step = "check" /\ call'[r].step = "idle"
        /\ \A q \in HttpRequest \ {r, h} : call'[q] = call[q]
        /\ waiting'[u] = Tail(waiting[u]) /\ \A v \in HttpUser \ {u} : waiting'[v] = waiting[v]
    BY <1>0, <2>1, <2>3, <2>4 DEF SlotsInv, HttpTypeOK, HttpIdle
  <2>7. ASSUME NEW v \in HttpUser, v # u  PROVE Slots(v)'
    <3>1. \A q \in HttpRequest : UserOf[q] = v => call'[q] = call[q]
      BY <2>4, <2>6, <2>7
    <3> QED
      BY <1>0, <2>1, <2>6, <2>7, <3>1, SlotsStay
  <2>8. Slots(u)'
    <3>1. SlotHolders(u)' = (SlotHolders(u) \ {r}) \cup {h}
      BY <2>3, <2>4, <2>6 DEF SlotHolders
    <3>2. InLine(u)' = InLine(u) \ {h}
      BY <2>3, <2>4, <2>6 DEF InLine, Holding
    <3>3. /\ IsFiniteSet(SlotHolders(u) \ {r})
          /\ Cardinality(SlotHolders(u) \ {r}) = Cardinality(SlotHolders(u)) - 1
      BY <1>0, <1>1, HoldersFinite, FS_RemoveElement
    <3>4. /\ h \notin SlotHolders(u) \ {r}
          /\ Cardinality((SlotHolders(u) \ {r}) \cup {h}) = Cardinality(SlotHolders(u) \ {r}) + 1
      BY <2>4, <3>3, FS_AddElement
    <3>5. Cardinality(SlotHolders(u)') = Cardinality(SlotHolders(u))
      BY <1>0, <3>1, <3>3, <3>4, HoldersFinite
    <3> QED
      BY <1>0, <1>4, <2>1, <2>3, <2>6, <3>2, <3>5 DEF Slots
  <2> QED
    BY <2>5, <2>7, <2>8 DEF GatesOK
<1> QED
  BY <1>3, <1>4

(* The steps of a call that keep its slot, by the step that comes next.    *)
LEMMA SlotKept ==
    ASSUME SlotsInv, NEW r \in HttpRequest, call[r].step \in Holding, UNCHANGED gates,
           NEW c \in CallState, c.step \in Holding, call' = [call EXCEPT ![r] = c]
    PROVE  GatesOK'
<1>1. \A u \in HttpUser : Slots(u)
  BY SlotsByUser DEF SlotsInv
<1>2. active' = active /\ waiting' = waiting /\ call' \in [HttpRequest -> CallState]
  BY DEF gates, SlotsInv, HttpTypeOK
<1>3. \A q \in HttpRequest : /\ call'[q].step \in Holding <=> call[q].step \in Holding
                         /\ call'[q].step = "waiting" <=> call[q].step = "waiting"
  BY DEF SlotsInv, HttpTypeOK, Holding
<1>4. ASSUME NEW u \in HttpUser  PROVE Slots(u)'
  BY <1>1, <1>2, <1>3, SlotsStay
<1> QED
  BY <1>2, <1>4 DEF GatesOK, SlotsInv, HttpTypeOK

LEMMA CallTakesSlot ==
    ASSUME SlotsInv, NEW r \in HttpRequest, NEW repeatable \in BOOLEAN, ZoteroFetch(r, repeatable)
    PROVE  GatesOK'
<1> DEFINE u == UserOf[r]
<1>0. u \in HttpUser /\ \A v \in HttpUser : Slots(v)
  BY SlotsByUser, ZoteroAssumption DEF SlotsInv
<1>1. /\ call \in [HttpRequest -> CallState] /\ active \in [HttpUser -> 0 .. ConcurrencyPerUser]
      /\ waiting \in [HttpUser -> Seq(HttpRequest)] /\ call[r].step = "idle"
      /\ ConcurrencyPerUser \in Nat /\ active[u] \in 0 .. ConcurrencyPerUser
  BY <1>0, ZoteroAssumption DEF SlotsInv, HttpTypeOK, ZoteroFetch
<1>2. CASE active[u] < ConcurrencyPerUser
  <2> DEFINE c == [HttpIdle EXCEPT !.repeatable = repeatable, !.step = "check"]
  <2>1. call' = [call EXCEPT ![r] = c] /\ active' = [active EXCEPT ![u] = @ + 1] /\ waiting' = waiting
    BY <1>2 DEF ZoteroFetch
  <2>2. c \in CallState /\ c.step = "check"
    BY IdleType, StartsType DEF HttpStep
  <2> HIDE DEF c
  <2>3. /\ call' \in [HttpRequest -> CallState] /\ active' \in [HttpUser -> 0 .. ConcurrencyPerUser]
        /\ waiting' \in [HttpUser -> Seq(HttpRequest)] /\ active'[u] = active[u] + 1
        /\ call'[r].step = "check" /\ \A q \in HttpRequest \ {r} : call'[q] = call[q]
        /\ \A v \in HttpUser \ {u} : active'[v] = active[v]
    BY <1>0, <1>1, <1>2, <2>1, <2>2
  <2>4. ASSUME NEW v \in HttpUser, v # u  PROVE Slots(v)'
    <3>1. \A q \in HttpRequest : UserOf[q] = v => call'[q] = call[q]
      BY <2>3, <2>4
    <3> QED
      BY <1>0, <2>1, <2>3, <2>4, <3>1, SlotsStay
  <2>5. Slots(u)'
    <3>1. SlotHolders(u)' = SlotHolders(u) \cup {r} /\ r \notin SlotHolders(u)
      BY <1>1, <2>3 DEF SlotHolders
    <3>2. InLine(u)' = InLine(u)
      BY <1>1, <2>3 DEF InLine
    <3>3. Cardinality(SlotHolders(u) \cup {r}) = Cardinality(SlotHolders(u)) + 1
      BY <1>0, <3>1, HoldersFinite, FS_AddElement
    <3>4. waiting[u] = <<>>
      BY <1>0, <1>1, <1>2 DEF Slots
    <3> QED
      BY <1>0, <2>1, <2>3, <3>1, <3>2, <3>3, <3>4 DEF Slots
  <2> QED
    BY <2>3, <2>4, <2>5 DEF GatesOK
<1>3. CASE ~(active[u] < ConcurrencyPerUser)
  <2> DEFINE c == [HttpIdle EXCEPT !.repeatable = repeatable, !.step = "waiting"]
  <2>1. call' = [call EXCEPT ![r] = c] /\ waiting' = [waiting EXCEPT ![u] = Append(@, r)] /\ active' = active
    BY <1>3 DEF ZoteroFetch
  <2>2. c \in CallState /\ c.step = "waiting"
    BY IdleType, StartsType DEF HttpStep
  <2> HIDE DEF c
  <2>3. waiting[u] \in Seq(HttpRequest) /\ Once(waiting[u]) /\ r \notin Standing(waiting[u])
    BY <1>0, <1>1 DEF Slots, InLine
  <2>4. /\ Append(waiting[u], r) \in Seq(HttpRequest) /\ Append(waiting[u], r) # <<>>
        /\ Once(Append(waiting[u], r))
        /\ Standing(Append(waiting[u], r)) = Standing(waiting[u]) \cup {r}
    BY <2>3, JoinsLine
  <2>5. /\ call' \in [HttpRequest -> CallState] /\ waiting' \in [HttpUser -> Seq(HttpRequest)]
        /\ waiting'[u] = Append(waiting[u], r)
        /\ call'[r].step = "waiting" /\ \A q \in HttpRequest \ {r} : call'[q] = call[q]
        /\ \A v \in HttpUser \ {u} : waiting'[v] = waiting[v]
    BY <1>0, <1>1, <2>1, <2>2, <2>4
  <2>6. ASSUME NEW v \in HttpUser, v # u  PROVE Slots(v)'
    <3>1. \A q \in HttpRequest : UserOf[q] = v => call'[q] = call[q]
      BY <2>5, <2>6
    <3> QED
      BY <1>0, <2>1, <2>5, <2>6, <3>1, SlotsStay
  <2>7. Slots(u)'
    <3>1. SlotHolders(u)' = SlotHolders(u)
      BY <1>1, <2>5 DEF SlotHolders
    <3>2. InLine(u)' = InLine(u) \cup {r}
      BY <1>1, <2>5 DEF InLine
    <3> QED
      BY <1>0, <1>1, <1>3, <2>1, <2>4, <2>5, <3>1, <3>2 DEF Slots
  <2> QED
    BY <1>1, <2>1, <2>5, <2>6, <2>7 DEF GatesOK
<1> QED
  BY <1>2, <1>3

LEMMA LeavesKeeps ==
    ASSUME SlotsInv, NEW r \in HttpRequest, Leaves(r)
    PROVE  GatesOK'
<1> DEFINE u == UserOf[r]
           line == waiting[u]
<1>0. u \in HttpUser /\ \A v \in HttpUser : Slots(v)
  BY SlotsByUser, ZoteroAssumption DEF SlotsInv
<1>1. /\ call \in [HttpRequest -> CallState] /\ active \in [HttpUser -> 0 .. ConcurrencyPerUser]
      /\ waiting \in [HttpUser -> Seq(HttpRequest)] /\ call[r].step = "waiting"
      /\ call' = [call EXCEPT ![r] = HttpIdle] /\ active' = active
  BY DEF SlotsInv, HttpTypeOK, Leaves
<1>2. PICK i \in DOMAIN line :
         /\ line[i] = r
         /\ waiting' = [waiting EXCEPT ![u] = SubSeq(line, 1, i - 1) \o SubSeq(line, i + 1, Len(line))]
  BY DEF Leaves
<1> DEFINE rest == SubSeq(line, 1, i - 1) \o SubSeq(line, i + 1, Len(line))
<1>3. line \in Seq(HttpRequest) /\ Once(line)
  BY <1>0, <1>1 DEF Slots
<1>4. rest \in Seq(HttpRequest) /\ Once(rest) /\ Standing(rest) = Standing(line) \ {r}
  BY <1>2, <1>3, SpliceLine
<1>5. waiting' = [waiting EXCEPT ![u] = rest]
  BY <1>2
<1> HIDE DEF rest
<1>6. /\ call' \in [HttpRequest -> CallState] /\ waiting' \in [HttpUser -> Seq(HttpRequest)] /\ waiting'[u] = rest
      /\ call'[r].step = "idle" /\ \A q \in HttpRequest \ {r} : call'[q] = call[q]
      /\ \A v \in HttpUser \ {u} : waiting'[v] = waiting[v]
  <2>1. call' \in [HttpRequest -> CallState] /\ call'[r].step = "idle" /\ \A q \in HttpRequest \ {r} : call'[q] = call[q]
    BY <1>1, IdleType DEF HttpIdle
  <2> QED
    BY <1>0, <1>1, <1>4, <1>5, <2>1
<1>7. ASSUME NEW v \in HttpUser, v # u  PROVE Slots(v)'
  <2>1. \A q \in HttpRequest : UserOf[q] = v => call'[q] = call[q]
    BY <1>6, <1>7
  <2> QED
    BY <1>0, <1>1, <1>6, <1>7, <2>1, SlotsStay
<1>8. Slots(u)'
  <2>1. SlotHolders(u)' = SlotHolders(u)
    BY <1>1, <1>6 DEF SlotHolders
  <2>2. InLine(u)' = InLine(u) \ {r}
    BY <1>1, <1>6 DEF InLine
  <2>3. line # <<>>
    BY <1>2
  <2> QED
    BY <1>0, <1>1, <1>4, <1>6, <2>1, <2>2, <2>3 DEF Slots
<1> QED
  BY <1>1, <1>6, <1>7, <1>8 DEF GatesOK

LEMMA GatesStep == SlotsInv /\ [HttpNext]_httpVars => GatesOK'
<1> SUFFICES ASSUME SlotsInv, [HttpNext]_httpVars  PROVE GatesOK'
  OBVIOUS
<1> USE DEF Holding
<1>1. ASSUME NEW r \in HttpRequest, NEW repeatable \in BOOLEAN, ZoteroFetch(r, repeatable)  PROVE GatesOK'
  BY <1>1, CallTakesSlot
<1>2. ASSUME NEW r \in HttpRequest, HonourPause(r)  PROVE GatesOK'
  <2>1. call[r].step = "check" /\ call[r] \in CallState
    BY <1>2 DEF HonourPause, SlotsInv, HttpTypeOK
  <2>2. CASE Release(r)
    BY <2>1, <2>2, ReleaseKeeps
  <2>3. CASE call' = [call EXCEPT ![r].step = "go"] /\ UNCHANGED gates
    <3>1. /\ [call[r] EXCEPT !.step = "go"] \in CallState
          /\ [call[r] EXCEPT !.step = "go"].step \in Holding
      BY <2>1 DEF CallState, HttpStep
    <3> QED
      BY <2>1, <2>3, <3>1, SlotKept
  <2>4. CASE PauseOf(r) \in Nat /\ call' = [call EXCEPT ![r].step = "pause", ![r].sleep = PauseOf(r)] /\ UNCHANGED gates
    <3> DEFINE c == [call[r] EXCEPT !.step = "pause", !.sleep = PauseOf(r)]
    <3>1. c \in CallState /\ c.step \in Holding
      BY <2>1, <2>4 DEF CallState, HttpStep
    <3>2. call' = [call EXCEPT ![r] = c]
      BY <2>4 DEF SlotsInv, HttpTypeOK
    <3> QED
      BY <2>1, <2>4, <3>1, <3>2, SlotKept
  <2> QED
    BY <1>2, <2>2, <2>3, <2>4, ZoteroAssumption DEF HonourPause
<1>3. ASSUME NEW r \in HttpRequest, Send(r)  PROVE GatesOK'
  <2>1. call[r].step = "go" /\ call[r] \in CallState
    BY <1>3 DEF Send, SlotsInv, HttpTypeOK
  <2>2. CASE Release(r)
    BY <2>1, <2>2, ReleaseKeeps
  <2>3. CASE call' = [call EXCEPT ![r].step = "sent"] /\ UNCHANGED gates
    <3>1. /\ [call[r] EXCEPT !.step = "sent"] \in CallState
          /\ [call[r] EXCEPT !.step = "sent"].step \in Holding
      BY <2>1 DEF CallState, HttpStep
    <3> QED
      BY <2>1, <2>3, <3>1, SlotKept
  <2> QED
    BY <1>3, <2>2, <2>3 DEF Send
<1>4. ASSUME NEW r \in HttpRequest, Wakes(r)  PROVE GatesOK'
  <2>1. call[r].step \in Holding /\ call[r] \in CallState /\ UNCHANGED gates
        /\ call' = [call EXCEPT ![r].step = "check"]
    BY <1>4 DEF Wakes, SlotsInv, HttpTypeOK
  <2>2. /\ [call[r] EXCEPT !.step = "check"] \in CallState
        /\ [call[r] EXCEPT !.step = "check"].step \in Holding
    BY <2>1 DEF CallState, HttpStep
  <2> QED
    BY <2>1, <2>2, SlotKept
<1>5. ASSUME NEW r \in HttpRequest, NEW backoff \in {0} \cup Wait, AnswerArrives(r, backoff)  PROVE GatesOK'
  BY <1>5, ReleaseKeeps DEF AnswerArrives
<1>6. ASSUME NEW r \in HttpRequest, NEW backoff \in {0} \cup Wait, NEW scope \in {UserOf[r], WholeInstance},
             NEW retryAfter \in {0, NoRetryAfter} \cup Wait, Overloaded(r, backoff, scope, retryAfter)
      PROVE GatesOK'
  <2> DEFINE seconds == IF retryAfter = NoRetryAfter THEN 0 ELSE retryAfter
             c == [call[r] EXCEPT !.step = "retry", !.attempt = 2, !.sleep = seconds]
  <2>1. call[r].step = "sent" /\ call[r] \in CallState /\ seconds \in Nat
    BY <1>6, ZoteroAssumption DEF Overloaded, SlotsInv, HttpTypeOK
  <2>2. CASE Release(r)
    BY <2>1, <2>2, ReleaseKeeps
  <2>3. CASE call' = [call EXCEPT ![r].step = "retry", ![r].attempt = 2, ![r].sleep = seconds] /\ UNCHANGED gates
    <3> HIDE DEF seconds
    <3>1. c \in CallState /\ c.step \in Holding
      BY <2>1, RetryType
    <3>2. call' = [call EXCEPT ![r] = c]
      BY <2>3 DEF SlotsInv, HttpTypeOK
    <3> QED
      BY <2>1, <2>3, <3>1, <3>2, SlotKept
  <2> QED
    BY <1>6, <2>2, <2>3 DEF Overloaded
<1>7. ASSUME NEW r \in HttpRequest, NEW backoff \in {0} \cup Wait, InvalidKey(r, backoff)  PROVE GatesOK'
  BY <1>7, ReleaseKeeps DEF InvalidKey
<1>8. ASSUME NEW r \in HttpRequest, Ends(r)  PROVE GatesOK'
  BY <1>8, ReleaseKeeps DEF Ends
<1>9. ASSUME NEW r \in HttpRequest, Leaves(r)  PROVE GatesOK'
  BY <1>9, LeavesKeeps
<1>10. ASSUME call' \in [HttpRequest -> CallState], UNCHANGED gates,
              \A r \in HttpRequest : call'[r].step = call[r].step
       PROVE  GatesOK'
  <2>1. \A u \in HttpUser : Slots(u)
    BY SlotsByUser DEF SlotsInv
  <2>2. \A u \in HttpUser : Slots(u)'
    BY <1>10, <2>1, SlotsStay DEF gates
  <2> QED
    BY <1>10, <2>2 DEF GatesOK, gates, SlotsInv, HttpTypeOK
<1>11. CASE HttpTick
  <2>1. call' = [r \in HttpRequest |-> [call[r] EXCEPT !.sleep = TickLess(@)]] /\ UNCHANGED gates
    BY <1>11 DEF HttpTick
  <2>2. ASSUME NEW c \in CallState
        PROVE  [c EXCEPT !.sleep = TickLess(@)] \in CallState /\ [c EXCEPT !.sleep = TickLess(@)].step = c.step
    BY DEF CallState, TickLess
  <2>3. call' \in [HttpRequest -> CallState] /\ \A r \in HttpRequest : call'[r].step = call[r].step
    BY <2>1, <2>2 DEF SlotsInv, HttpTypeOK
  <2> QED
    BY <1>10, <2>1, <2>3
<1>12. CASE UNCHANGED httpVars
  BY <1>10, <1>12 DEF httpVars, gates, SlotsInv, HttpTypeOK
<1> QED
  BY <1>1, <1>2, <1>3, <1>4, <1>5, <1>6, <1>7, <1>8, <1>9, <1>11, <1>12 DEF HttpNext

-----------------------------------------------------------------------------
(* The pauses, and the types of what is left.                              *)

PausesOK ==
    /\ notBefore \in [HttpUser \cup {WholeInstance} -> Nat]
    /\ fresh \subseteq HttpUser \cup {WholeInstance}

KeysOK ==
    /\ rejectedKeys \in [HttpKey -> 0 .. BreakerTicks]
    /\ invalidKeysAt \subseteq [of : HttpRequest, left : 1 .. BreakerTicks]
    /\ breaker \in 0 .. BreakerTicks
    /\ answers \in [HttpKey -> Nat]

LEMMA TypeByParts == HttpTypeOK /\ (\A u \in HttpUser : Slots(u)) <=> GatesOK /\ PausesOK /\ KeysOK
BY DEF HttpTypeOK, GatesOK, PausesOK, KeysOK

LEMMA PauseKeeps ==
    ASSUME PausesOK, NEW backoff \in Nat, NEW scope \in HttpUser \cup {WholeInstance}, NEW n \in Nat,
           pause(backoff, scope, n)
    PROVE  /\ PausesOK'
           /\ fresh \subseteq fresh'
           /\ \A s \in HttpUser \cup {WholeInstance} : notBefore'[s] = notBefore[s] \/ s \in fresh'
<1> DEFINE first == Paused(notBefore, WholeInstance, backoff)
<1>1. first \in [HttpUser \cup {WholeInstance} -> Nat] /\ \A s \in HttpUser \cup {WholeInstance} : first[s] >= notBefore[s]
  BY DEF PausesOK, Paused
<1> HIDE DEF first
<1>2. notBefore' = Paused(first, scope, n)
  BY DEF pause, first
<1>3. /\ notBefore' \in [HttpUser \cup {WholeInstance} -> Nat]
      /\ \A s \in HttpUser \cup {WholeInstance} : notBefore'[s] >= first[s]
  BY <1>1, <1>2 DEF Paused
<1>4. ASSUME NEW s \in HttpUser \cup {WholeInstance}
      PROVE  notBefore[s] \in Nat /\ first[s] \in Nat /\ notBefore'[s] \in Nat /\ notBefore'[s] >= notBefore[s]
  BY <1>1, <1>3 DEF PausesOK
<1>5. fresh' = fresh \cup {s \in HttpUser \cup {WholeInstance} : notBefore'[s] > notBefore[s]}
  BY DEF pause, PausesOK
<1> QED
  BY <1>3, <1>4, <1>5 DEF PausesOK

LEMMA NoteKeeps ==
    ASSUME KeysOK, NEW r \in HttpRequest, noteInvalidKey(r)
    PROVE  KeysOK'
<1>1. KeyOf[r] \in HttpKey /\ BreakerTicks \in Nat \ {0}
  BY ZoteroAssumption
<1>2. CASE keyRejected(KeyOf[r])
  <2>1. /\ answers' = [answers EXCEPT ![KeyOf[r]] = @ + 1]
        /\ UNCHANGED <<rejectedKeys, invalidKeysAt, breaker>>
    BY <1>2 DEF noteInvalidKey
  <2> QED
    BY <1>1, <2>1 DEF KeysOK
<1>3. CASE ~keyRejected(KeyOf[r])
  <2>1. CountRejection(r)
    BY <1>3 DEF noteInvalidKey
  <2>2. Counted(r) \subseteq [of : HttpRequest, left : 1 .. BreakerTicks]
    BY <1>1 DEF Counted, KeysOK
  <2> QED
    BY <1>1, <2>1, <2>2 DEF CountRejection, KeysOK
<1> QED
  BY <1>2, <1>3

LEMMA TickTypes ==
    ASSUME PausesOK, KeysOK, HttpTick
    PROVE  PausesOK' /\ KeysOK'
<1>1. BreakerTicks \in Nat /\ \A n \in Nat : TickLess(n) \in Nat /\ \A b \in Nat : n <= b => TickLess(n) <= b
  BY ZoteroAssumption DEF TickLess
<1>2. PausesOK'
  BY <1>1 DEF HttpTick, PausesOK
<1>3. rejectedKeys' \in [HttpKey -> 0 .. BreakerTicks] /\ breaker' \in 0 .. BreakerTicks /\ answers' \in [HttpKey -> Nat]
  BY <1>1 DEF HttpTick, KeysOK
<1>4. ASSUME NEW e \in invalidKeysAt'  PROVE e \in [of : HttpRequest, left : 1 .. BreakerTicks]
  <2>1. PICK f \in invalidKeysAt : f.left > 1 /\ e = [f EXCEPT !.left = @ - 1]
    BY <1>4 DEF HttpTick
  <2> QED
    BY <1>1, <2>1 DEF KeysOK
<1> QED
  BY <1>2, <1>3, <1>4 DEF KeysOK

LEMMA WaitType == \A backoff \in {0} \cup Wait : backoff \in Nat
BY ZoteroAssumption

LEMMA TypeStep == SlotsInv /\ [HttpNext]_httpVars => SlotsInv'
<1> SUFFICES ASSUME SlotsInv, [HttpNext]_httpVars  PROVE SlotsInv'
  OBVIOUS
<1>1. GatesOK' /\ PausesOK /\ KeysOK
  BY GatesStep, TypeByParts, SlotsByUser DEF SlotsInv
<1>2. PausesOK' /\ KeysOK'
  <2>1. ASSUME UNCHANGED pauses  PROVE PausesOK'
    BY <1>1, <2>1 DEF pauses, PausesOK
  <2>2. ASSUME UNCHANGED keys  PROVE KeysOK'
    BY <1>1, <2>2 DEF keys, KeysOK
  <2>3. ASSUME NEW r \in HttpRequest, NEW repeatable \in BOOLEAN, ZoteroFetch(r, repeatable)  PROVE UNCHANGED <<pauses, keys>>
    BY <2>3 DEF ZoteroFetch
  <2>4. ASSUME NEW r \in HttpRequest, HonourPause(r) \/ Send(r) \/ Wakes(r) \/ Ends(r) \/ Leaves(r)
        PROVE UNCHANGED <<pauses, keys>>
    BY <2>4 DEF HonourPause, Send, Wakes, Ends, Leaves
  <2>5. ASSUME NEW r \in HttpRequest, NEW backoff \in {0} \cup Wait, AnswerArrives(r, backoff)  PROVE PausesOK' /\ KeysOK'
    BY <1>1, <2>2, <2>5, PauseKeeps, WaitType DEF AnswerArrives
  <2>6. ASSUME NEW r \in HttpRequest, NEW backoff \in {0} \cup Wait, NEW scope \in {UserOf[r], WholeInstance},
               NEW retryAfter \in {0, NoRetryAfter} \cup Wait, Overloaded(r, backoff, scope, retryAfter)
        PROVE PausesOK' /\ KeysOK'
    <3>1. (IF retryAfter = NoRetryAfter THEN 0 ELSE retryAfter) \in Nat /\ scope \in HttpUser \cup {WholeInstance}
      BY ZoteroAssumption
    <3> QED
      BY <1>1, <2>2, <2>6, <3>1, PauseKeeps, WaitType DEF Overloaded
  <2>7. ASSUME NEW r \in HttpRequest, NEW backoff \in {0} \cup Wait, InvalidKey(r, backoff)  PROVE PausesOK' /\ KeysOK'
    BY <1>1, <2>7, PauseKeeps, NoteKeeps, WaitType DEF InvalidKey
  <2>8. CASE HttpTick
    BY <1>1, <2>8, TickTypes
  <2>9. CASE UNCHANGED httpVars
    BY <2>1, <2>2, <2>9 DEF httpVars, pauses, keys
  <2> QED
    BY <2>1, <2>2, <2>3, <2>4, <2>5, <2>6, <2>7, <2>8, <2>9 DEF HttpNext
<1>3. HttpTypeOK' /\ \A u \in HttpUser : Slots(u)'
  BY <1>1, <1>2 DEF HttpTypeOK, GatesOK, PausesOK, KeysOK
<1> QED
  BY <1>3, SlotsByUser DEF SlotsInv, SlotsHeld, LinesOnce, Slots, Standing

LEMMA SlotsInit == HttpInit => SlotsInv
<1> SUFFICES ASSUME HttpInit  PROVE SlotsInv
  OBVIOUS
<1>1. HttpTypeOK
  BY IdleType, ZoteroAssumption DEF HttpInit, HttpTypeOK
<1>2. ASSUME NEW u \in HttpUser  PROVE Slots(u)
  <2>1. \A r \in HttpRequest : call[r].step = "idle"
    BY DEF HttpInit, HttpIdle
  <2>2. SlotHolders(u) = {} /\ InLine(u) = {}
    BY <2>1 DEF SlotHolders, InLine
  <2>3. waiting[u] = <<>> /\ active[u] = 0
    BY DEF HttpInit
  <2> QED
    BY <2>2, <2>3, FS_EmptySet DEF Slots, Standing, Once
<1> QED
  BY <1>1, <1>2, SlotsByUser DEF SlotsInv

(* Whatever calls do, every slot in use is somebody's, nobody stands in    *)
(* line twice or while a slot is free, and nobody who waits is forgotten.  *)
THEOREM SlotsAreHeld == HttpSpec => []SlotsHeld
<1>1. SlotsInv => SlotsHeld
  BY DEF SlotsInv
<1> QED
  BY SlotsInit, TypeStep, <1>1, PTL DEF HttpSpec

(* The type invariant, for any limits and any waits that are asked for.    *)
THEOREM ZoteroTypes == HttpSpec => []HttpTypeOK
<1>1. SlotsInv => HttpTypeOK
  BY DEF SlotsInv
<1> QED
  BY SlotsInit, TypeStep, <1>1, PTL DEF HttpSpec
-----------------------------------------------------------------------------
(* What a step leaves of the other calls: those that send, or are about    *)
(* to, are as they were, or are the call whose step it is.                 *)

LEMMA ReleaseTouches ==
    ASSUME SlotsInv, NEW r \in HttpRequest, call[r].step \in Holding, Release(r)
    PROVE  /\ call'[r].step = "idle"
           /\ \A q \in HttpRequest : call'[q].step \in {"go", "sent"} => q # r /\ call'[q] = call[q]
           /\ \A q \in HttpRequest \ {r} : call[q].step \in {"go", "sent"} => call'[q] = call[q]
<1> DEFINE u == UserOf[r]
<1>0. u \in HttpUser /\ call \in [HttpRequest -> CallState] /\ Slots(u) /\ waiting[u] \in Seq(HttpRequest)
  BY SlotsByUser, ZoteroAssumption DEF SlotsInv, HttpTypeOK
<1>1. CASE waiting[u] = <<>>
  BY <1>0, <1>1 DEF Release, HttpIdle
<1>2. CASE waiting[u] # <<>>
  <2> DEFINE h == Head(waiting[u])
  <2>1. call' = [call EXCEPT ![r] = HttpIdle, ![h].step = "check"]
    BY <1>2 DEF Release
  <2>2. h \in InLine(u)
    BY <1>0, <1>2, FrontLeaves DEF Slots
  <2> HIDE DEF h
  <2>3. h \in HttpRequest /\ call[h].step = "waiting" /\ h # r
    BY <2>2 DEF InLine, Holding
  <2> QED
    BY <1>0, <2>1, <2>3 DEF HttpIdle, CallState
<1> QED
  BY <1>1, <1>2

(* Whoever is about to send after a step was so before, or has just looked *)
(* at the pauses.                                                          *)
LEMMA WhoGoes ==
    ASSUME SlotsInv, [HttpNext]_httpVars, NEW q \in HttpRequest, call'[q].step = "go"
    PROVE  call[q].step = "go" \/ (HonourPause(q) /\ PauseOf(q) = 0)
<1> DEFINE P == call[q].step = "go" \/ (HonourPause(q) /\ PauseOf(q) = 0)
<1>0. call \in [HttpRequest -> CallState]
  BY DEF SlotsInv, HttpTypeOK
<1>1. ASSUME NEW r \in HttpRequest, call[r].step \in Holding, Release(r)  PROVE call[q].step = "go"
  BY <1>1, ReleaseTouches
<1>2. ASSUME NEW r \in HttpRequest, NEW repeatable \in BOOLEAN, ZoteroFetch(r, repeatable)  PROVE P
  BY <1>0, <1>2 DEF ZoteroFetch, HttpIdle
<1>3. ASSUME NEW r \in HttpRequest, HonourPause(r)  PROVE P
  <2>1. CASE Release(r)
    BY <1>1, <1>3, <2>1 DEF HonourPause, Holding
  <2>2. CASE PauseOf(r) = 0 /\ call' = [call EXCEPT ![r].step = "go"]
    <3>1. q = r \/ call'[q] = call[q]
      BY <1>0, <2>2
    <3> QED
      BY <1>3, <2>2, <3>1
  <2>3. CASE \E n : call' = [call EXCEPT ![r].step = "pause", ![r].sleep = n]
    BY <1>0, <2>3
  <2> QED
    BY <1>3, <2>1, <2>2, <2>3 DEF HonourPause
<1>4. ASSUME NEW r \in HttpRequest, Send(r)  PROVE P
  BY <1>0, <1>1, <1>4 DEF Send, Holding
<1>5. ASSUME NEW r \in HttpRequest, Wakes(r)  PROVE P
  BY <1>0, <1>5 DEF Wakes
<1>6. ASSUME NEW r \in HttpRequest, NEW backoff \in {0} \cup Wait, AnswerArrives(r, backoff)  PROVE P
  BY <1>1, <1>6 DEF AnswerArrives, Holding
<1>7. ASSUME NEW r \in HttpRequest, NEW backoff \in {0} \cup Wait, NEW scope \in {UserOf[r], WholeInstance},
             NEW retryAfter \in {0, NoRetryAfter} \cup Wait, Overloaded(r, backoff, scope, retryAfter)
      PROVE P
  <2>1. CASE Release(r)
    BY <1>1, <1>7, <2>1 DEF Overloaded, Holding
  <2>2. CASE \E n : call' = [call EXCEPT ![r].step = "retry", ![r].attempt = 2, ![r].sleep = n]
    BY <1>0, <2>2
  <2> QED
    BY <1>7, <2>1, <2>2 DEF Overloaded
<1>8. ASSUME NEW r \in HttpRequest, NEW backoff \in {0} \cup Wait, InvalidKey(r, backoff)  PROVE P
  BY <1>1, <1>8 DEF InvalidKey, Holding
<1>9. ASSUME NEW r \in HttpRequest, Ends(r)  PROVE P
  BY <1>1, <1>9 DEF Ends, Holding
<1>10. ASSUME NEW r \in HttpRequest, Leaves(r)  PROVE P
  BY <1>0, <1>10 DEF Leaves, HttpIdle
<1>11. CASE HttpTick
  BY <1>0, <1>11 DEF HttpTick, CallState
<1>12. CASE UNCHANGED httpVars
  BY <1>12 DEF httpVars
<1> QED
  BY <1>2, <1>3, <1>4, <1>5, <1>6, <1>7, <1>8, <1>9, <1>10, <1>11, <1>12 DEF HttpNext

(* Likewise for the calls that have sent: only Send adds one.              *)
LEMMA WhoSent ==
    ASSUME SlotsInv, [HttpNext]_httpVars, NEW q \in HttpRequest, call'[q].step = "sent"
    PROVE  \/ call[q].step = "sent"
           \/ /\ Send(q) /\ call[q].step = "go"
              /\ ~keyRejected(KeyOf[q])
<1>0. call \in [HttpRequest -> CallState]
  BY DEF SlotsInv, HttpTypeOK
<1> DEFINE P == call[q].step = "sent" \/ (Send(q) /\ call[q].step = "go" /\ ~keyRejected(KeyOf[q]))
<1>1. ASSUME NEW r \in HttpRequest, call[r].step \in Holding, Release(r)  PROVE call[q].step = "sent"
  BY <1>1, ReleaseTouches
<1>2. ASSUME NEW r \in HttpRequest, NEW repeatable \in BOOLEAN, ZoteroFetch(r, repeatable)  PROVE P
  BY <1>0, <1>2 DEF ZoteroFetch, HttpIdle
<1>3. ASSUME NEW r \in HttpRequest, HonourPause(r)  PROVE P
  <2>1. CASE Release(r)
    BY <1>1, <1>3, <2>1 DEF HonourPause, Holding
  <2>2. CASE call' = [call EXCEPT ![r].step = "go"]
    BY <1>0, <2>2
  <2>3. CASE \E n : call' = [call EXCEPT ![r].step = "pause", ![r].sleep = n]
    BY <1>0, <2>3
  <2> QED
    BY <1>3, <2>1, <2>2, <2>3 DEF HonourPause
<1>4. ASSUME NEW r \in HttpRequest, Send(r)  PROVE P
  <2>1. CASE Release(r)
    BY <1>1, <1>4, <2>1 DEF Send, Holding
  <2>2. CASE ~keyRejected(KeyOf[r]) /\ call' = [call EXCEPT ![r].step = "sent"]
    BY <1>0, <1>4, <2>2 DEF Send
  <2> QED
    BY <1>4, <2>1, <2>2 DEF Send
<1>5. ASSUME NEW r \in HttpRequest, Wakes(r)  PROVE P
  BY <1>0, <1>5 DEF Wakes
<1>6. ASSUME NEW r \in HttpRequest, NEW backoff \in {0} \cup Wait, AnswerArrives(r, backoff)  PROVE P
  BY <1>1, <1>6 DEF AnswerArrives, Holding
<1>7. ASSUME NEW r \in HttpRequest, NEW backoff \in {0} \cup Wait, NEW scope \in {UserOf[r], WholeInstance},
             NEW retryAfter \in {0, NoRetryAfter} \cup Wait, Overloaded(r, backoff, scope, retryAfter)
      PROVE P
  <2>1. CASE Release(r)
    BY <1>1, <1>7, <2>1 DEF Overloaded, Holding
  <2>2. CASE \E n : call' = [call EXCEPT ![r].step = "retry", ![r].attempt = 2, ![r].sleep = n]
    BY <1>0, <2>2
  <2> QED
    BY <1>7, <2>1, <2>2 DEF Overloaded
<1>8. ASSUME NEW r \in HttpRequest, NEW backoff \in {0} \cup Wait, InvalidKey(r, backoff)  PROVE P
  BY <1>1, <1>8 DEF InvalidKey, Holding
<1>9. ASSUME NEW r \in HttpRequest, Ends(r)  PROVE P
  BY <1>1, <1>9 DEF Ends, Holding
<1>10. ASSUME NEW r \in HttpRequest, Leaves(r)  PROVE P
  BY <1>0, <1>10 DEF Leaves, HttpIdle
<1>11. CASE HttpTick
  BY <1>0, <1>11 DEF HttpTick, CallState
<1>12. CASE UNCHANGED httpVars
  BY <1>12 DEF httpVars
<1> QED
  BY <1>2, <1>3, <1>4, <1>5, <1>6, <1>7, <1>8, <1>9, <1>10, <1>11, <1>12 DEF HttpNext

-----------------------------------------------------------------------------
(* A call about to send has no pause to keep but those of this very tick.  *)
GoIsClear ==
    \A r \in HttpRequest : call[r].step = "go" =>
        \A s \in {UserOf[r], WholeInstance} : notBefore[s] > 0 => s \in fresh

LEMMA PausesGrow ==
    ASSUME SlotsInv, [HttpNext]_httpVars, \E q \in HttpRequest : call[q].step = "go"
    PROVE  /\ fresh \subseteq fresh'
           /\ \A s \in HttpUser \cup {WholeInstance} : notBefore'[s] = notBefore[s] \/ s \in fresh'
<1> DEFINE P == /\ fresh \subseteq fresh'
                /\ \A s \in HttpUser \cup {WholeInstance} : notBefore'[s] = notBefore[s] \/ s \in fresh'
<1>1. PausesOK
  BY DEF SlotsInv, HttpTypeOK, PausesOK
<1>2. ASSUME UNCHANGED pauses  PROVE P
  BY <1>2 DEF pauses
<1>3. ASSUME NEW r \in HttpRequest, NEW repeatable \in BOOLEAN, ZoteroFetch(r, repeatable)  PROVE P
  BY <1>2, <1>3 DEF ZoteroFetch
<1>4. ASSUME NEW r \in HttpRequest, HonourPause(r) \/ Send(r) \/ Wakes(r) \/ Ends(r) \/ Leaves(r)  PROVE P
  BY <1>2, <1>4 DEF HonourPause, Send, Wakes, Ends, Leaves
<1>5. ASSUME NEW r \in HttpRequest, NEW backoff \in {0} \cup Wait,
             AnswerArrives(r, backoff) \/ InvalidKey(r, backoff)
      PROVE  P
  <2>1. pause(backoff, WholeInstance, 0)
    BY <1>5 DEF AnswerArrives, InvalidKey
  <2> QED
    BY <1>1, <2>1, PauseKeeps, WaitType
<1>6. ASSUME NEW r \in HttpRequest, NEW backoff \in {0} \cup Wait, NEW scope \in {UserOf[r], WholeInstance},
             NEW retryAfter \in {0, NoRetryAfter} \cup Wait, Overloaded(r, backoff, scope, retryAfter)
      PROVE P
  <2>1. (IF retryAfter = NoRetryAfter THEN 0 ELSE retryAfter) \in Nat /\ scope \in HttpUser \cup {WholeInstance}
    BY ZoteroAssumption
  <2> QED
    BY <1>1, <1>6, <2>1, PauseKeeps, WaitType DEF Overloaded
<1>7. ~HttpTick
  BY DEF HttpTick
<1>8. CASE UNCHANGED httpVars
  BY <1>2, <1>8 DEF httpVars, pauses
<1> QED
  BY <1>3, <1>4, <1>5, <1>6, <1>7, <1>8 DEF HttpNext

LEMMA GoStaysClear == SlotsInv /\ GoIsClear /\ [HttpNext]_httpVars => GoIsClear'
<1> SUFFICES ASSUME SlotsInv, GoIsClear, [HttpNext]_httpVars,
                    NEW r \in HttpRequest, call'[r].step = "go",
                    NEW s \in {UserOf[r], WholeInstance}, notBefore'[s] > 0
             PROVE  s \in fresh'
  BY DEF GoIsClear
<1>1. s \in HttpUser \cup {WholeInstance}
  BY ZoteroAssumption
<1>2. CASE call[r].step = "go"
  BY <1>1, <1>2, PausesGrow DEF GoIsClear
<1>3. CASE HonourPause(r) /\ PauseOf(r) = 0
  <2>1. notBefore[UserOf[r]] \in Nat /\ notBefore[WholeInstance] \in Nat
    BY ZoteroAssumption DEF SlotsInv, HttpTypeOK
  <2>2. notBefore[s] = 0
    BY <1>3, <2>1 DEF PauseOf
  <2> QED
    BY <1>3, <2>2 DEF pauses, HonourPause
<1> QED
  BY <1>2, <1>3, WhoGoes

(* No request is sent in a pause that anybody was told of before this very *)
(* tick, however long calls sleep and wait and whatever the answers ask.   *)
THEOREM PausesAreHonoured == HttpSpec => PauseHonoured
<1>1. HttpInit => GoIsClear
  BY DEF HttpInit, GoIsClear, HttpIdle
<1>2. SlotsInv /\ GoIsClear /\ [HttpNext]_httpVars =>
        [\A r \in HttpRequest : call[r].step # "sent" /\ call'[r].step = "sent"
            => \A s \in {UserOf[r], WholeInstance} : notBefore[s] > 0 => s \in fresh]_httpVars
  BY WhoSent DEF GoIsClear
<1> QED
  BY SlotsInit, TypeStep, GoStaysClear, <1>1, <1>2, PTL DEF HttpSpec, PauseHonoured
-----------------------------------------------------------------------------
(* The keys.                                                               *)

(* A rejection counts as long as its key is not sent, and each key has one.*)
CountedOnce ==
    /\ \A e \in invalidKeysAt : rejectedKeys[KeyOf[e.of]] = e.left
    /\ \A e, f \in invalidKeysAt : KeyOf[e.of] = KeyOf[f.of] => e = f
    /\ \A k \in HttpKey : rejectedKeys[k] > 0 => \E r \in HttpRequest : KeyOf[r] = k

Rejected == {k \in HttpKey : rejectedKeys[k] > 0}

LEMMA CountedDistinct ==
    ASSUME KeysOK, CountedOnce, NEW r \in HttpRequest, ~keyRejected(KeyOf[r])
    PROVE  \A e, f \in Counted(r) : KeyOf[e.of] = KeyOf[f.of] => e = f
<1>1. ASSUME NEW e \in invalidKeysAt  PROVE KeyOf[e.of] # KeyOf[r]
  BY <1>1, ZoteroAssumption DEF CountedOnce, keyRejected, KeysOK
<1> QED
  BY <1>1 DEF Counted, CountedOnce

LEMMA NoteCountsOnce ==
    ASSUME KeysOK, CountedOnce, NEW r \in HttpRequest, noteInvalidKey(r)
    PROVE  CountedOnce'
<1>0. KeyOf[r] \in HttpKey /\ BreakerTicks \in Nat \ {0} /\ rejectedKeys \in [HttpKey -> 0 .. BreakerTicks]
  BY ZoteroAssumption DEF KeysOK
<1>1. CASE keyRejected(KeyOf[r])
  BY <1>1 DEF noteInvalidKey, CountedOnce
<1>2. CASE ~keyRejected(KeyOf[r])
  <2>1. CountRejection(r)
    BY <1>2 DEF noteInvalidKey
  <2>2. /\ invalidKeysAt' \subseteq Counted(r)
        /\ rejectedKeys' = [rejectedKeys EXCEPT ![KeyOf[r]] = BreakerTicks]
    BY <2>1 DEF CountRejection
  <2>3. ASSUME NEW e \in invalidKeysAt  PROVE rejectedKeys'[KeyOf[e.of]] = e.left
    <3>1. KeyOf[e.of] \in HttpKey /\ rejectedKeys[KeyOf[e.of]] = e.left /\ e.left \in 1 .. BreakerTicks
      BY <2>3, ZoteroAssumption DEF CountedOnce, KeysOK
    <3>2. KeyOf[e.of] # KeyOf[r]
      BY <1>2, <3>1 DEF keyRejected
    <3> QED
      BY <1>0, <2>2, <3>1, <3>2
  <2>4. rejectedKeys'[KeyOf[r]] = BreakerTicks
    BY <1>0, <2>2
  <2>5. \A e \in Counted(r) : rejectedKeys'[KeyOf[e.of]] = e.left
    BY <2>3, <2>4 DEF Counted
  <2>6. \A k \in HttpKey : rejectedKeys'[k] > 0 => \E q \in HttpRequest : KeyOf[q] = k
    BY <1>0, <2>2 DEF CountedOnce
  <2> QED
    BY <1>2, <2>2, <2>5, <2>6, CountedDistinct DEF CountedOnce
<1> QED
  BY <1>1, <1>2

LEMMA TickCountsOnce ==
    ASSUME KeysOK, CountedOnce, HttpTick
    PROVE  CountedOnce'
<1>0. BreakerTicks \in Nat /\ rejectedKeys \in [HttpKey -> 0 .. BreakerTicks]
  BY ZoteroAssumption DEF KeysOK
<1>1. \A k \in HttpKey : rejectedKeys'[k] = TickLess(rejectedKeys[k])
  BY DEF HttpTick
<1>2. ASSUME NEW e \in invalidKeysAt'
      PROVE  \E f \in invalidKeysAt : /\ f.left > 1 /\ e = [f EXCEPT !.left = @ - 1]
                                      /\ e.of = f.of /\ e.left = f.left - 1 /\ KeyOf[f.of] \in HttpKey
  <2>1. PICK f \in invalidKeysAt : f.left > 1 /\ e = [f EXCEPT !.left = @ - 1]
    BY <1>2 DEF HttpTick
  <2>2. e.of = f.of /\ e.left = f.left - 1 /\ KeyOf[f.of] \in HttpKey
    BY <2>1, ZoteroAssumption DEF KeysOK
  <2> QED
    BY <2>1, <2>2
<1>3. \A e \in invalidKeysAt' : rejectedKeys'[KeyOf[e.of]] = e.left
  BY <1>0, <1>1, <1>2 DEF CountedOnce, TickLess, KeysOK
<1>4. ASSUME NEW e \in invalidKeysAt', NEW f \in invalidKeysAt', KeyOf[e.of] = KeyOf[f.of]  PROVE e = f
  BY <1>2, <1>4 DEF CountedOnce
<1>5. \A k \in HttpKey : rejectedKeys'[k] > 0 => \E r \in HttpRequest : KeyOf[r] = k
  BY <1>0, <1>1 DEF CountedOnce, TickLess
<1> QED
  BY <1>3, <1>4, <1>5 DEF CountedOnce

(* The steps that touch the keys.                                          *)
LEMMA KeySteps ==
    ASSUME SlotsInv, [HttpNext]_httpVars
    PROVE  \/ UNCHANGED keys
           \/ \E r \in HttpRequest : /\ noteInvalidKey(r) /\ Release(r)
                                 /\ call[r].step = "sent"
           \/ HttpTick
<1>1. ASSUME NEW r \in HttpRequest, NEW repeatable \in BOOLEAN, ZoteroFetch(r, repeatable)  PROVE UNCHANGED keys
  BY <1>1 DEF ZoteroFetch
<1>2. ASSUME NEW r \in HttpRequest, HonourPause(r) \/ Send(r) \/ Wakes(r) \/ Ends(r) \/ Leaves(r)
      PROVE UNCHANGED keys
  BY <1>2 DEF HonourPause, Send, Wakes, Ends, Leaves
<1>3. ASSUME NEW r \in HttpRequest, NEW backoff \in {0} \cup Wait, AnswerArrives(r, backoff)  PROVE UNCHANGED keys
  BY <1>3 DEF AnswerArrives
<1>4. ASSUME NEW r \in HttpRequest, NEW backoff \in {0} \cup Wait, NEW scope \in {UserOf[r], WholeInstance},
             NEW retryAfter \in {0, NoRetryAfter} \cup Wait, Overloaded(r, backoff, scope, retryAfter)
      PROVE UNCHANGED keys
  BY <1>4 DEF Overloaded
<1>5. ASSUME NEW r \in HttpRequest, NEW backoff \in {0} \cup Wait, InvalidKey(r, backoff)
      PROVE noteInvalidKey(r) /\ Release(r) /\ call[r].step = "sent"
  BY <1>5 DEF InvalidKey
<1>6. CASE UNCHANGED httpVars
  BY <1>6 DEF httpVars, keys
<1> HIDE DEF keys
<1> QED
  BY <1>1, <1>2, <1>3, <1>4, <1>5, <1>6 DEF HttpNext

LEMMA CountedStaysOnce == SlotsInv /\ CountedOnce /\ [HttpNext]_httpVars => CountedOnce'
<1> SUFFICES ASSUME SlotsInv, CountedOnce, [HttpNext]_httpVars  PROVE CountedOnce'
  OBVIOUS
<1>1. KeysOK
  BY DEF SlotsInv, HttpTypeOK, KeysOK
<1>2. CASE UNCHANGED keys
  BY <1>2 DEF keys, CountedOnce
<1>3. CASE \E r \in HttpRequest : noteInvalidKey(r)
  BY <1>1, <1>3, NoteCountsOnce
<1>4. CASE HttpTick
  BY <1>1, <1>4, TickCountsOnce
<1> QED
  BY <1>2, <1>3, <1>4, KeySteps

LEMMA EnoughKeys ==
    ASSUME KeysOK, CountedOnce, NEW r \in HttpRequest, ~keyRejected(KeyOf[r]), CountRejection(r)
    PROVE  /\ Cardinality(Counted(r)) \in Nat /\ Cardinality(Rejected') \in Nat
           /\ Cardinality(Counted(r)) <= Cardinality(Rejected')
<1>0. KeyOf[r] \in HttpKey /\ BreakerTicks \in Nat \ {0} /\ rejectedKeys \in [HttpKey -> 0 .. BreakerTicks]
  BY ZoteroAssumption DEF KeysOK
<1>1. rejectedKeys' = [rejectedKeys EXCEPT ![KeyOf[r]] = BreakerTicks]
  BY DEF CountRejection
<1>2. IsFiniteSet(Rejected')
  <2> DEFINE used == {KeyOf[q] : q \in HttpRequest}
  <2>1. KeyOf \in Surjection(HttpRequest, used)
    BY ZoteroAssumption DEF Surjection
  <2>2. IsFiniteSet(used)
    BY <2>1, ZoteroAssumption, FS_Surjection
  <2>3. Rejected' \subseteq used
    BY <1>0, <1>1 DEF Rejected, CountedOnce
  <2> QED
    BY <2>2, <2>3, FS_Subset
<1> DEFINE f == [e \in Counted(r) |-> KeyOf[e.of]]
<1>3. ASSUME NEW e \in Counted(r)  PROVE KeyOf[e.of] \in Rejected'
  <2>1. CASE e \in invalidKeysAt
    <3>1. KeyOf[e.of] \in HttpKey /\ rejectedKeys[KeyOf[e.of]] > 0
      BY <2>1, ZoteroAssumption DEF KeysOK, CountedOnce
    <3> QED
      BY <1>0, <1>1, <3>1 DEF Rejected
  <2>2. CASE e.of = r
    BY <1>0, <1>1, <2>2 DEF Rejected
  <2> QED
    BY <2>1, <2>2 DEF Counted
<1>4. f \in Injection(Counted(r), Rejected')
  <2>1. f \in [Counted(r) -> Rejected']
    BY <1>3
  <2>2. ASSUME NEW e \in Counted(r), NEW g \in Counted(r), f[e] = f[g]  PROVE e = g
    BY <2>2, CountedDistinct
  <2> QED
    BY <2>1, <2>2 DEF Injection, IsInjective
<1> QED
  BY <1>2, <1>4, FS_Injection, FS_CardinalityType

(* The breaker opens, or stays open longer, only when as many different    *)
(* keys as it takes are rejected at that moment.                           *)
THEOREM EnoughKeysTrip == HttpSpec => OneKeyNeverTrips
<1>1. HttpInit => CountedOnce
  BY ZoteroAssumption DEF HttpInit, CountedOnce
<1>2. SlotsInv /\ CountedOnce /\ [HttpNext]_httpVars =>
        [breaker' > breaker => Cardinality({k \in HttpKey : rejectedKeys'[k] > 0}) >= BreakerInvalidKeys]_httpVars
  <2> SUFFICES ASSUME SlotsInv, CountedOnce, [HttpNext]_httpVars, breaker' > breaker
               PROVE  Cardinality(Rejected') >= BreakerInvalidKeys
    BY DEF Rejected
  <2>1. KeysOK /\ breaker \in Nat /\ ~(breaker > breaker)
    BY ZoteroAssumption DEF SlotsInv, HttpTypeOK, KeysOK
  <2>2. ~UNCHANGED keys
    BY <2>1 DEF keys
  <2>3. ~HttpTick
    BY <2>1 DEF HttpTick, TickLess
  <2>4. PICK r \in HttpRequest : noteInvalidKey(r)
    BY <2>2, <2>3, KeySteps
  <2>5. ~keyRejected(KeyOf[r]) /\ CountRejection(r)
    BY <2>1, <2>4 DEF noteInvalidKey
  <2>6. Cardinality(Counted(r)) >= BreakerInvalidKeys
    BY <2>1, <2>5 DEF CountRejection
  <2>7. /\ Cardinality(Counted(r)) \in Nat /\ Cardinality(Rejected') \in Nat
        /\ Cardinality(Counted(r)) <= Cardinality(Rejected')
    BY <2>1, <2>5, EnoughKeys
  <2> QED
    BY <2>6, <2>7, ZoteroAssumption
<1> QED
  BY SlotsInit, TypeStep, CountedStaysOnce, <1>1, <1>2, PTL DEF HttpSpec, OneKeyNeverTrips
-----------------------------------------------------------------------------
(* What a rejected key costs.                                              *)

(* A set whose parts are within limit each is within limit for each part.  *)
LEMMA PartsBound ==
    ASSUME NEW S, NEW U, IsFiniteSet(U), NEW P, NEW limit \in Nat,
           \A u \in U : IsFiniteSet(P[u]) /\ Cardinality(P[u]) <= limit,
           \A x \in S : \E u \in U : x \in P[u]
    PROVE  /\ IsFiniteSet(S) /\ Cardinality(S) \in Nat /\ Cardinality(U) \in Nat
           /\ Cardinality(S) <= limit * Cardinality(U)
<1> DEFINE part == [x \in S |-> CHOOSE u \in U : x \in P[u]]
           number == [u \in U |-> CHOOSE b : b \in Injection(P[u], 1 .. limit)]
           f == [x \in S |-> <<part[x], number[part[x]][x]>>]
<1>1. ASSUME NEW u \in U  PROVE number[u] \in Injection(P[u], 1 .. limit)
  <2> DEFINE n == Cardinality(P[u])
  <2>1. n \in Nat /\ n <= limit /\ IsFiniteSet(P[u])
    BY FS_CardinalityType
  <2>2. IsFiniteSet(1 .. n) /\ Cardinality(1 .. n) = n
    <3>1. n \in Int /\ 1 \in Int /\ (IF 1 > n THEN 0 ELSE n - 1 + 1) = n
      BY <2>1
    <3> HIDE DEF n
    <3> QED
      BY <3>1, FS_Interval
  <2>3. PICK b : b \in Bijection(P[u], 1 .. n)
    BY <2>1, <2>2, FS_SameCardinalityBij DEF ExistsBijection
  <2>4. b \in Injection(P[u], 1 .. limit)
    BY <2>1, <2>3 DEF Bijection, Injection
  <2> QED
    BY <2>4
<1>2. ASSUME NEW x \in S  PROVE part[x] \in U /\ x \in P[part[x]]
  OBVIOUS
<1> HIDE DEF part, number
<1>3. ASSUME NEW x \in S  PROVE f[x] \in U \X (1 .. limit)
  BY <1>1, <1>2 DEF Injection
<1>4. ASSUME NEW x \in S, NEW y \in S, f[x] = f[y]  PROVE x = y
  <2>1. part[x] = part[y] /\ number[part[x]][x] = number[part[x]][y]
    BY <1>4
  <2> QED
    BY <1>1, <1>2, <2>1 DEF Injection, IsInjective
<1>5. f \in Injection(S, U \X (1 .. limit))
  <2>1. f \in [S -> U \X (1 .. limit)]
    BY <1>3
  <2>2. IsInjective(f)
    BY <1>4 DEF IsInjective
  <2> QED
    BY <2>1, <2>2 DEF Injection
<1>6. IsFiniteSet(1 .. limit) /\ Cardinality(1 .. limit) = limit
  <2>1. limit \in Int /\ 1 \in Int /\ (IF 1 > limit THEN 0 ELSE limit - 1 + 1) = limit
    OBVIOUS
  <2> QED
    BY <2>1, FS_Interval
<1>7. /\ IsFiniteSet(U \X (1 .. limit)) /\ Cardinality(U) \in Nat
      /\ Cardinality(U \X (1 .. limit)) = Cardinality(U) * limit
  BY <1>6, FS_Product, FS_CardinalityType
<1>8. IsFiniteSet(S) /\ Cardinality(S) <= Cardinality(U) * limit
  BY <1>5, <1>7, FS_Injection
<1> QED
  BY <1>7, <1>8, FS_CardinalityType

UsersOf(k) == {UserOf[r] : r \in {q \in HttpRequest : KeyOf[q] = k}}
SentWith(k) == {r \in HttpRequest : KeyOf[r] = k /\ call[r].step = "sent"}

(* What is in flight with a rejected key adds to what it has cost.         *)
CostsOK ==
    \A k \in HttpKey :
        /\ rejectedKeys[k] = 0 => answers[k] = 0
        /\ answers[k] + Cardinality(SentWith(k)) <= ConcurrencyPerUser * Cardinality(UsersOf(k))

LEMMA SentFinite ==
    ASSUME NEW k
    PROVE  /\ IsFiniteSet(SentWith(k)) /\ Cardinality(SentWith(k)) \in Nat
           /\ IsFiniteSet(SentWith(k)') /\ Cardinality(SentWith(k)') \in Nat
           /\ IsFiniteSet(UsersOf(k)) /\ Cardinality(UsersOf(k)) \in Nat
<1>1. SentWith(k) \in SUBSET HttpRequest /\ SentWith(k)' \in SUBSET HttpRequest
  BY DEF SentWith
<1> DEFINE mine == {q \in HttpRequest : KeyOf[q] = k}
           f == [r \in mine |-> UserOf[r]]
<1>2. f \in Surjection(mine, UsersOf(k))
  BY DEF Surjection, UsersOf
<1>3. IsFiniteSet(UsersOf(k))
  BY <1>2, FS_Surjection, FS_Subset, ZoteroAssumption
<1> QED
  BY <1>1, <1>3, FS_Subset, FS_CardinalityType, ZoteroAssumption

InFlightBounded ==
    \A k \in HttpKey : Cardinality(SentWith(k)) <= ConcurrencyPerUser * Cardinality(UsersOf(k))

LEMMA InFlightBound == SlotsInv => InFlightBounded
<1> SUFFICES ASSUME SlotsInv, NEW k \in HttpKey
             PROVE  Cardinality(SentWith(k)) <= ConcurrencyPerUser * Cardinality(UsersOf(k))
  BY DEF InFlightBounded
<1>1. ASSUME NEW u \in UsersOf(k)
      PROVE  IsFiniteSet(SlotHolders(u)) /\ Cardinality(SlotHolders(u)) <= ConcurrencyPerUser
  <2>1. u \in HttpUser
    BY ZoteroAssumption DEF UsersOf
  <2>2. active[u] = Cardinality(SlotHolders(u)) /\ active[u] \in 0 .. ConcurrencyPerUser
    BY <2>1 DEF SlotsInv, SlotsHeld, HttpTypeOK
  <2> QED
    BY <2>1, <2>2, HoldersFinite
<1>2. ASSUME NEW r \in SentWith(k)  PROVE UserOf[r] \in UsersOf(k) /\ r \in SlotHolders(UserOf[r])
  BY DEF SentWith, UsersOf, SlotHolders
<1>3. ConcurrencyPerUser \in Nat
  BY ZoteroAssumption
<1> DEFINE P == [u \in UsersOf(k) |-> SlotHolders(u)]
<1>4. /\ \A u \in UsersOf(k) : IsFiniteSet(P[u]) /\ Cardinality(P[u]) <= ConcurrencyPerUser
      /\ \A r \in SentWith(k) : \E u \in UsersOf(k) : r \in P[u]
  BY <1>1, <1>2
<1> HIDE DEF P
<1> QED
  BY <1>3, <1>4, SentFinite, PartsBound

(* A call that ends is no longer in flight. *)
LEMMA OneLessInFlight ==
    ASSUME SlotsInv, NEW r \in HttpRequest, call[r].step = "sent", Release(r), NEW k
    PROVE  /\ Cardinality(SentWith(k)') <= Cardinality(SentWith(k))
           /\ KeyOf[r] = k => Cardinality(SentWith(k)') + 1 <= Cardinality(SentWith(k))
<1>1. \A q \in HttpRequest : call'[q].step = "sent" => q # r /\ call[q].step = "sent"
  BY ReleaseTouches DEF Holding
<1>2. SentWith(k)' \subseteq SentWith(k) \ {r}
  BY <1>1 DEF SentWith
<1>3. CASE KeyOf[r] = k
  <2>1. r \in SentWith(k)
    BY <1>3 DEF SentWith
  <2>2. /\ IsFiniteSet(SentWith(k) \ {r})
        /\ Cardinality(SentWith(k) \ {r}) = Cardinality(SentWith(k)) - 1
    BY <2>1, SentFinite, FS_RemoveElement
  <2>3. Cardinality(SentWith(k)') <= Cardinality(SentWith(k) \ {r})
    BY <1>2, <2>2, FS_Subset
  <2> QED
    BY <2>2, <2>3, SentFinite
<1>4. CASE KeyOf[r] # k
  BY <1>2, <1>4, SentFinite, FS_Subset
<1> QED
  BY <1>3, <1>4

LEMMA CostsStay == SlotsInv /\ CostsOK /\ [HttpNext]_httpVars => CostsOK'
<1> SUFFICES ASSUME SlotsInv, CostsOK, [HttpNext]_httpVars, NEW k \in HttpKey
             PROVE  /\ rejectedKeys'[k] = 0 => answers'[k] = 0
                    /\ answers'[k] + Cardinality(SentWith(k)') <= ConcurrencyPerUser * Cardinality(UsersOf(k))
  BY DEF CostsOK, UsersOf
<1> DEFINE most == ConcurrencyPerUser * Cardinality(UsersOf(k))
           sent == Cardinality(SentWith(k))
<1>0. KeysOK /\ SlotsInv'
  BY TypeStep DEF SlotsInv, HttpTypeOK, KeysOK
<1>1. /\ answers \in [HttpKey -> Nat] /\ answers[k] \in Nat /\ sent \in Nat /\ sent' \in Nat
      /\ rejectedKeys \in [HttpKey -> 0 .. BreakerTicks] /\ BreakerTicks \in Nat \ {0}
      /\ rejectedKeys[k] \in Nat /\ most \in Nat
  BY <1>0, SentFinite, ZoteroAssumption DEF KeysOK
<1>2. rejectedKeys[k] = 0 => answers[k] = 0
  BY DEF CostsOK
<1>3. answers[k] + sent <= most /\ sent <= most /\ sent' <= most
  <2>1. InFlightBounded'
    BY <1>0, InFlightBound, PTL
  <2>2. UsersOf(k)' = UsersOf(k)
    BY DEF UsersOf
  <2> QED
    BY <2>1, <2>2, InFlightBound DEF CostsOK, InFlightBounded
<1> HIDE DEF most, sent
<1>4. CASE UNCHANGED keys
  <2>1. answers' = answers /\ rejectedKeys' = rejectedKeys
    BY <1>4 DEF keys
  <2>2. CASE rejectedKeys[k] = 0
    BY <1>1, <1>2, <1>3, <2>1, <2>2 DEF most, sent
  <2>3. CASE keyRejected(k)
    <3>1. SentWith(k)' \subseteq SentWith(k)
      BY <2>3, WhoSent DEF SentWith
    <3>2. sent' <= sent
      BY <3>1, SentFinite, FS_Subset DEF sent
    <3> QED
      BY <1>1, <1>2, <1>3, <2>1, <3>2 DEF most, sent
  <2> QED
    BY <1>1, <2>2, <2>3 DEF keyRejected
<1>5. CASE \E r \in HttpRequest : noteInvalidKey(r) /\ Release(r) /\ call[r].step = "sent"
  <2>1. PICK r \in HttpRequest : noteInvalidKey(r) /\ Release(r) /\ call[r].step = "sent"
    BY <1>5
  <2>2. sent' <= sent /\ (KeyOf[r] = k => sent' + 1 <= sent)
    BY <2>1, OneLessInFlight DEF sent
  <2>3. CASE KeyOf[r] # k
    <3>1. answers'[k] = answers[k] /\ rejectedKeys'[k] = rejectedKeys[k]
      BY <1>1, <2>1, <2>3 DEF noteInvalidKey, CountRejection
    <3> QED
      BY <1>1, <1>2, <1>3, <2>2, <3>1 DEF most, sent
  <2>4. CASE KeyOf[r] = k /\ keyRejected(k)
    <3>1. answers'[k] = answers[k] + 1 /\ rejectedKeys'[k] > 0
      BY <1>1, <2>1, <2>4 DEF noteInvalidKey, keyRejected
    <3> QED
      BY <1>1, <1>2, <1>3, <2>2, <2>4, <3>1 DEF most, sent
  <2>5. CASE KeyOf[r] = k /\ ~keyRejected(k)
    <3>1. answers'[k] = 1 /\ rejectedKeys'[k] > 0
      BY <1>1, <2>1, <2>5 DEF noteInvalidKey, CountRejection
    <3> QED
      BY <1>1, <1>3, <2>2, <2>5, <3>1 DEF most, sent
  <2> QED
    BY <2>3, <2>4, <2>5
<1>6. CASE HttpTick
  <2>1. /\ rejectedKeys'[k] = TickLess(rejectedKeys[k])
        /\ answers'[k] = IF rejectedKeys[k] > 1 THEN answers[k] ELSE 0
    BY <1>6 DEF HttpTick
  <2>2. sent' <= sent
    <3>1. \A q \in HttpRequest : call'[q].step = call[q].step
      BY <1>6 DEF HttpTick, SlotsInv, HttpTypeOK, CallState
    <3>2. SentWith(k)' = SentWith(k)
      BY <3>1 DEF SentWith
    <3> QED
      BY <1>1, <3>2 DEF sent
  <2> QED
    BY <1>1, <1>2, <1>3, <2>1, <2>2 DEF most, sent, TickLess
<1> QED
  BY <1>4, <1>5, <1>6, KeySteps

(* A rejected key costs at most one answer for each slot of the users that *)
(* it is sent for, however many calls carry it and whenever they were made.*)
THEOREM RejectedKeyCostsLittle == HttpSpec => []RejectedKeyCosts
<1>1. HttpInit => CostsOK
  <2> SUFFICES ASSUME HttpInit, NEW k \in HttpKey
               PROVE  answers[k] = 0 /\ answers[k] + Cardinality(SentWith(k))
                                            <= ConcurrencyPerUser * Cardinality(UsersOf(k))
    BY DEF CostsOK
  <2>1. answers[k] = 0
    BY DEF HttpInit
  <2> QED
    BY <2>1, SlotsInit, InFlightBound, SentFinite DEF InFlightBounded
<1>2. SlotsInv /\ CostsOK => RejectedKeyCosts
  <2> SUFFICES ASSUME SlotsInv, CostsOK, NEW k \in HttpKey
               PROVE  answers[k] <= ConcurrencyPerUser * Cardinality(UsersOf(k))
    BY DEF RejectedKeyCosts, UsersOf
  <2>1. answers[k] \in Nat /\ ConcurrencyPerUser * Cardinality(UsersOf(k)) \in Nat
    BY SentFinite, ZoteroAssumption DEF SlotsInv, HttpTypeOK
  <2> QED
    BY <2>1, SentFinite DEF CostsOK
<1> QED
  BY SlotsInit, TypeStep, CostsStay, <1>1, <1>2, PTL DEF HttpSpec

-----------------------------------------------------------------------------
(* A paragraph on its pages (EsbirkaSection).                              *)

LEMMA MinOf ==
    ASSUME NEW S, S \subseteq Nat, S # {}
    PROVE  Min(S) \in S /\ \A y \in S : Min(S) <= y
<1>1. \E x \in S : \A y \in S : x <= y
  BY LeastOfNats
<1> QED
  BY <1>1 DEF Min

LEMMA MaxOf ==
    ASSUME NEW S, S \subseteq Nat, S # {}, NEW n \in Nat, \A y \in S : y <= n
    PROVE  Max(S) \in S /\ \A y \in S : y <= Max(S)
<1> DEFINE R == {n - y : y \in S}
<1>1. R \subseteq Nat /\ R # {}
  <2>1. \A y \in S : n - y \in Nat
    OBVIOUS
  <2> QED
    BY <2>1
<1>2. PICK r \in R : \A q \in R : r <= q
  <2> HIDE DEF R
  <2> QED
    BY <1>1, LeastOfNats
<1>3. PICK x \in S : r = n - x
  BY <1>2
<1>4. ASSUME NEW y \in S PROVE x >= y
  <2>1. n - x <= n - y /\ x \in Nat /\ y \in Nat
    BY <1>2, <1>3
  <2> QED
    BY <2>1
<1>5. Max(S) \in S /\ \A y \in S : Max(S) >= y
  BY <1>4 DEF Max
<1> QED
  BY <1>5

(* The acts read: a first line, §§, and then perhaps an annex; of any size, *)
(* on pages of any size.                                                   *)
Ahead2(u, i, v, j) == u < v \/ (u = v /\ i < j)

ActOK ==
    /\ totalPages \in Nat \ {0} /\ target \in Nat \ {0}
    /\ \A u \in PageNumbers :
         /\ Len(Fragments(u)) \in Nat \ {0} /\ DOMAIN Fragments(u) = 1 .. Len(Fragments(u))
         /\ \A i \in DOMAIN Fragments(u) :
              /\ Fragments(u)[i].key \in Nat /\ Fragments(u)[i].part \in {"norma", "prilohy"}
              /\ Fragments(u)[i].key = 0 => u = 0 /\ i = 1 /\ ~Fragments(u)[i].heading
    /\ \E most \in Nat : \A u \in PageNumbers : \A i \in DOMAIN Fragments(u) : Fragments(u)[i].key <= most
    /\ \A u, v \in PageNumbers : \A i \in DOMAIN Fragments(u), j \in DOMAIN Fragments(v) :
         Ahead2(u, i, v, j) /\ Fragments(u)[i].part = "prilohy" => Fragments(v)[j].part = "prilohy"

IsBody(u, i) == u \in PageNumbers /\ i \in hits(u) /\ Fragments(u)[i].part = "norma"
BodyPages == {u \in PageNumbers : \E i \in hits(u) : IsBody(u, i)}

LEMMA BodyPagesAre ==
    /\ BodyPages = pagesWith(BodyHits)
    /\ BodyHits = {} <=> BodyPages = {}
    /\ BodyPages \subseteq PageNumbers
<1>1. \A at : at \in BodyHits <=> \E u \in PageNumbers : \E i \in hits(u) : IsBody(u, i) /\ at = <<u, i>>
  BY DEF BodyHits, IsBody
<1>2. \A u : u \in BodyPages <=> u \in PageNumbers /\ \E i \in hits(u) : IsBody(u, i)
  BY DEF BodyPages
<1>3. ASSUME NEW u \in BodyPages PROVE \E at \in BodyHits : at[1] = u
  <2>1. PICK i \in hits(u) : u \in PageNumbers /\ IsBody(u, i)
    BY <1>2
  <2>2. <<u, i>> \in BodyHits /\ <<u, i>>[1] = u
    BY <1>1, <2>1
  <2> QED
    BY <2>2
<1>4. \A at \in BodyHits : at[1] \in BodyPages
  BY <1>1, <1>2
<1> QED
  BY <1>2, <1>3, <1>4 DEF pagesWith

(* What stands between two lines of the § in the body is of it too.        *)
LEMMA BodyIsTogether ==
    ASSUME ActOK, BodyTogether, NEW u, NEW i, NEW v, NEW j, IsBody(u, i), IsBody(v, j),
           NEW w \in PageNumbers, NEW k \in DOMAIN Fragments(w),
           Ahead2(u, i, w, k), Ahead2(w, k, v, j)
    PROVE  IsBody(w, k)
<1>1. /\ u \in PageNumbers /\ i \in DOMAIN Fragments(u) /\ Fragments(u)[i].key = target
      /\ v \in PageNumbers /\ j \in DOMAIN Fragments(v) /\ Fragments(v)[j].key = target
      /\ Fragments(u)[i].part = "norma" /\ Fragments(v)[j].part = "norma"
  BY DEF IsBody, hits
<1>2. Fragments(w)[k].part = "norma"
  BY <1>1 DEF ActOK
<1>3. i \in hits(u) /\ j \in hits(v)
  BY <1>1 DEF hits
<1>4. Fragments(w)[k].key = target
  BY <1>1, <1>3 DEF BodyTogether, Ahead2
<1> QED
  BY <1>2, <1>4 DEF IsBody, hits

LEMMA PagesAreTogether ==
    ASSUME ActOK, BodyTogether, NEW u \in BodyPages, NEW v \in BodyPages, NEW w \in PageNumbers, u <= w, w <= v
    PROVE  w \in BodyPages
<1>1. PICK i \in hits(u) : IsBody(u, i)
  BY DEF BodyPages
<1>2. PICK j \in hits(v) : IsBody(v, j)
  BY DEF BodyPages
<1>3. u \in Int /\ v \in Int /\ w \in Int /\ u \in PageNumbers /\ v \in PageNumbers
  BY DEF BodyPages, PageNumbers, ActOK
<1>4. 1 \in DOMAIN Fragments(w)
  BY DEF ActOK
<1>5. CASE u = w \/ v = w
  BY <1>5
<1>6. CASE u < w /\ w < v
  <2>1. IsBody(w, 1)
    BY <1>1, <1>2, <1>4, <1>6, BodyIsTogether DEF Ahead2
  <2> QED
    BY <2>1 DEF BodyPages, IsBody
<1> QED
  BY <1>3, <1>5, <1>6

(* A line of an annex comes after the body.                                *)
LEMMA BodyComesFirst ==
    ASSUME ActOK, BodyTogether, BodyPages # {}, NEW w \in PageNumbers, hits(w) # {}
    PROVE  \E u \in BodyPages : u <= w
<1>1. PICK k \in hits(w) : TRUE
  OBVIOUS
<1>2. PICK v \in BodyPages : TRUE
  OBVIOUS
<1>3. PICK j \in hits(v) : IsBody(v, j)
  BY DEF BodyPages
<1>4. /\ v \in PageNumbers /\ k \in DOMAIN Fragments(w) /\ j \in DOMAIN Fragments(v)
      /\ Fragments(v)[j].part = "norma" /\ v \in Int /\ w \in Int
  BY <1>1, <1>3 DEF BodyPages, hits, IsBody, PageNumbers, ActOK
<1>5. CASE Fragments(w)[k].part = "norma"
  BY <1>1, <1>4, <1>5 DEF BodyPages, IsBody
<1>6. CASE Fragments(w)[k].part = "prilohy"
  <2>1. ~(w < v)
    BY <1>4, <1>6 DEF ActOK, Ahead2
  <2> QED
    BY <1>2, <1>4, <2>1
<1> QED
  BY <1>4, <1>5, <1>6 DEF ActOK

LEMMA HitsHaveEnds ==
    ASSUME ActOK, NEW u \in PageNumbers, hits(u) # {}
    PROVE  /\ Min(hits(u)) \in hits(u) /\ Max(hits(u)) \in hits(u)
           /\ \A i \in hits(u) : i \in Nat /\ Min(hits(u)) <= i /\ i <= Max(hits(u))
<1>1. hits(u) \subseteq Nat /\ Len(Fragments(u)) \in Nat /\ \A i \in hits(u) : i <= Len(Fragments(u))
  BY DEF hits, ActOK
<1>2. Min(hits(u)) \in hits(u) /\ \A i \in hits(u) : Min(hits(u)) <= i
  BY <1>1, MinOf
<1>3. Max(hits(u)) \in hits(u) /\ \A i \in hits(u) : i <= Max(hits(u))
  BY <1>1, MaxOf
<1> QED
  BY <1>1, <1>2, <1>3

(* Only the last page of the § can end it, only the first can begin it;    *)
(* and where it visibly ends, the last page does.                          *)
LEMMA EndsAreSeen ==
    ASSUME ActOK, BodyTogether, NEW u \in BodyPages
    PROVE  /\ (\E v \in BodyPages : u < v) => ~ends(u)
           /\ (\E v \in BodyPages : v < u) => mayBeginBefore(u)
           /\ VisiblyEnds /\ (\A v \in BodyPages : v <= u) => ends(u)
<1>1. PICK i \in hits(u) : IsBody(u, i)
  BY DEF BodyPages
<1>2. u \in PageNumbers /\ u \in Nat /\ hits(u) # {} /\ i \in Nat
  BY <1>1 DEF BodyPages, PageNumbers, ActOK, hits
<1>3. \A k \in foreign(u) : k \in DOMAIN Fragments(u) /\ k \in Nat /\ k \notin hits(u)
  BY <1>2 DEF foreign, hits, ActOK
<1>4. ASSUME NEW v \in BodyPages, u < v PROVE ~ends(u)
  <2>1. PICK j \in hits(v) : IsBody(v, j)
    BY DEF BodyPages
  <2>2. ASSUME NEW k \in foreign(u), k > Max(hits(u)) PROVE FALSE
    <3>1. i < k
      <4>1. i <= Max(hits(u)) /\ Max(hits(u)) \in Nat
        BY <1>2, HitsHaveEnds
      <4> QED
        BY <1>2, <1>3, <2>2, <4>1
    <3>2. IsBody(u, k)
      BY <1>1, <1>2, <1>3, <1>4, <2>1, <3>1, BodyIsTogether DEF Ahead2
    <3> QED
      BY <1>3, <3>2 DEF IsBody
  <2> QED
    BY <2>2 DEF ends
<1>5. ASSUME NEW v \in BodyPages, v < u PROVE mayBeginBefore(u)
  <2>1. PICK j \in hits(v) : IsBody(v, j)
    BY DEF BodyPages
  <2>2. ASSUME NEW k \in foreign(u), k < Min(hits(u)) PROVE FALSE
    <3>1. k < i
      <4>1. Min(hits(u)) <= i /\ Min(hits(u)) \in Nat
        BY <1>2, HitsHaveEnds
      <4> QED
        BY <1>2, <1>3, <2>2, <4>1
    <3>2. IsBody(u, k)
      BY <1>1, <1>2, <1>3, <1>5, <2>1, <3>1, BodyIsTogether DEF Ahead2
    <3> QED
      BY <1>3, <3>2 DEF IsBody
  <2> QED
    BY <1>2, <2>2 DEF mayBeginBefore
<1>6. ASSUME VisiblyEnds, \A v \in BodyPages : v <= u PROVE ends(u)
  <2>1. Max(pagesWith(BodyHits)) = u
    <3>1. BodyPages \subseteq Nat /\ \A v \in BodyPages : v <= u
      BY <1>6 DEF BodyPages, PageNumbers, ActOK
    <3>2. Max(BodyPages) \in BodyPages /\ u <= Max(BodyPages) /\ Max(BodyPages) <= u
      BY <1>2, <3>1, MaxOf
    <3>3. Max(BodyPages) = u
      <4>1. Max(BodyPages) \in Nat
        BY <3>1, <3>2
      <4> QED
        BY <1>2, <3>2, <4>1
    <3> QED
      BY <3>3, BodyPagesAre
  <2>2. \E k \in foreign(u) : k > Max(hits(u))
    BY <1>6, <2>1 DEF VisiblyEnds
  <2>3. ASSUME NEW k \in hits(u) PROVE IsBody(u, k)
    <3>1. CASE Fragments(u)[k].part = "prilohy"
      <4>1. <<u, k>> \in AnnexHits
        BY <1>2, <3>1 DEF AnnexHits
      <4>2. u \in pagesWith(AnnexHits)
        BY <4>1 DEF pagesWith
      <4> QED
        BY <1>6, <4>2, BodyPagesAre DEF VisiblyEnds
    <3> QED
      BY <1>2, <3>1 DEF IsBody, ActOK, hits
  <2>4. ~interleaved(u)
    <3> SUFFICES ASSUME NEW k \in foreign(u), Min(hits(u)) < k, k < Max(hits(u)) PROVE FALSE
      BY DEF interleaved
    <3>1. IsBody(u, Min(hits(u))) /\ IsBody(u, Max(hits(u)))
      BY <1>2, <2>3, HitsHaveEnds
    <3>2. IsBody(u, k)
      BY <1>2, <1>3, <3>1, BodyIsTogether DEF Ahead2
    <3> QED
      BY <1>3, <3>2 DEF IsBody
  <2> QED
    BY <1>2, <2>2, <2>4 DEF ends
<1> QED
  BY <1>4, <1>5, <1>6

-----------------------------------------------------------------------------
(* The scan, of an act whose fragments of the § wanted stand together.     *)
SectionScans == [phase : {"zero", "jump", "linear", "back", "forward", "done", "failed"}, read : SUBSET PageNumbers,
             wanted : SUBSET PageNumbers, end : Nat, anchor : Int, from : Int, to : Int]

FirstBody(u) == u \in BodyPages /\ \A v \in BodyPages : u <= v
HasItsStart(s) == FirstBody(s.from) /\ s.anchor # -1

\* Before, during and after the walk around the page found.
LooksFor(s) ==
    /\ s.phase = "zero" => s.anchor = -1 /\ s.read = {} /\ s.wanted = {0}
    /\ s.phase \in {"jump", "linear"} => 0 \in s.read /\ hits(0) = {} /\ s.anchor = -1
    /\ s.phase = "jump" => mayJump
    /\ s.phase = "linear" => s.end >= 1 /\ s.end <= ScanCap /\ s.end <= totalPages /\ 0 .. s.end - 1 \subseteq s.read \cup s.wanted
    /\ s.phase = "back" => s.anchor \in BodyPages /\ s.from \in BodyPages /\ s.from <= s.anchor /\ s.from > 0
    /\ s.phase = "forward" =>
         /\ HasItsStart(s) /\ s.to \in PageNumbers /\ s.to + 1 \in PageNumbers /\ s.from <= s.to
         /\ VisiblyEnds => \E v \in BodyPages : s.to < v
    /\ s.phase = "done" =>
         IF s.anchor = -1
         THEN \A u \in BodyPages : u >= ScanCap \/ (~BodyInOrder /\ inOrder(s.read) /\ u \notin s.read)
         ELSE /\ FirstBody(s.from) /\ s.to \in PageNumbers /\ (\A v \in BodyPages : v <= s.to)
              /\ VisiblyEnds => s.to \in BodyPages
ScanStands(s) == s \in SectionScans /\ LooksFor(s)

LEMMA PagesAreNumbers ==
    ASSUME ActOK
    PROVE  /\ totalPages \in Nat /\ 0 \in PageNumbers
           /\ \A u \in PageNumbers : u \in Nat /\ u < totalPages /\ u <= totalPages - 1
           /\ \A u \in Int : u \in PageNumbers <=> 0 <= u /\ u < totalPages
           /\ \A u \in BodyPages : u \in Nat /\ u \in PageNumbers
  BY DEF ActOK, PageNumbers, BodyPages

LEMMA ScanMoves ==
    ASSUME NEW s \in SectionScans
    PROVE  /\ \A n \in Int : [s EXCEPT !.to = n] \in SectionScans /\ [s EXCEPT !.from = n] \in SectionScans
                              /\ [s EXCEPT !.anchor = n] \in SectionScans
           /\ \A n \in Nat : [s EXCEPT !.end = n] \in SectionScans
           /\ \A phase \in {"jump", "linear", "back", "forward", "done"}, pages \in SUBSET PageNumbers :
                [s EXCEPT !.phase = phase, !.wanted = pages] \in SectionScans
  BY DEF SectionScans

LEMMA AskIs ==
    ASSUME ActOK, NEW s \in SectionScans, NEW phase \in {"jump", "linear", "back", "forward"}, NEW pages
    PROVE  /\ Ask(s, phase, pages) \in SectionScans
           /\ Ask(s, phase, pages).phase = phase /\ Ask(s, phase, pages).read = s.read
           /\ Ask(s, phase, pages).end = s.end /\ Ask(s, phase, pages).anchor = s.anchor
           /\ Ask(s, phase, pages).from = s.from /\ Ask(s, phase, pages).to = s.to
           /\ Ask(s, phase, pages).wanted = (pages \cap (1 .. totalPages - 1)) \ s.read
<1>1. (pages \cap (1 .. totalPages - 1)) \ s.read \in SUBSET PageNumbers
  BY DEF PageNumbers, ActOK
<1>2. Ask(s, phase, pages) \in SectionScans
  BY <1>1, ScanMoves DEF Ask
<1> QED
  BY <1>2 DEF Ask, SectionScans

LEMMA ScanEnds ==
    ASSUME NEW s \in SectionScans, NEW to \in Int
    PROVE  \E t \in SectionScans : /\ t = [s EXCEPT !.to = to, !.phase = "done", !.wanted = {}]
                               /\ t.phase = "done" /\ t.to = to /\ t.from = s.from /\ t.anchor = s.anchor
<1> DEFINE t == [s EXCEPT !.to = to, !.phase = "done", !.wanted = {}]
<1>1. t \in SectionScans /\ t.phase = "done" /\ t.to = to /\ t.from = s.from /\ t.anchor = s.anchor
  BY DEF SectionScans
<1> QED
  BY <1>1

LEMMA ForwardGoesOn ==
    ASSUME ActOK, BodyTogether, NEW s \in SectionScans, HasItsStart(s), NEW to \in PageNumbers, s.from <= to,
           hits(to) # {}, VisiblyEnds => to \in BodyPages
    PROVE  ScanStands(ForwardFrom(s, to))
<1>1. to \in Int /\ to \in Nat /\ to <= totalPages - 1 /\ totalPages \in Nat
  BY PagesAreNumbers
<1>2. CASE to = totalPages - 1 \/ ends(to)
  <2>1. ForwardFrom(s, to) = [s EXCEPT !.to = to, !.phase = "done", !.wanted = {}]
    BY <1>2 DEF ForwardFrom
  <2>2. ASSUME NEW v \in BodyPages, to < v PROVE FALSE
    <3>1. to \in BodyPages
      BY <1>1, <2>2, PagesAreNumbers, PagesAreTogether DEF HasItsStart, FirstBody
    <3>2. v <= totalPages - 1 /\ v \in Nat
      BY PagesAreNumbers
    <3>3. ~ends(to)
      BY <2>2, <3>1, EndsAreSeen
    <3> QED
      BY <1>1, <1>2, <2>2, <3>2, <3>3
  <2>3. \A v \in BodyPages : v <= to
    BY <1>1, <2>2, PagesAreNumbers
  <2>4. PICK t \in SectionScans : /\ t = [s EXCEPT !.to = to, !.phase = "done", !.wanted = {}]
                              /\ t.phase = "done" /\ t.to = to /\ t.from = s.from /\ t.anchor = s.anchor
    BY <1>1, ScanEnds
  <2>5. ScanStands(t)
    BY <2>3, <2>4 DEF ScanStands, LooksFor, HasItsStart
  <2> QED
    BY <2>1, <2>4, <2>5
<1>3. CASE ~(to = totalPages - 1 \/ ends(to))
  <2> DEFINE t == ForwardFrom(s, to)
  <2>1. t = Ask([s EXCEPT !.to = to], "forward", {to + 1})
    BY <1>3 DEF ForwardFrom
  <2>2. /\ t \in SectionScans /\ t.phase = "forward" /\ t.to = to /\ t.from = s.from /\ t.anchor = s.anchor
    <3> DEFINE r == [s EXCEPT !.to = to]
    <3>1. r \in SectionScans
      BY <1>1, ScanMoves
    <3>2. r.to = to /\ r.read = s.read /\ r.anchor = s.anchor /\ r.from = s.from
      BY DEF SectionScans
    <3> HIDE DEF r
    <3>3. t = Ask(r, "forward", {to + 1})
      BY <2>1 DEF r
    <3> HIDE DEF t
    <3> QED
      BY <3>1, <3>2, <3>3, AskIs
  <2>3. to + 1 \in PageNumbers
    BY <1>1, <1>3 DEF PageNumbers
  <2>4. VisiblyEnds => \E v \in BodyPages : to < v
    <3> SUFFICES ASSUME VisiblyEnds, \A v \in BodyPages : ~(to < v) PROVE FALSE
      OBVIOUS
    <3>1. \A v \in BodyPages : v <= to
      BY <1>1, PagesAreNumbers
    <3> QED
      BY <1>3, <3>1, EndsAreSeen
  <2> HIDE DEF t
  <2> QED
    BY <2>2, <2>3, <2>4 DEF ScanStands, LooksFor, HasItsStart, t
<1> QED
  BY <1>2, <1>3

LEMMA BackGoesOn ==
    ASSUME ActOK, BodyTogether, NEW s \in SectionScans, s.anchor \in BodyPages, NEW from \in BodyPages, from <= s.anchor
    PROVE  ScanStands(BackFrom(s, from))
<1>1. from \in Int /\ from \in Nat /\ from \in PageNumbers /\ s.anchor \in Nat /\ s.anchor \in PageNumbers /\ hits(s.anchor) # {}
  BY PagesAreNumbers DEF BodyPages
<1>2. CASE from = 0 \/ (from - 1 \notin s.read /\ ~mayBeginBefore(from))
  <2>1. BackFrom(s, from) = ForwardFrom([s EXCEPT !.from = from], s.anchor)
    BY <1>2 DEF BackFrom
  <2> DEFINE t == [s EXCEPT !.from = from]
  <2>2. t \in SectionScans /\ t.from = from /\ t.anchor = s.anchor
    BY <1>1 DEF SectionScans
  <2>3. \A v \in BodyPages : ~(v < from)
    <3>1. \A v \in BodyPages : v \in Nat
      BY PagesAreNumbers
    <3> QED
      BY <1>2, <3>1, EndsAreSeen
  <2>4. FirstBody(from)
    BY <1>1, <2>3, PagesAreNumbers DEF FirstBody
  <2>5. HasItsStart(t)
    BY <1>1, <2>2, <2>4 DEF HasItsStart
  <2> HIDE DEF t
  <2> QED
    BY <1>1, <2>1, <2>2, <2>5, ForwardGoesOn DEF t
<1>3. CASE ~(from = 0 \/ (from - 1 \notin s.read /\ ~mayBeginBefore(from)))
  <2> DEFINE t == BackFrom(s, from)
  <2>1. t = Ask([s EXCEPT !.from = from], "back", {from - 1})
    BY <1>3 DEF BackFrom
  <2>2. t \in SectionScans /\ t.phase = "back" /\ t.from = from /\ t.anchor = s.anchor
    <3> DEFINE r == [s EXCEPT !.from = from]
    <3>1. r \in SectionScans
      BY <1>1, ScanMoves
    <3>2. r.from = from /\ r.read = s.read /\ r.anchor = s.anchor /\ r.from = from
      BY DEF SectionScans
    <3> HIDE DEF r
    <3>3. t = Ask(r, "back", {from - 1})
      BY <2>1 DEF r
    <3> HIDE DEF t
    <3> QED
      BY <3>1, <3>2, <3>3, AskIs
  <2> HIDE DEF t
  <2> QED
    BY <1>1, <1>3, <2>2 DEF ScanStands, LooksFor, t
<1> QED
  BY <1>2, <1>3

LEMMA AroundGoesOn ==
    ASSUME ActOK, BodyTogether, NEW s \in SectionScans, NEW u \in BodyPages
    PROVE  ScanStands(Around(s, u))
<1>1. u \in Nat
  BY PagesAreNumbers
<1> DEFINE t == [s EXCEPT !.anchor = u]
<1>2. t \in SectionScans /\ t.anchor = u
  BY <1>1 DEF SectionScans
<1>3. Around(s, u) = BackFrom(t, u)
  BY DEF Around
<1> HIDE DEF t
<1> QED
  BY <1>1, <1>2, <1>3, BackGoesOn

LEMMA LinearGoesOn ==
    ASSUME ActOK, BodyTogether, NEW s \in SectionScans, s.anchor = -1, 0 \in s.read, hits(0) = {}, SectionAssumption,
           NEW start \in Nat, start >= 1, start <= totalPages, 0 .. start - 1 \subseteq s.read,
           \A u \in BodyPages : u >= start
    PROVE  ScanStands(Linear(s, start))
<1>1. totalPages \in Nat \ {0} /\ ScanCap \in Nat \ {0} /\ ScanBatch \in Nat \ {0}
  BY DEF ActOK, SectionAssumption
<1> DEFINE least == Min({ScanCap, totalPages})
           end == Min({start + ScanBatch, ScanCap, totalPages})
<1>2. least \in Nat /\ least <= ScanCap /\ least <= totalPages /\ least \in {ScanCap, totalPages}
  BY <1>1, MinOf
<1>3. end \in Nat /\ end >= 1 /\ end <= ScanCap /\ end <= totalPages
  BY <1>1, MinOf
<1> HIDE DEF least, end
<1>4. CASE start >= least
  <2>1. Linear(s, start) = [s EXCEPT !.phase = "done", !.wanted = {}]
    BY <1>4 DEF Linear, least
  <2>2. least = ScanCap \/ BodyPages = {}
    <3> SUFFICES ASSUME least = totalPages, NEW u \in BodyPages PROVE FALSE
      BY <1>2
    <3>1. u \in Nat /\ u < totalPages /\ u >= start
      BY PagesAreNumbers
    <3> QED
      BY <1>1, <1>4, <3>1
  <2>3. \A u \in BodyPages : u >= ScanCap
    BY <1>1, <1>4, <2>2, PagesAreNumbers
  <2> QED
    BY <2>1, <2>3 DEF ScanStands, LooksFor, SectionScans
<1>5. CASE ~(start >= least)
  <2> DEFINE t == Linear(s, start)
  <2>1. t = Ask([s EXCEPT !.end = end], "linear", start .. end - 1)
    BY <1>5 DEF Linear, least, end
  <2>2. t \in SectionScans /\ t.phase = "linear" /\ t.anchor = -1 /\ t.read = s.read /\ t.end = end
    <3> DEFINE r == [s EXCEPT !.end = end]
    <3>1. r \in SectionScans
      BY <1>3, ScanMoves
    <3>2. r.end = end /\ r.read = s.read /\ r.anchor = s.anchor /\ r.from = s.from
      BY DEF SectionScans
    <3> HIDE DEF r
    <3>3. t = Ask(r, "linear", start .. end - 1)
      BY <2>1 DEF r
    <3> HIDE DEF t
    <3> QED
      BY <3>1, <3>2, <3>3, AskIs
  <2>3. t.wanted = ((start .. end - 1) \cap (1 .. totalPages - 1)) \ s.read
    BY <2>1 DEF Ask, SectionScans
  <2>4. ASSUME NEW u \in 0 .. end - 1 PROVE u \in s.read \cup t.wanted
    <3>1. CASE u < start
      BY <3>1
    <3>2. CASE u >= start
      <4>1. u \in start .. end - 1 /\ u \in 1 .. totalPages - 1
        BY <1>1, <1>3, <3>2
      <4> QED
        BY <2>3, <4>1
    <3> QED
      BY <3>1, <3>2
  <2> HIDE DEF t
  <2>5. ScanStands(t)
    BY <1>3, <2>2, <2>4 DEF ScanStands, LooksFor
  <2> QED
    BY <2>5 DEF t
<1> QED
  BY <1>1, <1>2, <1>4, <1>5

-----------------------------------------------------------------------------
(* The jump: pages whose §§ run in order leave no other place for one.     *)
LEMMA KeysHaveEnds ==
    ASSUME ActOK, NEW u \in PageNumbers, cited(u) # {}
    PROVE  /\ \E i \in cited(u) : Fragments(u)[i].key = Min(keysOn(u))
           /\ \E i \in cited(u) : Fragments(u)[i].key = Max(keysOn(u))
<1>1. keysOn(u) \subseteq Nat /\ keysOn(u) # {}
  BY DEF keysOn, cited, ActOK
<1>2. PICK most \in Nat : \A v \in PageNumbers : \A i \in DOMAIN Fragments(v) : Fragments(v)[i].key <= most
  BY DEF ActOK
<1>3. \A k \in keysOn(u) : k <= most
  BY <1>2 DEF keysOn, cited
<1>4. Min(keysOn(u)) \in keysOn(u) /\ Max(keysOn(u)) \in keysOn(u)
  BY <1>1, <1>3, MinOf, MaxOf
<1> QED
  BY <1>4 DEF keysOn

InBody(read) == \A u \in read : \A i \in cited(u) : Fragments(u)[i].part = "norma"

LEMMA KeysTellTheSide ==
    ASSUME ActOK, BodyInOrder, NEW u \in PageNumbers, NEW i \in cited(u), Fragments(u)[i].part = "norma",
           hits(u) = {}, NEW v \in BodyPages
    PROVE  /\ Fragments(u)[i].key < target => u < v
           /\ Fragments(u)[i].key > target => v < u
           /\ Fragments(u)[i].key # target /\ u # v
<1>1. PICK j \in hits(v) : IsBody(v, j)
  BY DEF BodyPages
<1>2. /\ v \in PageNumbers /\ v \in Int /\ u \in Int /\ i \in DOMAIN Fragments(u) /\ j \in DOMAIN Fragments(v)
      /\ Fragments(v)[j].part = "norma" /\ Fragments(v)[j].key = target /\ Fragments(u)[i].key \in Nat
      /\ target \in Nat /\ target # 0
  <2>1. v \in PageNumbers /\ v \in Int /\ u \in Int
    BY PagesAreNumbers
  <2>2. j \in DOMAIN Fragments(v) /\ Fragments(v)[j].part = "norma" /\ Fragments(v)[j].key = target
    BY <1>1 DEF IsBody, hits
  <2>3. i \in DOMAIN Fragments(u)
    BY DEF cited
  <2>4. Fragments(u)[i].key \in Nat /\ target \in Nat /\ target # 0
    BY <2>3 DEF ActOK
  <2> QED
    BY <2>1, <2>2, <2>3, <2>4
<1>3. j \in cited(v)
  BY <1>2 DEF cited
<1>4. u # v /\ Fragments(u)[i].key # target
  BY <1>1, <1>2 DEF hits
<1>5. u < v => Fragments(u)[i].key <= target
  BY <1>2, <1>3 DEF BodyInOrder
<1>6. v < u => target <= Fragments(u)[i].key
  BY <1>2, <1>3 DEF BodyInOrder
<1> QED
  BY <1>2, <1>4, <1>5, <1>6

LEMMA NoPlaceLeft ==
    ASSUME ActOK, BodyInOrder, NEW read \in SUBSET PageNumbers, InBody(read), \A u \in read : hits(u) = {},
           placeAmong(read) = {}
    PROVE  BodyPages = {}
<1> SUFFICES ASSUME NEW b \in BodyPages PROVE FALSE
  OBVIOUS
<1>0. b \in Nat /\ b < totalPages /\ totalPages \in Nat /\ b \notin read
  BY PagesAreNumbers DEF BodyPages
<1>1. inOrder(read) /\ below(read) # {}
  BY DEF placeAmong
<1>2. ASSUME NEW u \in keyed(read), NEW i \in cited(u)
      PROVE  /\ u \in read /\ u \in PageNumbers /\ u \in Nat /\ Fragments(u)[i].key \in Nat
             /\ Fragments(u)[i].key < target => u < b
             /\ Fragments(u)[i].key > target => b < u
             /\ Fragments(u)[i].key # target
  <2>1. u \in read /\ u \in PageNumbers /\ u \in Nat /\ Fragments(u)[i].key \in Nat
    BY <1>2, PagesAreNumbers DEF keyed, cited, ActOK
  <2> QED
    BY <2>1, KeysTellTheSide DEF InBody
<1>3. ASSUME NEW u \in keyed(read)
      PROVE  /\ \E i \in cited(u) : Fragments(u)[i].key = Min(keysOn(u))
             /\ \E i \in cited(u) : Fragments(u)[i].key = Max(keysOn(u))
  BY <1>3, KeysHaveEnds DEF keyed
<1>4. target \in Nat
  BY DEF ActOK
<1>5. ASSUME NEW u \in keyed(read)
      PROVE  u \in read /\ u \in Nat /\ (u \in below(read) => u < b) /\ (u \in above(read) => b < u)
             /\ (u \in below(read) \/ u \in above(read))
  <2>1. PICK i \in cited(u) : Fragments(u)[i].key = Min(keysOn(u))
    BY <1>3
  <2>2. PICK j \in cited(u) : Fragments(u)[j].key = Max(keysOn(u))
    BY <1>3
  <2>3. /\ u \in read /\ u \in Nat /\ Min(keysOn(u)) \in Nat /\ Max(keysOn(u)) \in Nat
        /\ Min(keysOn(u)) # target /\ Max(keysOn(u)) # target
        /\ (Max(keysOn(u)) < target => u < b) /\ (Min(keysOn(u)) < target => u < b)
        /\ (Max(keysOn(u)) > target => b < u) /\ (Min(keysOn(u)) > target => b < u)
    BY <1>2, <2>1, <2>2
  <2>4. u \in below(read) => Max(keysOn(u)) < target
    BY DEF below
  <2>5. u \in above(read) => Min(keysOn(u)) > target
    BY DEF above
  <2>6. u \in below(read) \/ u \in above(read)
    <3> SUFFICES ASSUME ~(Max(keysOn(u)) < target), ~(Min(keysOn(u)) > target) PROVE FALSE
      BY DEF below, above
    <3>1. Max(keysOn(u)) > target /\ Min(keysOn(u)) < target
      BY <1>4, <2>3
    <3> QED
      BY <1>0, <2>3, <3>1
  <2> QED
    BY <2>3, <2>4, <2>5, <2>6
<1>6. below(read) \subseteq keyed(read) /\ above(read) \subseteq keyed(read)
  BY DEF below, above
<1>7. placeAmong(read) = (Max(below(read)) + 1 .. Min(above(read) \cup {totalPages}) - 1) \ read
  <2>1. keyed(read) = below(read) \cup above(read)
    BY <1>5, <1>6
  <2> QED
    BY <1>1, <2>1 DEF placeAmong
<1>8. Max(below(read)) \in Nat /\ Max(below(read)) < b
  <2>1. below(read) \subseteq Nat /\ \A u \in below(read) : u <= b
    BY <1>0, <1>5, <1>6
  <2>2. Max(below(read)) \in below(read)
    BY <1>0, <1>1, <2>1, MaxOf
  <2> QED
    BY <1>5, <1>6, <2>2
<1>9. Min(above(read) \cup {totalPages}) \in Nat /\ b < Min(above(read) \cup {totalPages})
  <2>1. above(read) \cup {totalPages} \subseteq Nat /\ above(read) \cup {totalPages} # {}
    BY <1>0, <1>5, <1>6
  <2>2. Min(above(read) \cup {totalPages}) \in above(read) \cup {totalPages}
    BY <2>1, MinOf
  <2> QED
    BY <1>0, <1>5, <1>6, <2>2
<1>10. b \in Max(below(read)) + 1 .. Min(above(read) \cup {totalPages}) - 1
  BY <1>0, <1>8, <1>9
<1> QED
  BY <1>0, <1>7, <1>10

LEMMA JumpStaysInTheBody ==
    ASSUME ActOK, BodyTogether, BodyPages # {}, hits(0) = {}, mayJump, NEW s \in SectionScans, sameBody(s)
    PROVE  InBody(s.read)
<1>1. PICK v \in BodyPages : TRUE
  OBVIOUS
<1>2. PICK j \in hits(v) : IsBody(v, j)
  BY DEF BodyPages
<1>3. v \in PageNumbers /\ 0 \in PageNumbers /\ v > 0 /\ j \in DOMAIN Fragments(v) /\ Fragments(v)[j].part = "norma"
  BY <1>2, PagesAreNumbers DEF hits, IsBody
<1>4. \A i \in cited(0) : Fragments(0)[i].part = "norma"
  BY <1>3 DEF ActOK, Ahead2, cited
<1>5. parts(0) = {"norma"}
  BY <1>4 DEF parts, mayJump
<1>6. ASSUME NEW u \in s.read, NEW i \in cited(u) PROVE Fragments(u)[i].part = "norma"
  <2>1. u \in PageNumbers /\ i \in DOMAIN Fragments(u)
    BY DEF SectionScans, cited
  <2>2. Fragments(u)[i].part \in parts(u)
    BY <2>1 DEF parts, ActOK
  <2> QED
    BY <1>5, <2>2 DEF sameBody
<1> QED
  BY <1>6 DEF InBody

LEMMA JumpAsks ==
    ASSUME ActOK, NEW s \in SectionScans, NEW pages, s.anchor = -1, 0 \in s.read, hits(0) = {}, mayJump
    PROVE  ScanStands(Ask(s, "jump", pages))
  BY AskIs DEF ScanStands, LooksFor

LEMMA JumpGoesOn ==
    ASSUME ActOK, BodyTogether, BodyPages # {}, SectionAssumption, NEW s \in SectionScans,
           s.anchor = -1, 0 \in s.read, hits(0) = {}, mayJump
    PROVE  ScanStands(Jump(s))
<1>1. ScanStands(Linear(s, 1))
  <2>1. 0 .. 1 - 1 \subseteq s.read /\ 1 <= totalPages
    BY DEF ActOK
  <2>2. \A u \in BodyPages : u >= 1
    BY PagesAreNumbers DEF BodyPages
  <2> QED
    BY <2>1, <2>2, LinearGoesOn
<1>2. CASE ~sameBody(s)
  BY <1>1, <1>2 DEF Jump
<1>3. CASE sameBody(s) /\ lowestHit(s, totalPages) # {}
  <2>1. lowestHit(s, totalPages) \subseteq Nat
    BY PagesAreNumbers DEF lowestHit, SectionScans
  <2>2. Min(lowestHit(s, totalPages)) \in lowestHit(s, totalPages)
    BY <1>3, <2>1, MinOf
  <2>3. \A u \in lowestHit(s, totalPages) : u \in BodyPages
    <3> SUFFICES ASSUME NEW u \in lowestHit(s, totalPages) PROVE u \in BodyPages
      OBVIOUS
    <3>1. u \in s.read /\ u \in PageNumbers /\ hits(u) # {}
      BY DEF lowestHit, SectionScans
    <3>2. PICK i \in hits(u) : TRUE
      BY <3>1
    <3>3. i \in cited(u)
      BY <3>2 DEF hits, cited, ActOK
    <3>4. Fragments(u)[i].part = "norma"
      BY <1>3, <3>1, <3>3, JumpStaysInTheBody DEF InBody
    <3> QED
      BY <3>1, <3>2, <3>4 DEF BodyPages, IsBody
  <2> QED
    BY <1>3, <2>2, <2>3, AroundGoesOn DEF Jump
<1>4. CASE sameBody(s) /\ lowestHit(s, totalPages) = {} /\ placeAmong(s.read) = {-1}
  BY <1>1, <1>4 DEF Jump
<1>5. CASE sameBody(s) /\ lowestHit(s, totalPages) = {} /\ placeAmong(s.read) = {}
  <2>1. \A u \in s.read : u \in PageNumbers /\ hits(u) = {}
    BY <1>5, PagesAreNumbers DEF lowestHit, SectionScans
  <2>2. ~BodyInOrder
    BY <1>5, <2>1, JumpStaysInTheBody, NoPlaceLeft DEF SectionScans
  <2>3. inOrder(s.read)
    BY <1>5 DEF placeAmong
  <2>4. \A u \in BodyPages : u \notin s.read
    BY <2>1 DEF BodyPages
  <2> DEFINE r == [s EXCEPT !.phase = "done", !.wanted = {}]
  <2>5. Jump(s) = r
    BY <1>5 DEF Jump
  <2>6. r \in SectionScans /\ r.phase = "done" /\ r.anchor = -1 /\ r.read = s.read
    BY DEF SectionScans
  <2> HIDE DEF r
  <2> QED
    BY <2>2, <2>3, <2>4, <2>5, <2>6 DEF ScanStands, LooksFor
<1>6. CASE sameBody(s) /\ lowestHit(s, totalPages) = {} /\ placeAmong(s.read) # {-1} /\ placeAmong(s.read) # {}
  <2>1. Jump(s) = Ask(s, "jump", spread(placeAmong(s.read)))
    BY <1>6 DEF Jump
  <2> QED
    BY <2>1, JumpAsks
<1> QED
  BY <1>2, <1>3, <1>4, <1>5, <1>6

-----------------------------------------------------------------------------
(* A round of reads.                                                       *)
LEMMA FirstOfAllIsBody ==
    ASSUME ActOK, BodyTogether, BodyPages # {}, NEW S \in SUBSET PageNumbers, NEW end \in Nat,
           0 .. end - 1 \subseteq S, {u \in S : u < end /\ hits(u) # {}} # {}
    PROVE  Min({u \in S : u < end /\ hits(u) # {}}) \in BodyPages
<1> DEFINE L == {u \in S : u < end /\ hits(u) # {}}
<1>1. L \subseteq Nat /\ L # {} /\ L \subseteq PageNumbers /\ \A u \in L : hits(u) # {}
  BY PagesAreNumbers
<1>2. Min(L) \in L /\ \A u \in L : Min(L) <= u
  <2> HIDE DEF L
  <2> QED
    BY <1>1, MinOf
<1>3. PICK v \in BodyPages : v <= Min(L)
  <2> HIDE DEF L
  <2> QED
    BY <1>1, <1>2, BodyComesFirst
<1>4. v \in Nat /\ v < end /\ v \in S /\ hits(v) # {} /\ Min(L) \in Nat
  <2>1. v \in Nat /\ hits(v) # {} /\ Min(L) \in Nat /\ Min(L) < end
    BY <1>1, <1>2, PagesAreNumbers DEF BodyPages
  <2>2. v \in 0 .. end - 1
    BY <1>3, <2>1
  <2> QED
    BY <1>3, <2>1, <2>2
<1>5. v \in L
  BY <1>4
<1>6. Min(L) <= v
  BY <1>2, <1>5
<1>7. v = Min(L)
  BY <1>3, <1>4, <1>6
<1> QED
  BY <1>7

LEMMA AroundZero ==
    ASSUME ActOK, BodyTogether, BodyPages # {}, hits(0) # {}
    PROVE  0 \in BodyPages
  BY BodyComesFirst, PagesAreNumbers

LEMMA RoundGoesOn ==
    ASSUME ActOK, BodyTogether, BodyPages # {}, SectionAssumption, NEW s \in SectionScans, ScanStands(s),
           s.phase \in {"zero", "jump", "linear", "back", "forward"},
           NEW t, t = [s EXCEPT !.read = @ \cup s.wanted, !.wanted = {}]
    PROVE  ScanStands(AfterRead(t))
<1>1. /\ t \in SectionScans /\ t.phase = s.phase /\ t.read = s.read \cup s.wanted /\ t.wanted = {} /\ t.end = s.end
      /\ t.anchor = s.anchor /\ t.from = s.from /\ t.to = s.to
  <2>1. s.read \cup s.wanted \in SUBSET PageNumbers /\ {} \in SUBSET PageNumbers
    BY DEF SectionScans
  <2> QED
    BY <2>1 DEF SectionScans
<1>2. CASE s.phase = "zero"
  <2>1. t.anchor = -1 /\ t.read = {0} /\ t.phase = "zero"
    BY <1>1, <1>2 DEF ScanStands, LooksFor
  <2>2. AfterRead(t) = IF hits(0) # {} THEN Around(t, 0)
                       ELSE IF mayJump THEN Ask(t, "jump", {guess - 1, guess, guess + 1, totalPages - 1})
                       ELSE Linear(t, 1)
    BY <2>1 DEF AfterRead
  <2>3. CASE hits(0) # {}
    BY <1>1, <2>2, <2>3, AroundZero, AroundGoesOn
  <2>4. CASE hits(0) = {} /\ mayJump
    <3>1. ScanStands(Ask(t, "jump", {guess - 1, guess, guess + 1, totalPages - 1}))
      BY <1>1, <2>1, <2>4, JumpAsks
    <3> QED
      BY <2>2, <2>4, <3>1
  <2>5. CASE hits(0) = {} /\ ~mayJump
    <3>1. 0 .. 1 - 1 \subseteq t.read /\ 1 <= totalPages
      BY <2>1 DEF ActOK
    <3>2. \A u \in BodyPages : u >= 1
      BY <2>5, PagesAreNumbers DEF BodyPages
    <3>3. ScanStands(Linear(t, 1))
      <4>1. t \in SectionScans /\ t.anchor = -1 /\ 0 \in t.read /\ hits(0) = {}
        BY <1>1, <2>1, <2>5
      <4>2. 1 \in Nat /\ 1 >= 1
        OBVIOUS
      <4> QED
        BY <3>1, <3>2, <4>1, <4>2, LinearGoesOn
    <3> QED
      BY <2>2, <2>5, <3>3
  <2> QED
    BY <2>3, <2>4, <2>5
<1>3. CASE s.phase = "jump"
  <2>1. t.anchor = -1 /\ 0 \in t.read /\ hits(0) = {} /\ mayJump /\ t.phase = "jump"
    BY <1>1, <1>3 DEF ScanStands, LooksFor
  <2>2. AfterRead(t) = Jump(t)
    BY <2>1 DEF AfterRead
  <2> QED
    BY <1>1, <2>1, <2>2, JumpGoesOn
<1>4. CASE s.phase = "linear"
  <2>1. /\ t.anchor = -1 /\ 0 \in t.read /\ hits(0) = {} /\ t.phase = "linear"
        /\ t.end \in Nat /\ t.end >= 1 /\ t.end <= totalPages /\ 0 .. t.end - 1 \subseteq t.read
    BY <1>1, <1>4 DEF ScanStands, LooksFor, SectionScans
  <2>2. AfterRead(t) = IF lowestHit(t, t.end) # {} THEN Around(t, Min(lowestHit(t, t.end))) ELSE Linear(t, t.end)
    BY <2>1 DEF AfterRead
  <2>3. lowestHit(t, t.end) = {u \in t.read : u < t.end /\ hits(u) # {}} /\ t.read \in SUBSET PageNumbers
    BY <1>1 DEF lowestHit, SectionScans
  <2>4. CASE lowestHit(t, t.end) # {}
    <3>1. Min(lowestHit(t, t.end)) \in BodyPages
      BY <2>1, <2>3, <2>4, FirstOfAllIsBody
    <3>2. ScanStands(Around(t, Min(lowestHit(t, t.end))))
      BY <1>1, <3>1, AroundGoesOn
    <3> QED
      BY <2>2, <2>4, <3>2
  <2>5. CASE lowestHit(t, t.end) = {}
    <3>1. \A u \in BodyPages : u >= t.end
      <4> SUFFICES ASSUME NEW u \in BodyPages, ~(u >= t.end) PROVE FALSE
        OBVIOUS
      <4>1. u \in Nat /\ u < t.end /\ hits(u) # {}
        BY <2>1, PagesAreNumbers DEF BodyPages
      <4>2. u \in t.read
        BY <2>1, <4>1
      <4> QED
        BY <2>3, <2>5, <4>1, <4>2
    <3>2. ScanStands(Linear(t, t.end))
      BY <1>1, <2>1, <3>1, LinearGoesOn
    <3> QED
      BY <2>2, <2>5, <3>2
  <2> QED
    BY <2>4, <2>5
<1>5. CASE s.phase = "back"
  <2>1. t.anchor \in BodyPages /\ t.from \in BodyPages /\ t.from <= t.anchor /\ t.from > 0 /\ t.phase = "back"
    BY <1>1, <1>5 DEF ScanStands, LooksFor
  <2>2. AfterRead(t) = IF hits(t.from - 1) # {} THEN BackFrom(t, t.from - 1) ELSE ForwardFrom(t, t.anchor)
    BY <2>1 DEF AfterRead
  <2>3. t.from \in Nat /\ t.anchor \in Nat /\ t.from - 1 \in PageNumbers /\ t.anchor \in PageNumbers
        /\ t.from - 1 <= t.from /\ t.from - 1 <= t.anchor
    <3>1. t.from \in Nat /\ t.anchor \in Nat /\ t.anchor \in PageNumbers /\ t.from < totalPages /\ totalPages \in Nat
      BY <2>1, PagesAreNumbers
    <3> QED
      BY <2>1, <3>1 DEF PageNumbers
  <2>4. CASE hits(t.from - 1) # {}
    <3>1. t.from - 1 \in BodyPages
      BY <2>1, <2>3, <2>4, BodyComesFirst, PagesAreTogether
    <3> QED
      BY <1>1, <2>1, <2>2, <2>3, <2>4, <3>1, BackGoesOn
  <2>5. CASE hits(t.from - 1) = {}
    <3>1. ASSUME NEW v \in BodyPages PROVE t.from <= v
      <4>1. v \in Nat
        BY PagesAreNumbers
      <4>2. t.from - 1 \notin BodyPages
        BY <2>5 DEF BodyPages
      <4>3. ~(v <= t.from - 1)
        BY <2>1, <2>3, <4>2, PagesAreTogether
      <4> QED
        BY <2>3, <4>1, <4>3
    <3>2. HasItsStart(t)
      BY <2>1, <2>3, <3>1 DEF HasItsStart, FirstBody
    <3>3. hits(t.anchor) # {}
      BY <2>1 DEF BodyPages
    <3> QED
      BY <1>1, <2>1, <2>2, <2>3, <2>5, <3>2, <3>3, ForwardGoesOn
  <2> QED
    BY <2>4, <2>5
<1>6. CASE s.phase = "forward"
  <2>1. /\ HasItsStart(t) /\ t.to \in PageNumbers /\ t.to + 1 \in PageNumbers /\ t.from <= t.to /\ t.phase = "forward"
        /\ VisiblyEnds => \E v \in BodyPages : t.to < v
    BY <1>1, <1>6 DEF ScanStands, LooksFor, HasItsStart
  <2>2. AfterRead(t) = IF hits(t.to + 1) # {} THEN ForwardFrom(t, t.to + 1) ELSE [t EXCEPT !.phase = "done"]
    BY <2>1 DEF AfterRead
  <2>3. t.to \in Nat /\ t.from \in Nat /\ t.from \in BodyPages /\ t.from <= t.to + 1
    <3>1. t.to \in Nat /\ t.from \in Nat /\ t.from \in BodyPages
      BY <2>1, PagesAreNumbers DEF HasItsStart, FirstBody
    <3> QED
      BY <2>1, <3>1
  <2>4. ASSUME NEW v \in BodyPages, t.to < v PROVE t.to + 1 \in BodyPages
    <3>1. v \in Nat /\ t.to + 1 <= v
      BY <2>3, <2>4, PagesAreNumbers
    <3> QED
      BY <2>1, <2>3, <3>1, PagesAreTogether
  <2>5. CASE hits(t.to + 1) # {}
    BY <1>1, <2>1, <2>2, <2>3, <2>4, <2>5, ForwardGoesOn
  <2>6. CASE hits(t.to + 1) = {}
    <3>1. \A v \in BodyPages : ~(t.to < v)
      BY <2>4, <2>6 DEF BodyPages
    <3>2. \A v \in BodyPages : v <= t.to
      BY <2>3, <3>1, PagesAreNumbers
    <3>3. ~VisiblyEnds
      BY <2>1, <3>1
    <3> DEFINE r == [t EXCEPT !.phase = "done"]
    <3>4. r \in SectionScans /\ r.phase = "done" /\ r.anchor = t.anchor /\ r.from = t.from /\ r.to = t.to
      BY <1>1 DEF SectionScans
    <3> HIDE DEF r
    <3>5. ScanStands(r)
      BY <2>1, <3>2, <3>3, <3>4 DEF ScanStands, LooksFor, HasItsStart
    <3> QED
      BY <2>2, <2>6, <3>5 DEF r
  <2> QED
    BY <2>5, <2>6
<1> QED
  BY <1>2, <1>3, <1>4, <1>5, <1>6

-----------------------------------------------------------------------------
(* Sequences put one after the other (SequencesExt!FlattenSeq).            *)
FlattensTo(s, f, n, X) ==
    /\ f \in [0 .. n -> Seq(X)]
    /\ f[0] = <<>> /\ \A i \in 1 .. n : f[i] = f[i - 1] \o s[i]

LEMMA FlattensExist ==
    ASSUME NEW X, NEW n \in Nat, NEW s \in [1 .. n -> Seq(X)]
    PROVE  \E f : FlattensTo(s, f, n, X)
<1> DEFINE G == {m \in 0 .. n : \E f : FlattensTo(s, f, m, X)}
<1>1. 0 \in G
  <2> DEFINE f == [i \in 0 .. 0 |-> <<>>]
  <2>1. FlattensTo(s, f, 0, X)
    BY DEF FlattensTo
  <2> QED
    BY <2>1
<1>2. ASSUME NEW m \in 1 .. n, m - 1 \in G PROVE m \in G
  <2>1. PICK f : FlattensTo(s, f, m - 1, X)
    BY <1>2
  <2> DEFINE g == [i \in 0 .. m |-> IF i = m THEN f[m - 1] \o s[m] ELSE f[i]]
  <2>2. m \in Nat /\ m >= 1 /\ s[m] \in Seq(X) /\ f[m - 1] \in Seq(X) /\ m - 1 \in 0 .. m - 1 /\ m \in 0 .. n
    BY <2>1 DEF FlattensTo
  <2>3. \A i \in 0 .. m : i # m => i \in 0 .. m - 1
    BY <2>2
  <2>4. g \in [0 .. m -> Seq(X)]
    <3> SUFFICES ASSUME NEW i \in 0 .. m PROVE (IF i = m THEN f[m - 1] \o s[m] ELSE f[i]) \in Seq(X)
      OBVIOUS
    <3>1. CASE i = m
      BY <2>2, <3>1, ConcatProperties
    <3>2. CASE i # m
      BY <2>1, <2>3, <3>2 DEF FlattensTo
    <3> QED
      BY <3>1, <3>2
  <2>5. g[0] = <<>>
    BY <2>1, <2>2 DEF FlattensTo
  <2>6. ASSUME NEW i \in 1 .. m PROVE g[i] = g[i - 1] \o s[i]
    <3>1. i \in 0 .. m /\ i - 1 \in 0 .. m /\ i - 1 # m
      BY <2>2
    <3>2. CASE i = m
      BY <3>1, <3>2
    <3>3. CASE i # m
      <4>1. i \in 1 .. m - 1
        BY <2>2, <3>3
      <4> QED
        BY <2>1, <3>1, <3>3, <4>1 DEF FlattensTo
    <3> QED
      BY <3>2, <3>3
  <2>7. FlattensTo(s, g, m, X)
    BY <2>4, <2>5, <2>6 DEF FlattensTo
  <2> QED
    BY <2>2, <2>7
<1> HIDE DEF G
<1>3. \A k \in 0 .. n : k \in G
  BY <1>1, <1>2, UpTo
<1> QED
  BY <1>3 DEF G

LEMMA FlattensOnce ==
    ASSUME NEW X, NEW n \in Nat, NEW s \in [1 .. n -> Seq(X)], NEW f, FlattensTo(s, f, n, X)
    PROVE  FlattenSeq(s) = f[n]
<1>1. Len(s) = n /\ s \in Seq(Seq(X))
  <2>1. s \in Seq(Seq(X))
    BY SeqDef
  <2> QED
    BY <2>1, LenProperties
<1>2. CASE n = 0
  <2>1. s = <<>>
    BY <1>1, <1>2, EmptySeq
  <2> QED
    BY <1>1, <1>2, <2>1 DEF FlattenSeq, FlattensTo
<1>3. CASE n # 0
  <2> DEFINE Is(g) == g = [i \in 1 .. n |-> IF i = 1 THEN s[i] ELSE g[i - 1] \o s[i]]
             h == [i \in 1 .. n |-> f[i]]
             g == CHOOSE x : Is(x)
  <2>1. Is(h)
    <3> SUFFICES ASSUME NEW i \in 1 .. n PROVE f[i] = IF i = 1 THEN s[i] ELSE h[i - 1] \o s[i]
      OBVIOUS
    <3>1. f[i] = f[i - 1] \o s[i] /\ s[i] \in Seq(X)
      BY DEF FlattensTo
    <3>2. CASE i = 1
      <4>1. f[0] = <<>>
        BY DEF FlattensTo
      <4>2. <<>> \o s[i] = s[i]
        BY <3>1, ConcatEmptySeq
      <4> QED
        BY <3>1, <3>2, <4>1, <4>2
    <3>3. CASE i # 1
      <4>1. i - 1 \in 1 .. n
        BY <3>3
      <4> QED
        BY <3>1, <3>3, <4>1
    <3> QED
      BY <3>2, <3>3
  <2>2. Is(g)
    BY <2>1
  <2>3. FlattenSeq(s) = g[n]
    BY <1>1, <1>3 DEF FlattenSeq
  <2> DEFINE G == {m \in 0 .. n : m = 0 \/ g[m] = f[m]}
  <2>4. ASSUME NEW m \in 1 .. n, m - 1 \in G PROVE m \in G
    <3>1. g[m] = IF m = 1 THEN s[m] ELSE g[m - 1] \o s[m]
      <4> HIDE DEF g
      <4> QED
        BY <2>2
    <3>2. f[m] = IF m = 1 THEN s[m] ELSE h[m - 1] \o s[m]
      <4>1. h[m] = f[m]
        OBVIOUS
      <4>2. h[m] = IF m = 1 THEN s[m] ELSE h[m - 1] \o s[m]
        <5> HIDE DEF h
        <5> QED
          BY <2>1
      <4> QED
        BY <4>1, <4>2
    <3>3. m # 1 => m - 1 \in 1 .. n /\ m - 1 # 0
      OBVIOUS
    <3>4. m # 1 => h[m - 1] = f[m - 1] /\ g[m - 1] = f[m - 1]
      <4> HIDE DEF g
      <4> QED
        BY <2>4, <3>3
    <3>5. g[m] = f[m]
      BY <3>1, <3>2, <3>4
    <3> HIDE DEF g
    <3> QED
      BY <3>5
  <2>5. 0 \in G
    OBVIOUS
  <2> HIDE DEF G
  <2>6. \A k \in 0 .. n : k \in G
    BY <2>4, <2>5, UpTo
  <2>7. g[n] = f[n]
    <3>1. n \in G
      BY <2>6
    <3> HIDE DEF g
    <3> QED
      BY <1>3, <3>1 DEF G
  <2> QED
    BY <2>3, <2>7
<1> QED
  BY <1>2, <1>3

LEMMA FlattenType ==
    ASSUME NEW X, NEW n \in Nat, NEW s \in [1 .. n -> Seq(X)]
    PROVE  FlattenSeq(s) \in Seq(X)
<1>1. PICK f : FlattensTo(s, f, n, X)
  BY FlattensExist
<1>2. f[n] \in Seq(X)
  BY <1>1 DEF FlattensTo
<1> QED
  BY <1>1, <1>2, FlattensOnce

-----------------------------------------------------------------------------
(* The acts of the sections: their lines, on pages of two.                 *)
Lines == [key : Nat, part : {"norma", "prilohy"}, heading : BOOLEAN]

OneAfterTheOther(S, a, b, c) ==
    /\ c \in Seq(S) /\ Len(a) \in Nat /\ Len(b) \in Nat /\ Len(c) = Len(a) + Len(b)
    /\ DOMAIN c = 1 .. Len(a) + Len(b)
    /\ \A p \in 1 .. Len(a) : p \in DOMAIN c /\ c[p] = a[p]
    /\ \A p \in DOMAIN c : p > Len(a) => p - Len(a) \in 1 .. Len(b) /\ c[p] = b[p - Len(a)]

LEMMA ConcatOf ==
    ASSUME NEW S, NEW a \in Seq(S), NEW b \in Seq(S), NEW c, c = a \o b
    PROVE  OneAfterTheOther(S, a, b, c)
<1>1. Len(a) \in Nat /\ Len(b) \in Nat
  BY LenProperties
<1>2. c \in Seq(S) /\ Len(c) = Len(a) + Len(b)
      /\ \A p \in 1 .. Len(a) + Len(b) : c[p] = IF p <= Len(a) THEN a[p] ELSE b[p - Len(a)]
  BY ConcatProperties
<1>3. DOMAIN c = 1 .. Len(a) + Len(b)
  BY <1>2, LenProperties
<1> QED
  BY <1>1, <1>2, <1>3 DEF OneAfterTheOther

InPagesOfTwo(X, s, pages) ==
    /\ pages \in Seq(Seq(X))
    /\ \A u \in 0 .. Len(pages) - 1 :
         /\ Len(pages[u + 1]) \in Nat \ {0} /\ DOMAIN pages[u + 1] = 1 .. Len(pages[u + 1])
         /\ \A i \in DOMAIN pages[u + 1] : i \in 1 .. 2 /\ 2 * u + i \in 1 .. Len(s)
                                           /\ pages[u + 1][i] = s[2 * u + i]
    /\ s # <<>> => Len(pages) \in Nat \ {0}

LEMMA PagesOfTwo ==
    ASSUME NEW X, NEW s \in Seq(X), NEW pages, pages = Paged(s, 2)
    PROVE  InPagesOfTwo(X, s, pages)
<1> DEFINE n == Len(s)
           k == (n + 2 - 1) \div 2
           last(u) == Min({u * 2, n})
<1>1. n \in Nat /\ k \in Nat /\ 2 * k <= n + 1 /\ n <= 2 * k
  OBVIOUS
<1>2. ASSUME NEW u \in 1 .. k
      PROVE  /\ last(u) \in Nat /\ last(u) <= n /\ last(u) <= u * 2 /\ (u - 1) * 2 + 1 <= last(u)
             /\ (u - 1) * 2 \in Nat /\ last(u) - (u - 1) * 2 \in {1, 2}
  <2>1. {u * 2, n} \subseteq Nat /\ {u * 2, n} # {}
    BY <1>1
  <2>2. last(u) \in {u * 2, n} /\ last(u) <= u * 2 /\ last(u) <= n
    BY <2>1, MinOf
  <2> HIDE DEF last
  <2> QED
    BY <1>1, <2>1, <2>2
<1>3. pages = [u \in 1 .. k |-> SubSeq(s, (u - 1) * 2 + 1, last(u))]
  BY DEF Paged
<1>4. ASSUME NEW u \in 1 .. k
      PROVE  /\ pages[u] \in Seq(X) /\ Len(pages[u]) \in {1, 2} /\ DOMAIN pages[u] = 1 .. Len(pages[u])
             /\ \A i \in DOMAIN pages[u] : i \in 1 .. 2 /\ (u - 1) * 2 + i \in 1 .. n /\ pages[u][i] = s[(u - 1) * 2 + i]
  <2> DEFINE m == (u - 1) * 2 + 1
  <2>1. pages[u] = SubSeq(s, m, last(u))
    BY <1>3
  <2>2. m \in 1 .. n + 1 /\ last(u) \in m - 1 .. n /\ last(u) - m + 1 \in {1, 2} /\ last(u) <= n
    BY <1>1, <1>2
  <2> HIDE DEF last, m, n
  <2>3. /\ SubSeq(s, m, last(u)) \in Seq(X)
        /\ Len(SubSeq(s, m, last(u))) = last(u) - m + 1
        /\ \A i \in 1 .. last(u) - m + 1 : SubSeq(s, m, last(u))[i] = s[m + i - 1]
    BY <2>2, SubSeqProperties DEF n
  <2>4. pages[u] \in Seq(X) /\ Len(pages[u]) \in {1, 2} /\ DOMAIN pages[u] = 1 .. Len(pages[u])
    <3>1. pages[u] \in Seq(X) /\ Len(pages[u]) \in {1, 2}
      BY <2>1, <2>2, <2>3
    <3> QED
      BY <3>1, LenProperties
  <2>5. ASSUME NEW i \in DOMAIN pages[u]
        PROVE  i \in 1 .. 2 /\ (u - 1) * 2 + i \in 1 .. n /\ pages[u][i] = s[(u - 1) * 2 + i]
    <3>1. i \in 1 .. last(u) - m + 1 /\ i \in 1 .. 2
      BY <2>1, <2>2, <2>3, <2>4
    <3>2. m + i - 1 = (u - 1) * 2 + i
      BY <3>1 DEF m
    <3>3. m + i - 1 \in 1 .. n
      BY <1>1, <2>2, <3>1
    <3> QED
      BY <2>1, <2>3, <3>1, <3>2, <3>3
  <2> QED
    BY <2>4, <2>5
<1>5. Len(pages) = k /\ pages \in Seq(Seq(X))
  <2>1. pages \in [1 .. k -> Seq(X)]
    BY <1>3, <1>4
  <2>2. pages \in Seq(Seq(X))
    BY <1>1, <2>1, SeqDef
  <2> QED
    BY <1>1, <2>1, <2>2, LenProperties
<1>6. ASSUME NEW u \in 0 .. k - 1
      PROVE  /\ Len(pages[u + 1]) \in Nat \ {0} /\ DOMAIN pages[u + 1] = 1 .. Len(pages[u + 1])
             /\ \A i \in DOMAIN pages[u + 1] : i \in 1 .. 2 /\ 2 * u + i \in 1 .. n /\ pages[u + 1][i] = s[2 * u + i]
  <2>1. u + 1 \in 1 .. k /\ (u + 1 - 1) * 2 = 2 * u
    BY <1>1
  <2>2. /\ Len(pages[u + 1]) \in {1, 2} /\ DOMAIN pages[u + 1] = 1 .. Len(pages[u + 1])
        /\ \A i \in DOMAIN pages[u + 1] :
             i \in 1 .. 2 /\ (u + 1 - 1) * 2 + i \in 1 .. n /\ pages[u + 1][i] = s[(u + 1 - 1) * 2 + i]
    <3> HIDE DEF k, n
    <3> QED
      BY <1>4, <2>1
  <2> HIDE DEF k, n
  <2>3. PICK v : v = (u + 1 - 1) * 2 /\ v = 2 * u
    BY <2>1
  <2>4. \A i \in DOMAIN pages[u + 1] : i \in 1 .. 2 /\ v + i \in 1 .. n /\ pages[u + 1][i] = s[v + i]
    BY <2>2, <2>3, Zenon
  <2>5. \A i \in DOMAIN pages[u + 1] : i \in 1 .. 2 /\ 2 * u + i \in 1 .. n /\ pages[u + 1][i] = s[2 * u + i]
    BY <2>3, <2>4, Zenon
  <2>6. Len(pages[u + 1]) \in Nat \ {0}
    <3>1. PICK l \in {1, 2} : l = Len(pages[u + 1])
      BY <2>2, Zenon
    <3>2. l \in Nat \ {0}
      BY ONLY l \in {1, 2}
    <3> QED
      BY <3>1, <3>2, Zenon
  <2> QED
    BY <2>2, <2>5, <2>6, Zenon
<1>7. s # <<>> => k # 0
  BY <1>1, EmptySeq
<1> QED
  BY <1>1, <1>5, <1>6, <1>7 DEF InPagesOfTwo

FirstLine == [key |-> 0, part |-> "norma", heading |-> FALSE]
BodyLines == {l \in Lines : l.key \in 1 .. 5 /\ l.part = "norma"}
AnnexLines == {l \in Lines : l.key \in 1 .. 5 /\ l.part = "prilohy"}

IsAnAct(s) ==
    /\ s \in Seq(Lines) /\ s # <<>>
    /\ \A p \in DOMAIN s : s[p].key <= 5 /\ (s[p].key = 0 => p = 1 /\ ~s[p].heading)
    /\ \A p, q \in DOMAIN s : p < q /\ s[p].part = "prilohy" => s[q].part = "prilohy"

LEMMA FunctionsAreSeqs ==
    ASSUME NEW X, NEW n \in Nat, NEW f \in [1 .. n -> X]
    PROVE  f \in Seq(X)
  BY SeqDef

LEMMA ActParts ==
    ASSUME NEW lengths \in [1 .. 5 -> {0, 1, 3}], NEW order \in {<<1, 2, 3, 4, 5>>, <<1, 4, 2, 3, 5>>}
    PROVE  /\ Body(lengths, order) \in Seq(BodyLines)
           /\ Annex \in Seq(AnnexLines)
           /\ Chapter \in Seq(Lines) /\ Len(Chapter) = 1 /\ Chapter[1] = FirstLine
<1> DEFINE body == [k \in DOMAIN order |->
                      [i \in 1 .. lengths[order[k]] |-> [key |-> order[k], part |-> "norma", heading |-> i = 1]]]
<1>1. body \in [1 .. 5 -> Seq(BodyLines)]
  <2>1. DOMAIN order = 1 .. 5 /\ \A k \in 1 .. 5 : order[k] \in 1 .. 5
    OBVIOUS
  <2>2. ASSUME NEW k \in 1 .. 5
        PROVE  [i \in 1 .. lengths[order[k]] |-> [key |-> order[k], part |-> "norma", heading |-> i = 1]] \in Seq(BodyLines)
    <3>1. lengths[order[k]] \in Nat /\ order[k] \in Nat /\ order[k] \in 1 .. 5
      BY <2>1
    <3>2. \A i : [key |-> order[k], part |-> "norma", heading |-> i = 1] \in BodyLines
      BY <3>1 DEF Lines, BodyLines
    <3>3. [i \in 1 .. lengths[order[k]] |-> [key |-> order[k], part |-> "norma", heading |-> i = 1]]
            \in [1 .. lengths[order[k]] -> BodyLines]
      BY <3>2
    <3> QED
      BY <3>1, <3>3, FunctionsAreSeqs
  <2> QED
    BY <2>1, <2>2
<1>2. Body(lengths, order) \in Seq(BodyLines)
  <2>1. Body(lengths, order) = FlattenSeq(body)
    BY DEF Body
  <2> HIDE DEF body
  <2> QED
    BY <1>1, <2>1, FlattenType
<1>3. Annex \in Seq(AnnexLines)
  <2>1. \A k \in 1 .. 5 : [key |-> k, part |-> "prilohy", heading |-> TRUE] \in AnnexLines
    BY DEF Lines, AnnexLines
  <2>2. Annex \in [1 .. 5 -> AnnexLines]
    BY <2>1 DEF Annex
  <2> QED
    BY <2>2, FunctionsAreSeqs
<1>4. Chapter \in Seq(Lines) /\ Len(Chapter) = 1 /\ Chapter[1] = FirstLine
  BY DEF Chapter, FirstLine, Lines
<1> QED
  BY <1>2, <1>3, <1>4

LEMMA LinesInARow ==
    ASSUME NEW a \in Seq(Lines), Len(a) = 1, a[1] = FirstLine, NEW b \in Seq(BodyLines), NEW d \in Seq(AnnexLines),
           NEW s, s = (a \o b) \o d
    PROVE  IsAnAct(s)
<1>1. PICK c : c = a \o b
  OBVIOUS
<1>2. b \in Seq(Lines) /\ d \in Seq(Lines)
  <2>1. BodyLines \subseteq Lines /\ AnnexLines \subseteq Lines
    BY DEF BodyLines, AnnexLines
  <2> QED
    BY <2>1, SeqMonotonic
<1>3. /\ c \in Seq(Lines) /\ Len(c) = 1 + Len(b) /\ Len(b) \in Nat /\ c[1] = FirstLine
      /\ \A p \in DOMAIN c : p > 1 => p - 1 \in 1 .. Len(b) /\ c[p] = b[p - 1]
  <2>1. /\ c \in Seq(Lines) /\ Len(b) \in Nat /\ Len(c) = Len(a) + Len(b)
        /\ \A p \in 1 .. Len(a) : p \in DOMAIN c /\ c[p] = a[p]
        /\ \A p \in DOMAIN c : p > Len(a) => p - Len(a) \in 1 .. Len(b) /\ c[p] = b[p - Len(a)]
    <3>1. OneAfterTheOther(Lines, a, b, c)
      BY <1>1, <1>2, ConcatOf
    <3> QED
      BY <3>1 DEF OneAfterTheOther
  <2> QED
    BY <2>1
<1>4. \A p \in DOMAIN c : p > 1 => c[p] \in BodyLines
  <2>1. \A p \in 1 .. Len(b) : b[p] \in BodyLines
    OBVIOUS
  <2> QED
    BY <1>3, <2>1
<1>5. s = c \o d
  BY <1>1
<1>6. /\ s \in Seq(Lines) /\ DOMAIN s = 1 .. Len(c) + Len(d) /\ Len(d) \in Nat /\ Len(c) \in Nat
      /\ \A p \in 1 .. Len(c) : s[p] = c[p]
      /\ \A p \in DOMAIN s : p > Len(c) => p - Len(c) \in 1 .. Len(d) /\ s[p] = d[p - Len(c)]
  <2>1. /\ s \in Seq(Lines) /\ Len(d) \in Nat /\ Len(c) \in Nat /\ DOMAIN s = 1 .. Len(c) + Len(d)
        /\ \A p \in 1 .. Len(c) : p \in DOMAIN s /\ s[p] = c[p]
        /\ \A p \in DOMAIN s : p > Len(c) => p - Len(c) \in 1 .. Len(d) /\ s[p] = d[p - Len(c)]
    <3>1. OneAfterTheOther(Lines, c, d, s)
      BY <1>2, <1>3, <1>5, ConcatOf
    <3> QED
      BY <3>1 DEF OneAfterTheOther
  <2> QED
    BY <2>1
<1>7. ASSUME NEW p \in DOMAIN s
      PROVE  /\ p \in Nat /\ p >= 1 /\ (p = 1 => s[p] = FirstLine)
             /\ (p > 1 /\ p <= Len(c)) => s[p] \in BodyLines
             /\ p > Len(c) => s[p] \in AnnexLines
  <2>1. p \in Nat /\ p >= 1 /\ Len(c) \in Nat /\ Len(c) >= 1
    BY <1>3, <1>6
  <2>2. p <= Len(c) => p \in 1 .. Len(c) /\ p \in DOMAIN c /\ s[p] = c[p]
    BY <1>3, <1>6, <2>1
  <2>3. \A q \in 1 .. Len(d) : d[q] \in AnnexLines
    OBVIOUS
  <2> QED
    BY <1>3, <1>4, <1>6, <2>1, <2>2, <2>3
<1>8. /\ FirstLine.key = 0 /\ FirstLine.part = "norma" /\ ~FirstLine.heading
      /\ \A l \in BodyLines : l.key \in 1 .. 5 /\ l.part = "norma"
      /\ \A l \in AnnexLines : l.key \in 1 .. 5 /\ l.part = "prilohy"
  BY DEF FirstLine, BodyLines, AnnexLines
<1>9. s # <<>>
  <2>1. 1 \in DOMAIN s
    BY <1>3, <1>6
  <2> QED
    BY <2>1
<1>10. ASSUME NEW p \in DOMAIN s PROVE s[p].key <= 5 /\ (s[p].key = 0 => p = 1 /\ ~s[p].heading)
  <2>1. p \in Nat /\ p >= 1 /\ Len(c) \in Nat
    BY <1>6, <1>7
  <2>2. CASE p = 1
    <3>1. s[p] = FirstLine
      BY <1>7, <2>2
    <3>2. s[p].key = 0 /\ ~s[p].heading
      BY <1>8, <3>1
    <3> QED
      BY <2>2, <3>2
  <2>3. CASE p # 1
    <3>1. p > 1 /\ (p <= Len(c) \/ p > Len(c))
      BY <2>1, <2>3
    <3>2. s[p] \in BodyLines \/ s[p] \in AnnexLines
      BY <1>7, <3>1
    <3>3. s[p].key \in 1 .. 5
      BY <1>8, <3>2
    <3>4. \A k \in 1 .. 5 : k <= 5 /\ k # 0
      OBVIOUS
    <3>5. s[p].key <= 5 /\ s[p].key # 0
      BY <3>3, <3>4
    <3> QED
      BY <3>5
  <2> QED
    BY <2>2, <2>3
<1>11. ASSUME NEW p \in DOMAIN s, NEW q \in DOMAIN s, p < q, s[p].part = "prilohy" PROVE s[q].part = "prilohy"
  <2>1. p \in Nat /\ q \in Nat /\ Len(c) \in Nat /\ p >= 1
    BY <1>6, <1>7
  <2>2. p > Len(c)
    <3> SUFFICES ASSUME p <= Len(c) PROVE FALSE
      BY <2>1
    <3>1. s[p] = FirstLine \/ s[p] \in BodyLines
      BY <1>7, <2>1
    <3> QED
      BY <1>8, <1>11, <3>1
  <2>3. s[q] \in AnnexLines
    BY <1>7, <1>11, <2>1, <2>2
  <2> QED
    BY <1>8, <2>3
<1> QED
  BY <1>6, <1>9, <1>10, <1>11 DEF IsAnAct

LEMMA LinesOfSections ==
    ASSUME NEW lengths \in [1 .. 5 -> {0, 1, 3}], NEW order \in {<<1, 2, 3, 4, 5>>, <<1, 4, 2, 3, 5>>},
           NEW annex \in {<<>>, Annex}, NEW s, s = (Chapter \o Body(lengths, order)) \o annex
    PROVE  IsAnAct(s)
<1>1. annex \in Seq(AnnexLines)
  <2>1. <<>> \in Seq(AnnexLines)
    OBVIOUS
  <2> QED
    BY <2>1, ActParts
<1>2. PICK a : a = Chapter
  OBVIOUS
<1>3. PICK b : b = Body(lengths, order)
  OBVIOUS
<1>4. a \in Seq(Lines) /\ Len(a) = 1 /\ a[1] = FirstLine /\ b \in Seq(BodyLines)
  BY <1>2, <1>3, ActParts
<1>5. s = (a \o b) \o annex
  BY <1>2, <1>3
<1> QED
  BY <1>1, <1>4, <1>5, LinesInARow

-----------------------------------------------------------------------------
LEMMA SectionActsAreOK ==
    ASSUME act \in SectionActs, target \in 1 .. 5
    PROVE  ActOK
<1>1. PICK lengths \in [1 .. 5 -> {0, 1, 3}], order \in {<<1, 2, 3, 4, 5>>, <<1, 4, 2, 3, 5>>}, annex \in {<<>>, Annex} :
        act = Paged(Chapter \o Body(lengths, order) \o annex, 2)
  BY DEF SectionActs
<1>2. PICK s : s = (Chapter \o Body(lengths, order)) \o annex
  OBVIOUS
<1>3. /\ s \in Seq(Lines) /\ s # <<>>
      /\ \A p \in DOMAIN s : s[p].key <= 5 /\ (s[p].key = 0 => p = 1 /\ ~s[p].heading)
      /\ \A p, q \in DOMAIN s : p < q /\ s[p].part = "prilohy" => s[q].part = "prilohy"
  <2>1. IsAnAct(s)
    BY <1>2, LinesOfSections
  <2> QED
    BY <2>1 DEF IsAnAct
<1>4. InPagesOfTwo(Lines, s, act)
  <2>1. act = Paged(s, 2)
    BY <1>1, <1>2
  <2> QED
    BY <1>3, <2>1, PagesOfTwo
<1>5. totalPages \in Nat \ {0} /\ \A u \in PageNumbers : u \in Nat /\ u \in 0 .. Len(act) - 1
  BY <1>3, <1>4 DEF InPagesOfTwo, totalPages, PageNumbers
<1>6. ASSUME NEW u \in PageNumbers
      PROVE  /\ Len(Fragments(u)) \in Nat \ {0} /\ DOMAIN Fragments(u) = 1 .. Len(Fragments(u))
             /\ \A i \in DOMAIN Fragments(u) : i \in 1 .. 2 /\ 2 * u + i \in DOMAIN s /\ Fragments(u)[i] = s[2 * u + i]
  <2>1. DOMAIN s = 1 .. Len(s)
    BY <1>3, LenProperties
  <2> QED
    BY <1>4, <1>5, <2>1 DEF InPagesOfTwo, Fragments
<1>7. \A p \in DOMAIN s : s[p] \in Lines
  BY <1>3
<1>8. ASSUME NEW u \in PageNumbers, NEW i \in DOMAIN Fragments(u)
      PROVE  /\ Fragments(u)[i].key \in Nat /\ Fragments(u)[i].part \in {"norma", "prilohy"}
             /\ Fragments(u)[i].key = 0 => u = 0 /\ i = 1 /\ ~Fragments(u)[i].heading
             /\ Fragments(u)[i].key <= 5
  <2>1. PICK p \in DOMAIN s : p = 2 * u + i /\ Fragments(u)[i] = s[p]
    BY <1>6
  <2>2. s[p].key \in Nat /\ s[p].part \in {"norma", "prilohy"}
    BY <1>7 DEF Lines
  <2>3. s[p].key = 0 => p = 1 /\ ~s[p].heading
    BY <1>3
  <2>4. u \in Nat /\ i \in 1 .. 2
    BY <1>5, <1>6
  <2>5. p = 1 => u = 0 /\ i = 1
    BY <2>1, <2>4
  <2>6. s[p].key <= 5
    BY <1>3
  <2> QED
    BY <2>1, <2>2, <2>3, <2>5, <2>6
<1>9. ASSUME NEW u \in PageNumbers, NEW v \in PageNumbers, NEW i \in DOMAIN Fragments(u), NEW j \in DOMAIN Fragments(v),
             Ahead2(u, i, v, j), Fragments(u)[i].part = "prilohy"
      PROVE  Fragments(v)[j].part = "prilohy"
  <2>1. u \in Nat /\ v \in Nat /\ i \in 1 .. 2 /\ j \in 1 .. 2
    BY <1>5, <1>6
  <2>2. PICK p \in DOMAIN s : p = 2 * u + i /\ Fragments(u)[i] = s[p]
    BY <1>6
  <2>3. PICK q \in DOMAIN s : q = 2 * v + j /\ Fragments(v)[j] = s[q]
    BY <1>6
  <2>4. p < q
    BY <1>9, <2>1, <2>2, <2>3 DEF Ahead2
  <2>5. s[p].part = "prilohy"
    BY <1>9, <2>2
  <2>6. s[q].part = "prilohy"
    BY <1>3, <2>4, <2>5
  <2> QED
    BY <2>3, <2>6
<1>10. \E most \in Nat : \A u \in PageNumbers : \A i \in DOMAIN Fragments(u) : Fragments(u)[i].key <= most
  <2>1. 5 \in Nat
    OBVIOUS
  <2> QED
    BY <1>8, <2>1
<1>11. target \in Nat \ {0}
  OBVIOUS
<1>12. \A u \in PageNumbers :
         /\ Len(Fragments(u)) \in Nat \ {0} /\ DOMAIN Fragments(u) = 1 .. Len(Fragments(u))
         /\ \A i \in DOMAIN Fragments(u) :
              /\ Fragments(u)[i].key \in Nat /\ Fragments(u)[i].part \in {"norma", "prilohy"}
              /\ Fragments(u)[i].key = 0 => u = 0 /\ i = 1 /\ ~Fragments(u)[i].heading
  BY <1>6, <1>8
<1>13. \A u, v \in PageNumbers : \A i \in DOMAIN Fragments(u), j \in DOMAIN Fragments(v) :
         Ahead2(u, i, v, j) /\ Fragments(u)[i].part = "prilohy" => Fragments(v)[j].part = "prilohy"
  BY <1>9
<1> QED
  BY <1>5, <1>10, <1>11, <1>12, <1>13 DEF ActOK

-----------------------------------------------------------------------------
(* What the scan knows, and what the reader was served.                    *)
ScanKnows == BodyTogether /\ BodyPages # {} => ScanStands(scan)

SectionInv ==
    \/ served.via = "rests"
    \/ /\ ActOK
       /\ ScanKnows
       /\ served.via = "scan" => scan.phase = "done" /\ scan.anchor # -1 /\ served.text = Found
       /\ served.via = "not found" => scan.phase = "done" /\ scan.anchor = -1 /\ SparqlHasNone
       /\ served.via = "error" => scan.phase = "failed" /\ SparqlHasNone

LEMMA SectionStarts ==
    ASSUME SectionInit
    PROVE  SectionInv
<1>1. CASE SectionRests
  BY <1>1 DEF SectionRests, NoAnswer, SectionInv
<1>2. CASE act \in SectionActs /\ target \in 1 .. 5 /\ scan = ScanAnew /\ served = NoAnswer
  <2>1. ActOK
    BY <1>2, SectionActsAreOK
  <2>2. ScanStands(scan)
    <3>1. 0 \in PageNumbers
      BY <2>1, PagesAreNumbers
    <3> QED
      BY <1>2, <3>1 DEF ScanAnew, ScanStands, SectionScans, LooksFor
  <2> QED
    BY <1>2, <2>1, <2>2 DEF SectionInv, ScanKnows, NoAnswer
<1> QED
  BY <1>1, <1>2 DEF SectionInit

LEMMA SectionServes ==
    ASSUME SectionInv
    PROVE  SectionIsWhole
<1>1. CASE served.via = "rests"
  BY <1>1 DEF SectionIsWhole
<1>2. CASE served.via # "rests"
  <2>1. /\ ActOK /\ ScanKnows
        /\ served.via = "scan" => scan.phase = "done" /\ scan.anchor # -1 /\ served.text = Found
        /\ served.via = "not found" => scan.phase = "done" /\ scan.anchor = -1 /\ SparqlHasNone
        /\ served.via = "error" => scan.phase = "failed" /\ SparqlHasNone
    BY <1>2 DEF SectionInv
  <2>2. ASSUME served.via = "scan", BodyTogether, BodyHits # {}
        PROVE  BodyHits \subseteq served.text /\ (VisiblyEnds => served.text = BodyHits)
    <3>1. scan.phase = "done" /\ scan.anchor # -1 /\ served.text = Found /\ ScanStands(scan)
      BY <2>1, <2>2, BodyPagesAre DEF ScanKnows
    <3>2. /\ FirstBody(scan.from) /\ scan.to \in PageNumbers /\ (\A v \in BodyPages : v <= scan.to)
          /\ VisiblyEnds => scan.to \in BodyPages
      BY <3>1 DEF ScanStands, LooksFor
    <3>3. \A at : at \in Found <=> \E u \in scan.from .. scan.to : \E i \in hits(u) : at = <<u, i>>
      BY <3>1 DEF Found
    <3>4. \A at : at \in BodyHits <=> \E u \in PageNumbers : \E i \in hits(u) : Fragments(u)[i].part = "norma" /\ at = <<u, i>>
      BY DEF BodyHits
    <3>5. \A u \in BodyPages : u \in scan.from .. scan.to
      <4>1. scan.from \in BodyPages /\ scan.from \in Nat /\ scan.to \in Nat
        BY <2>1, <3>2, PagesAreNumbers DEF FirstBody
      <4>2. \A u \in BodyPages : u \in Nat
        BY <2>1, PagesAreNumbers
      <4> QED
        BY <3>2, <4>1, <4>2 DEF FirstBody
    <3>6. BodyHits \subseteq Found
      <4> SUFFICES ASSUME NEW at \in BodyHits PROVE at \in Found
        OBVIOUS
      <4>1. PICK u \in PageNumbers : \E i \in hits(u) : Fragments(u)[i].part = "norma" /\ at = <<u, i>>
        BY <3>4
      <4>2. u \in BodyPages
        BY <4>1 DEF BodyPages, IsBody
      <4> QED
        BY <3>3, <3>5, <4>1, <4>2
    <3>7. ASSUME VisiblyEnds, NEW at \in Found PROVE at \in BodyHits
      <4>1. PICK u \in scan.from .. scan.to : \E i \in hits(u) : at = <<u, i>>
        BY <3>3
      <4>2. PICK i \in hits(u) : at = <<u, i>>
        BY <4>1
      <4>3. scan.from \in BodyPages /\ scan.to \in BodyPages /\ scan.from \in Nat /\ scan.to \in Nat
        BY <2>1, <3>2, <3>7, PagesAreNumbers DEF FirstBody
      <4>4. u \in PageNumbers
        <5>1. u \in Int /\ 0 <= u /\ u <= scan.to
          BY <4>3
        <5>2. scan.to < totalPages /\ totalPages \in Nat
          BY <2>1, <3>2, PagesAreNumbers
        <5> QED
          BY <4>3, <5>1, <5>2 DEF PageNumbers
      <4>5. u \in BodyPages
        BY <2>1, <2>2, <4>3, <4>4, PagesAreTogether
      <4>6. ASSUME Fragments(u)[i].part = "prilohy" PROVE FALSE
        <5>1. <<u, i>> \in AnnexHits
          BY <4>4, <4>6 DEF AnnexHits
        <5>2. u \in pagesWith(AnnexHits)
          BY <5>1 DEF pagesWith
        <5> QED
          BY <3>7, <4>5, <5>2, BodyPagesAre DEF VisiblyEnds
      <4>7. Fragments(u)[i].part = "norma"
        BY <2>1, <4>4, <4>6 DEF ActOK, hits
      <4> QED
        BY <3>4, <4>2, <4>4, <4>7
    <3> QED
      BY <3>1, <3>6, <3>7
  <2>3. ASSUME served.via = "not found", BodyTogether, NEW u \in pagesWith(BodyHits)
        PROVE  u >= ScanCap \/ (~BodyInOrder /\ inOrder(scan.read) /\ u \notin scan.read)
    <3>1. BodyPages # {} /\ u \in BodyPages
      BY <2>3, BodyPagesAre
    <3> QED
      BY <2>1, <2>3, <3>1 DEF ScanKnows, ScanStands, LooksFor
  <2>4. SparqlHasNone => sparql # "text"
    BY DEF SparqlHasNone
  <2> QED
    BY <2>1, <2>2, <2>3, <2>4 DEF SectionIsWhole
<1> QED
  BY <1>1, <1>2

(* The act and the § stay, and with them all that is said of them.         *)
LEMMA ActStays ==
    ASSUME act' = act, target' = target
    PROVE  /\ ActOK' <=> ActOK
           /\ BodyTogether' <=> BodyTogether
           /\ BodyPages' = BodyPages
           /\ ScanStands(scan') => ScanStands(scan)'
           /\ scan' = scan => Found' = Found
<1>1. totalPages' = totalPages /\ PageNumbers' = PageNumbers
  BY DEF totalPages, PageNumbers
<1>2. \A u : Fragments(u)' = Fragments(u)
  BY DEF Fragments
<1>3. \A u : hits(u)' = hits(u) /\ cited(u)' = cited(u) /\ foreign(u)' = foreign(u)
  BY DEF Fragments, hits, cited, foreign
<1>4. ActOK' <=> ActOK
  BY <1>1 DEF ActOK, Fragments
<1>5. (BodyTogether' <=> BodyTogether) /\ (BodyInOrder' <=> BodyInOrder)
  <2>1. BodyTogether' <=> BodyTogether
    BY <1>1, <1>3 DEF BodyTogether, Fragments
  <2>2. BodyInOrder' <=> BodyInOrder
    BY <1>1 DEF BodyInOrder, cited, Fragments
  <2> QED
    BY <2>1, <2>2
<1>6. BodyPages' = BodyPages
  BY <1>1 DEF BodyPages, IsBody, hits, Fragments
<1>7. BodyHits' = BodyHits /\ AnnexHits' = AnnexHits
  BY <1>1 DEF BodyHits, AnnexHits, hits, Fragments
<1>8. VisiblyEnds' <=> VisiblyEnds
  BY <1>7 DEF VisiblyEnds, pagesWith, foreign, hits, Fragments
<1>9. mayJump' <=> mayJump
  BY <1>1 DEF mayJump, ordered, cited, parts, keysOn, Fragments
<1>10. hits(0)' = hits(0)
  BY DEF hits, Fragments
<1>11. SectionScans' = SectionScans
  BY <1>1 DEF SectionScans
<1>12. inOrder(scan.read)' <=> inOrder(scan'.read)
  BY <1>1 DEF inOrder, keyed, ordered, cited, parts, keysOn, Fragments
<1>13. ScanStands(scan') => ScanStands(scan)'
  BY <1>1, <1>5, <1>6, <1>8, <1>9, <1>10, <1>11, <1>12 DEF ScanStands, LooksFor, HasItsStart, FirstBody
<1>14. scan' = scan => Found' = Found
  BY DEF Found, hits, Fragments
<1> QED
  BY <1>4, <1>5, <1>6, <1>13, <1>14

LEMMA SectionSteps ==
    ASSUME SectionInv, SectionAssumption, [SectionNext]_sectionVars
    PROVE  SectionInv'
<1>1. act' = act /\ target' = target
  BY DEF SectionNext, ScanReads, ScanFails, SparqlAnswers, ServedBySparql, ServedByScan, NotServed, ArticleReads,
         ArticleFails, sectionVars
<1>2. CASE served.via = "rests"
  <2>1. served # NoAnswer
    BY <1>2 DEF NoAnswer
  <2>2. served' = served
    BY <2>1 DEF SectionNext, ScanReads, ScanFails, SparqlAnswers, ServedBySparql, ServedByScan, NotServed, ArticleReads,
                ArticleFails, sectionVars
  <2> QED
    BY <1>2, <2>2 DEF SectionInv
<1>3. CASE served.via # "rests"
  <2>1. /\ ActOK /\ ScanKnows
        /\ served.via = "scan" => scan.phase = "done" /\ scan.anchor # -1 /\ served.text = Found
        /\ served.via = "not found" => scan.phase = "done" /\ scan.anchor = -1 /\ SparqlHasNone
        /\ served.via = "error" => scan.phase = "failed" /\ SparqlHasNone
    BY <1>3 DEF SectionInv
  <2>2. ActOK'
    BY <1>1, <2>1, ActStays
  <2>3. ASSUME scan' = scan PROVE ScanKnows' /\ Found' = Found
    BY <1>1, <2>1, <2>3, ActStays DEF ScanKnows
  <2>4. ASSUME scan' = scan, served' = served, sparql' = sparql PROVE SectionInv'
    BY <2>1, <2>2, <2>3, <2>4 DEF SectionInv, SparqlHasNone
  <2>5. CASE ScanReads
    <3>1. Scanning /\ served' = served /\ scan' = AfterRead([scan EXCEPT !.read = @ \cup scan.wanted, !.wanted = {}])
      BY <2>5 DEF ScanReads
    <3>2. scan.phase \in {"zero", "jump", "linear", "back", "forward"}
      BY <3>1 DEF Scanning
    <3>3. served.via \notin {"scan", "not found", "error"}
      BY <2>1, <3>2
    <3>4. ASSUME BodyTogether, BodyPages # {} PROVE ScanStands(scan')
      <4>1. PICK t : t = [scan EXCEPT !.read = @ \cup scan.wanted, !.wanted = {}]
        OBVIOUS
      <4>2. ScanStands(scan) /\ scan \in SectionScans
        BY <2>1, <3>4 DEF ScanKnows, ScanStands
      <4>3. ScanStands(AfterRead(t))
        BY <2>1, <3>2, <3>4, <4>1, <4>2, RoundGoesOn
      <4> QED
        BY <3>1, <4>1, <4>3
    <3>5. ScanKnows'
      BY <1>1, <3>4, ActStays DEF ScanKnows
    <3> QED
      BY <2>2, <3>1, <3>3, <3>5 DEF SectionInv
  <2>6. CASE ScanFails
    <3>1. Scanning /\ served' = served /\ scan' = [scan EXCEPT !.phase = "failed"]
      BY <2>6 DEF ScanFails
    <3>2. served.via \notin {"scan", "not found", "error"}
      BY <2>1, <3>1 DEF Scanning
    <3>3. ASSUME BodyTogether, BodyPages # {} PROVE ScanStands(scan')
      <4>1. scan \in SectionScans
        BY <2>1, <3>3 DEF ScanKnows, ScanStands
      <4>2. scan' \in SectionScans /\ scan'.phase = "failed"
        BY <3>1, <4>1 DEF SectionScans
      <4> QED
        BY <4>2 DEF ScanStands, LooksFor
    <3>4. ScanKnows'
      BY <1>1, <3>3, ActStays DEF ScanKnows
    <3> QED
      BY <2>2, <3>1, <3>2, <3>4 DEF SectionInv
  <2>7. CASE SparqlAnswers
    <3>1. sparql = "asked" /\ scan' = scan /\ served' = served
      BY <2>7 DEF SparqlAnswers
    <3>2. served.via \notin {"not found", "error"}
      BY <2>1, <3>1 DEF SparqlHasNone
    <3> QED
      BY <2>1, <2>2, <2>3, <3>1, <3>2 DEF SectionInv
  <2>8. CASE ServedBySparql
    <3>1. scan' = scan /\ served'.via = "sparql"
      BY <2>8 DEF ServedBySparql
    <3> QED
      BY <2>2, <2>3, <3>1 DEF SectionInv
  <2>9. CASE ServedByScan
    <3>1. scan' = scan /\ served'.via = "scan" /\ served'.text = Found /\ scan.phase = "done" /\ scan.anchor # -1
      BY <2>9 DEF ServedByScan
    <3> QED
      BY <2>2, <2>3, <3>1 DEF SectionInv
  <2>10. CASE NotServed
    <3>1. /\ scan' = scan /\ sparql' = sparql /\ SparqlHasNone
          /\ scan.phase = "failed" \/ (scan.phase = "done" /\ scan.anchor = -1)
          /\ served'.via = IF scan.phase = "failed" THEN "error" ELSE "not found"
      BY <2>10 DEF NotServed
    <3>2. SparqlHasNone'
      BY <3>1 DEF SparqlHasNone
    <3> QED
      BY <2>2, <2>3, <3>1, <3>2 DEF SectionInv
  <2> QED
    BY <2>4, <2>5, <2>6, <2>7, <2>8, <2>9, <2>10
    DEF SectionNext, ArticleReads, ArticleFails, sectionVars
<1> QED
  BY <1>2, <1>3

(* A § that the scan of an act's pages serves is the body's, whole, and    *)
(* with nothing of an annex behind it; "not found" is said only of a § the *)
(* body has not, that starts past the cap, or that is out of order on a    *)
(* page left unread by a scan that saw only order; and an error only when  *)
(* neither way could serve: for any act, wherever its pages are cut and    *)
(* however the scan is guided by its mirror, its estimate or a failure.    *)
THEOREM SectionsAreWhole == SectionSpec => []SectionIsWhole
<1>1. SectionInit => SectionInv
  BY SectionStarts
<1>2. SectionInv /\ [SectionNext]_sectionVars => SectionInv'
  BY SectionSteps, SectionAssumption
<1>3. SectionInv => SectionIsWhole
  BY SectionServes
<1> QED
  BY <1>1, <1>2, <1>3, PTL DEF SectionSpec

-----------------------------------------------------------------------------
(* Rows of a ranking.                                                      *)
IsCut(S, s, list, from, length) ==
    s \in Seq(S) /\ Len(s) = length /\ length \in Nat /\ \A k \in 1 .. length : s[k] = list[from + k]

Up(from, to) == IF from <= to THEN to - from ELSE 0

LEMMA UpIsNat ==
    ASSUME NEW from \in Nat, NEW to \in Nat
    PROVE  Up(from, to) \in Nat
  BY DEF Up

LEMMA CutsAreOne ==
    ASSUME NEW S, NEW s, NEW t, NEW list, NEW from \in Nat, NEW length, IsCut(S, s, list, from, length), IsCut(S, t, list, from, length)
    PROVE  s = t
<1>1. s \in Seq(S) /\ t \in Seq(S) /\ Len(s) = Len(t) /\ \A k \in 1 .. Len(s) : s[k] = t[k]
  BY DEF IsCut
<1> QED
  BY <1>1, SeqEqual

LEMMA CutOf ==
    ASSUME NEW S, NEW list \in Seq(S), NEW from \in Nat, NEW to \in Int, to <= Len(list), NEW s, s = SubSeq(list, from + 1, to)
    PROVE  IsCut(S, s, list, from, Up(from, to))
<1>1. \A i \in from + 1 .. to : list[i] \in S
  <2>1. \A i \in 1 .. Len(list) : list[i] \in S
    OBVIOUS
  <2>2. Len(list) \in Nat
    BY LenProperties
  <2>3. \A i \in from + 1 .. to : i \in 1 .. Len(list)
    BY <2>2
  <2> QED
    BY <2>1, <2>3
<1>2. /\ s \in Seq(S)
      /\ Len(s) = IF from + 1 <= to THEN to - (from + 1) + 1 ELSE 0
      /\ \A i \in 1 .. to - (from + 1) + 1 : s[i] = list[(from + 1) + i - 1]
  BY <1>1, SubSeqProperties
<1>3. \A i \in 1 .. to - from : s[i] = list[from + i]
  BY <1>2
<1>4. CASE from <= to
  <2>1. Len(s) = to - from
    BY <1>2, <1>4
  <2> QED
    BY <1>2, <1>3, <1>4, <2>1 DEF IsCut, Up
<1>5. CASE ~(from <= to)
  <2>1. Len(s) = 0
    BY <1>2, <1>5
  <2> QED
    BY <1>2, <1>5, <2>1 DEF IsCut, Up
<1> QED
  BY <1>4, <1>5

LEMMA CutOfCut ==
    ASSUME NEW S, NEW s, NEW list, NEW from \in Nat, NEW length, IsCut(S, s, list, from, length),
           NEW skip \in Nat, NEW to \in Int, to <= length, NEW t, t = SubSeq(s, skip + 1, to)
    PROVE  IsCut(S, t, list, from + skip, Up(skip, to))
<1>1. s \in Seq(S) /\ Len(s) = length /\ length \in Nat /\ \A k \in 1 .. length : s[k] = list[from + k]
  BY DEF IsCut
<1>2. IsCut(S, t, s, skip, Up(skip, to))
  BY <1>1, CutOf
<1>3. ASSUME NEW k \in 1 .. Up(skip, to) PROVE t[k] = list[from + skip + k]
  <2>1. skip <= to /\ k \in Nat /\ skip + k \in 1 .. length
    BY <1>1 DEF Up
  <2>2. t[k] = s[skip + k] /\ s[skip + k] = list[from + (skip + k)]
    BY <1>1, <1>2, <2>1 DEF IsCut
  <2>3. from + (skip + k) = from + skip + k
    BY <2>1
  <2> QED
    BY <2>2, <2>3
<1> QED
  BY <1>2, <1>3 DEF IsCut

LEMMA CutsMeet ==
    ASSUME NEW S, NEW a, NEW b, NEW list, NEW from \in Nat, NEW m, NEW n, NEW c, c = a \o b,
           IsCut(S, a, list, from, m), IsCut(S, b, list, from + m, n)
    PROVE  IsCut(S, c, list, from, m + n)
<1>1. /\ a \in Seq(S) /\ Len(a) = m /\ m \in Nat /\ (\A k \in 1 .. m : a[k] = list[from + k])
      /\ b \in Seq(S) /\ Len(b) = n /\ n \in Nat /\ (\A k \in 1 .. n : b[k] = list[(from + m) + k])
  BY DEF IsCut
<1>2. c \in Seq(S) /\ Len(c) = Len(a) + Len(b)
      /\ \A k \in 1 .. Len(a) + Len(b) : c[k] = IF k <= Len(a) THEN a[k] ELSE b[k - Len(a)]
  <2>1. OneAfterTheOther(S, a, b, c)
    BY <1>1, ConcatOf
  <2> QED
    BY <1>1, <2>1 DEF OneAfterTheOther
<1>3. ASSUME NEW k \in 1 .. m + n PROVE c[k] = list[from + k]
  <2>1. c[k] = IF k <= m THEN a[k] ELSE b[k - m]
    BY <1>1, <1>2
  <2>2. CASE k <= m
    BY <1>1, <2>1, <2>2
  <2>3. CASE ~(k <= m)
    <3>1. k - m \in 1 .. n /\ (from + m) + (k - m) = from + k
      BY <1>1, <2>3
    <3> QED
      BY <1>1, <2>1, <2>3, <3>1
  <2> QED
    BY <2>2, <2>3
<1>4. Len(c) = m + n /\ m + n \in Nat
  BY <1>1, <1>2
<1> QED
  BY <1>2, <1>3, <1>4, Zenon DEF IsCut

LEMMA NothingIsACut ==
    ASSUME NEW S, NEW s, NEW list, NEW from, NEW other, IsCut(S, s, list, from, 0)
    PROVE  IsCut(S, s, list, other, 0)
  BY DEF IsCut

LEMMA LesserOf ==
    ASSUME NEW a \in Nat, NEW b \in Nat
    PROVE  Min({a, b}) = IF a <= b THEN a ELSE b
<1>1. {a, b} \subseteq Nat /\ {a, b} # {}
  OBVIOUS
<1>2. \E x \in {a, b} : \A y \in {a, b} : x <= y
  BY <1>1, LeastOfNats
<1>3. Min({a, b}) \in {a, b} /\ \A y \in {a, b} : Min({a, b}) <= y
  BY <1>2 DEF Min
<1> QED
  BY <1>3

\* Where row `offset` is: in which page, and how far in.
LEMMA RowsOnPages ==
    ASSUME NEW limit \in 1 .. 3, NEW offset \in Nat
    PROVE  \E first \in Nat, skip \in Nat :
              /\ first = offset \div limit /\ skip = offset % limit /\ skip < limit
              /\ first * limit \in Nat /\ first * limit + skip = offset
              /\ (first + 1) * limit = first * limit + limit /\ (first + 1 + 1) * limit = first * limit + 2 * limit
<1>1. CASE limit = 1
  BY <1>1
<1>2. CASE limit = 2
  BY <1>2
<1>3. CASE limit = 3
  BY <1>3
<1> QED
  BY <1>1, <1>2, <1>3

LEMMA UpstreamIsACut ==
    ASSUME NEW S, NEW ranking \in Seq(S), NEW limit \in Nat, NEW place \in Nat, NEW from \in Nat, NEW to \in Nat,
           from = place * limit, to = (place + 1) * limit
    PROVE  IsCut(S, upstreamRows(ranking, place, limit), ranking, from, Up(from, Min({Len(ranking), to})))
<1>1. Len(ranking) \in Nat
  BY LenProperties
<1>2. PICK end : end = Min({Len(ranking), to})
  OBVIOUS
<1>3. end \in Int /\ end <= Len(ranking)
  BY <1>1, <1>2, LesserOf
<1>4. upstreamRows(ranking, place, limit) = SubSeq(ranking, from + 1, end)
  BY <1>2 DEF upstreamRows
<1>5. IsCut(S, upstreamRows(ranking, place, limit), ranking, from, Up(from, end))
  BY <1>3, <1>4, CutOf
<1> QED
  BY <1>2, <1>5

LEMMA TwoPagesHoldTheWindow ==
    ASSUME NEW S, NEW ranking \in Seq(S), NEW limit \in 1 .. 3, NEW offset \in Nat
    PROVE  searchActs(ranking, offset, limit) = SubSeq(ranking, offset + 1, Min({Len(ranking), offset + limit}))
<1>1. limit \in Nat
  OBVIOUS
<1>0. PICK n \in Nat : n = Len(ranking)
  BY LenProperties
<1>2. PICK first \in Nat, skip \in Nat :
        /\ first = offset \div limit /\ skip = offset % limit /\ skip < limit
        /\ first * limit \in Nat /\ first * limit + skip = offset
        /\ (first + 1) * limit = first * limit + limit /\ (first + 1 + 1) * limit = first * limit + 2 * limit
  BY RowsOnPages
<1>3. PICK start \in Nat : start = first * limit
  BY <1>2
<1>4. PICK a \in Nat : a = start + limit /\ a = (first + 1) * limit
  BY <1>1, <1>2, <1>3
<1>5. PICK b \in Nat : b = start + 2 * limit /\ b = (first + 1 + 1) * limit
  BY <1>1, <1>2, <1>3
<1>20. a = start + limit /\ b = start + 2 * limit
  BY <1>4, <1>5
<1>21. skip < limit
  BY <1>2
<1>6. PICK one : one = upstreamRows(ranking, first, limit)
  OBVIOUS
<1>7. PICK two : two = upstreamRows(ranking, first + 1, limit)
  OBVIOUS
<1>8. PICK window : window = SubSeq(ranking, offset + 1, Min({n, offset + limit}))
  OBVIOUS
<1>9. PICK end1 \in Nat : end1 = Min({n, a}) /\ (n <= a => end1 = n) /\ (n > a => end1 = a)
  BY LesserOf
<1>10. PICK end2 \in Nat : end2 = Min({n, b}) /\ (n <= b => end2 = n) /\ (n > b => end2 = b)
  <2>1. Min({n, b}) = IF n <= b THEN n ELSE b
    BY LesserOf
  <2>2. Min({n, b}) \in Nat /\ (n <= b => Min({n, b}) = n) /\ (n > b => Min({n, b}) = b)
    BY <2>1
  <2> QED
    BY <2>2
<1>11. PICK end \in Nat : end = Min({n, offset + limit}) /\ end <= n /\ (n <= offset + limit => end = n)
                          /\ (n > offset + limit => end = offset + limit)
  BY <1>1, LesserOf
<1>18. PICK m \in Nat : m = Up(start, end1)
  BY UpIsNat
<1>19. PICK k \in Nat : k = Up(a, end2)
  BY UpIsNat
<1>12. IsCut(S, one, ranking, start, m)
  BY <1>0, <1>1, <1>3, <1>4, <1>6, <1>9, <1>18, UpstreamIsACut
<1>13. IsCut(S, two, ranking, a, k)
  <2>1. IsCut(S, upstreamRows(ranking, first + 1, limit), ranking, a, Up(a, Min({Len(ranking), b})))
    <3>1. first + 1 \in Nat
      OBVIOUS
    <3> QED
      BY <1>1, <1>4, <1>5, <3>1, UpstreamIsACut
  <2> QED
    BY <1>0, <1>7, <1>10, <1>19, <2>1
<1>14. IsCut(S, window, ranking, offset, Up(offset, end))
  <2>1. window = SubSeq(ranking, offset + 1, end) /\ end \in Int /\ end <= Len(ranking)
    BY <1>0, <1>8, <1>11
  <2> QED
    BY <2>1, CutOf
<1>15. searchActs(ranking, offset, limit) =
         IF skip = 0 THEN one ELSE SubSeq(one \o two, skip + 1, Min({Len(one \o two), skip + limit}))
  BY <1>2, <1>6, <1>7 DEF searchActs
<1>16. CASE skip = 0
  <2>1. offset = start /\ m = Up(offset, end)
    BY <1>1, <1>2, <1>3, <1>4, <1>9, <1>11, <1>16, <1>18 DEF Up
  <2>2. one = window
    BY <1>12, <1>14, <2>1, CutsAreOne
  <2> QED
    BY <1>0, <1>8, <1>15, <1>16, <2>2
<1>17. CASE skip # 0
  <2>1. PICK both : both = one \o two
    OBVIOUS
  <2>2. IsCut(S, two, ranking, start + m, k)
    <3>1. CASE n >= a
      <4>1. start + m = a
        BY <1>4, <1>9, <1>18, <3>1 DEF Up
      <4> QED
        BY <1>13, <4>1
    <3>2. CASE n < a
      <4>1. k = 0
        BY <1>4, <1>5, <1>10, <1>19, <3>2 DEF Up
      <4> QED
        BY <1>13, <4>1, NothingIsACut
    <3> QED
      BY <3>1, <3>2
  <2>3. IsCut(S, both, ranking, start, m + k)
    BY <1>12, <2>1, <2>2, CutsMeet
  <2>4. PICK last \in Nat : last = Min({m + k, skip + limit}) /\ last <= m + k /\ (m + k <= skip + limit => last = m + k)
                            /\ (m + k > skip + limit => last = skip + limit)
    BY <1>1, LesserOf
  <2>5. Len(both) = m + k
    BY <2>3 DEF IsCut
  <2>6. PICK got : got = searchActs(ranking, offset, limit) /\ got = SubSeq(both, skip + 1, last)
    BY <1>15, <1>17, <2>1, <2>4, <2>5
  <2>7. IsCut(S, got, ranking, start + skip, Up(skip, last))
    <3>1. last \in Int /\ last <= m + k
      BY <2>4
    <3> QED
      BY <2>3, <2>6, <3>1, CutOfCut
  <2>8. start + skip = offset
    BY <1>2, <1>3
  <2>9. Up(offset, end) = Up(skip, last)
    <3>1. CASE n < a
      <4>1. end1 = n /\ end2 = n
        BY <1>1, <1>9, <1>10, <1>20, <3>1
      <4>2. k = 0 /\ m = Up(start, n)
        BY <1>18, <1>19, <3>1, <4>1 DEF Up
      <4> QED
        BY <1>1, <1>11, <1>20, <1>21, <2>4, <2>8, <3>1, <4>2 DEF Up
    <3>2. CASE n >= a /\ n < b
      <4>1. end1 = a /\ end2 = n
        BY <1>1, <1>9, <1>10, <1>20, <3>2
      <4>2. k = n - a /\ m = limit
        BY <1>1, <1>18, <1>19, <1>20, <3>2, <4>1 DEF Up
      <4> QED
        BY <1>1, <1>11, <1>20, <1>21, <2>4, <2>8, <3>2, <4>2 DEF Up
    <3>3. CASE n >= b
      <4>1. end1 = a /\ end2 = b
        BY <1>1, <1>9, <1>10, <1>20, <3>3
      <4>2. k = limit /\ m = limit
        BY <1>1, <1>18, <1>19, <1>20, <4>1 DEF Up
      <4> QED
        BY <1>1, <1>11, <1>20, <1>21, <2>4, <2>8, <3>3, <4>2 DEF Up
    <3> QED
      BY <1>1, <1>20, <3>1, <3>2, <3>3
  <2>10. got = window
    BY <1>14, <2>7, <2>8, <2>9, CutsAreOne
  <2> QED
    BY <1>0, <1>8, <2>6, <2>10
<1> QED
  BY <1>16, <1>17

LEMMA RowsAreWindows == RowsAreTheWindow
<1> SUFFICES ASSUME NEW n \in 0 .. 7, NEW limit \in 1 .. 3, NEW offset \in 0 .. 8
             PROVE  searchActs([i \in 1 .. n |-> i], offset, limit) = SubSeq([i \in 1 .. n |-> i], offset + 1, Min({n, offset + limit}))
  BY DEF RowsAreTheWindow
<1> DEFINE ranking == [i \in 1 .. n |-> i]
<1>1. ranking \in Seq(Nat) /\ Len(ranking) = n /\ offset \in Nat
  <2>1. n \in Nat /\ ranking \in [1 .. n -> Nat]
    OBVIOUS
  <2>2. ranking \in Seq(Nat)
    BY <2>1, SeqDef
  <2> QED
    BY <2>1, <2>2, LenProperties
<1> HIDE DEF ranking
<1>2. searchActs(ranking, offset, limit) = SubSeq(ranking, offset + 1, Min({Len(ranking), offset + limit}))
  BY <1>1, TwoPagesHoldTheWindow
<1> QED
  BY <1>1, <1>2 DEF ranking

-----------------------------------------------------------------------------
(* Sequences put one after the other, and once more.                       *)
LEMMA FlattenSize ==
    ASSUME NEW X, NEW s \in Seq(Seq(X))
    PROVE  \E n \in Nat : n = Len(s) /\ s \in [1 .. n -> Seq(X)]
<1>1. Len(s) \in Nat /\ s \in [1 .. Len(s) -> Seq(X)]
  BY LenProperties
<1> QED
  BY <1>1

LEMMA FlattenConcat ==
    ASSUME NEW X, NEW a \in Seq(Seq(X)), NEW b \in Seq(Seq(X)), NEW c, c = a \o b
    PROVE  FlattenSeq(c) = FlattenSeq(a) \o FlattenSeq(b)
<1>1. PICK m \in Nat : m = Len(a) /\ a \in [1 .. m -> Seq(X)]
  BY FlattenSize
<1>2. PICK n \in Nat : n = Len(b) /\ b \in [1 .. n -> Seq(X)]
  BY FlattenSize
<1>3. PICK f : FlattensTo(a, f, m, X)
  BY <1>1, FlattensExist
<1>4. PICK g : FlattensTo(b, g, n, X)
  BY <1>2, FlattensExist
<1>5. OneAfterTheOther(Seq(X), a, b, c)
  BY ConcatOf
<1>6. c \in Seq(Seq(X)) /\ Len(c) = m + n /\ DOMAIN c = 1 .. m + n
      /\ (\A p \in 1 .. m : c[p] = a[p]) /\ (\A p \in DOMAIN c : p > m => p - m \in 1 .. n /\ c[p] = b[p - m])
  BY <1>1, <1>2, <1>5 DEF OneAfterTheOther
<1>7. c \in [1 .. m + n -> Seq(X)]
  BY <1>6, LenProperties
<1>8. /\ f \in [0 .. m -> Seq(X)] /\ f[0] = <<>> /\ \A i \in 1 .. m : f[i] = f[i - 1] \o a[i]
      /\ g \in [0 .. n -> Seq(X)] /\ g[0] = <<>> /\ \A i \in 1 .. n : g[i] = g[i - 1] \o b[i]
  BY <1>3, <1>4 DEF FlattensTo
<1> DEFINE h == [i \in 0 .. m + n |-> IF i <= m THEN f[i] ELSE f[m] \o g[i - m]]
<1>9. h \in [0 .. m + n -> Seq(X)]
  <2> SUFFICES ASSUME NEW i \in 0 .. m + n PROVE (IF i <= m THEN f[i] ELSE f[m] \o g[i - m]) \in Seq(X)
    OBVIOUS
  <2>1. CASE i <= m
    <3>1. i \in 0 .. m
      BY <2>1
    <3> QED
      BY <1>8, <2>1, <3>1
  <2>2. CASE ~(i <= m)
    <3>1. i - m \in 0 .. n /\ m \in 0 .. m
      BY <2>2
    <3>2. f[m] \in Seq(X) /\ g[i - m] \in Seq(X)
      BY <1>8, <3>1
    <3> QED
      BY <2>2, <3>2, ConcatProperties
  <2> QED
    BY <2>1, <2>2
<1>10. h[0] = <<>>
  BY <1>8
<1>11. ASSUME NEW i \in 1 .. m + n PROVE h[i] = h[i - 1] \o c[i]
  <2>1. i \in 0 .. m + n /\ i - 1 \in 0 .. m + n
    OBVIOUS
  <2>2. h[i] = (IF i <= m THEN f[i] ELSE f[m] \o g[i - m]) /\ h[i - 1] = (IF i - 1 <= m THEN f[i - 1] ELSE f[m] \o g[i - 1 - m])
    BY <2>1
  <2> HIDE DEF h
  <2>3. CASE i <= m
    <3>1. i - 1 <= m /\ i \in 1 .. m
      BY <2>3
    <3> QED
      BY <1>6, <1>8, <2>2, <2>3, <3>1
  <2>4. CASE i > m
    <3>1. i - m \in 1 .. n /\ i - m - 1 \in 0 .. n /\ m \in 0 .. m /\ i \in 1 .. m + n
      BY <2>4
    <3>2. PICK j \in 1 .. n : j = i - m
      BY <3>1
    <3>3. g[j] = g[j - 1] \o b[j] /\ c[i] = b[j]
      BY <1>6, <1>8, <2>4, <3>2
    <3>4. f[m] \in Seq(X) /\ g[j - 1] \in Seq(X) /\ b[j] \in Seq(X)
      BY <1>2, <1>8, <3>1, <3>2
    <3>5. f[m] \o (g[j - 1] \o b[j]) = (f[m] \o g[j - 1]) \o b[j]
      <4>1. \A x, y, z \in Seq(X) : (x \o y) \o z = x \o (y \o z)
        BY ONLY ConcatAssociative, SMTT(60)
      <4> QED
        BY <3>4, <4>1
    <3>6. h[i - 1] = f[m] \o g[j - 1]
      <4>1. CASE i - 1 = m
        <5>1. j - 1 = 0 /\ i - 1 <= m
          BY <3>2, <4>1
        <5>2. f[m] \o <<>> = f[m]
          BY <3>4, ConcatEmptySeq
        <5> QED
          BY <1>8, <2>2, <4>1, <5>1, <5>2
      <4>2. CASE i - 1 # m
        <5>1. ~(i - 1 <= m) /\ i - 1 - m = j - 1
          BY <2>4, <3>2, <4>2
        <5> QED
          BY <2>2, <5>1
      <4> QED
        BY <4>1, <4>2
    <3>7. h[i] = f[m] \o g[j]
      <4>1. ~(i <= m)
        BY <2>4
      <4> QED
        BY <2>2, <3>2, <4>1
    <3> QED
      BY <3>3, <3>5, <3>6, <3>7
  <2>5. i <= m \/ i > m
    OBVIOUS
  <2> QED
    BY <2>3, <2>4, <2>5
<1>12. FlattensTo(c, h, m + n, X)
  BY <1>9, <1>10, <1>11 DEF FlattensTo
<1>13. h[m + n] = f[m] \o g[n]
  <2>1. CASE n = 0
    <3>1. f[m] \o <<>> = f[m]
      BY <1>8, ConcatEmptySeq
    <3> QED
      BY <1>8, <2>1, <3>1
  <2>2. CASE n # 0
    <3>1. ~(m + n <= m) /\ m + n - m = n /\ m + n \in 0 .. m + n
      BY <2>2
    <3>2. PICK q \in 0 .. m + n : q = m + n
      BY <3>1
    <3>3. h[q] = IF q <= m THEN f[q] ELSE f[m] \o g[q - m]
      OBVIOUS
    <3>4. ~(q <= m) /\ q - m = n
      BY <3>1, <3>2
    <3> QED
      BY <3>2, <3>3, <3>4
  <2> QED
    BY <2>1, <2>2
<1>14. FlattenSeq(c) = h[m + n]
  <2> HIDE DEF h
  <2>1. m + n \in Nat
    OBVIOUS
  <2> QED
    BY <1>7, <1>12, <2>1, FlattensOnce
<1>15. FlattenSeq(a) = f[m] /\ FlattenSeq(b) = g[n]
  BY <1>1, <1>2, <1>3, <1>4, FlattensOnce
<1> QED
  BY <1>13, <1>14, <1>15

LEMMA FlattenOne ==
    ASSUME NEW X, NEW x \in Seq(X)
    PROVE  FlattenSeq(<<x>>) = x /\ FlattenSeq(<<>>) = <<>>
<1>1. FlattenSeq(<<>>) = <<>>
  BY DEF FlattenSeq
<1> DEFINE s == <<x>>
           f == [i \in 0 .. 1 |-> IF i = 0 THEN <<>> ELSE x]
<1>2. s \in [1 .. 1 -> Seq(X)] /\ s[1] = x
  OBVIOUS
<1>3. f[0] = <<>> /\ f[1] = x /\ f \in [0 .. 1 -> Seq(X)]
  OBVIOUS
<1>4. <<>> \o x = x
  BY ConcatEmptySeq
<1> HIDE DEF f, s
<1>5. FlattensTo(s, f, 1, X)
  BY <1>2, <1>3, <1>4 DEF FlattensTo
<1>6. FlattenSeq(s) = f[1]
  BY <1>2, <1>5, FlattensOnce
<1> QED
  BY <1>1, <1>3, <1>6 DEF s

LEMMA FlattenAppend ==
    ASSUME NEW X, NEW s \in Seq(Seq(X)), NEW x \in Seq(X)
    PROVE  FlattenSeq(Append(s, x)) = FlattenSeq(s) \o x
<1>1. Append(s, x) = s \o <<x>> /\ <<x>> \in Seq(Seq(X))
  BY AppendIsConcat
<1>2. FlattenSeq(Append(s, x)) = FlattenSeq(s) \o FlattenSeq(<<x>>)
  BY <1>1, FlattenConcat
<1> QED
  BY <1>2, FlattenOne

FlattensEach(n, s, each) == DOMAIN each = 1 .. n /\ each = [i \in DOMAIN each |-> each[i]] /\ \A i \in 1 .. n : each[i] = FlattenSeq(s[i])

LEMMA FlattenTwice ==
    ASSUME NEW X, NEW n \in Nat, NEW s \in [1 .. n -> Seq(Seq(X))], NEW each, FlattensEach(n, s, each)
    PROVE  FlattenSeq(FlattenSeq(s)) = FlattenSeq(each)
<1>1. PICK f : FlattensTo(s, f, n, Seq(X))
  BY FlattensExist
<1>2. f \in [0 .. n -> Seq(Seq(X))] /\ f[0] = <<>> /\ \A i \in 1 .. n : f[i] = f[i - 1] \o s[i]
  BY <1>1 DEF FlattensTo
<1>3. \A t \in Seq(Seq(X)) : FlattenSeq(t) \in Seq(X)
  BY FlattenSize, FlattenType
<1>0. DOMAIN each = 1 .. n /\ each = [i \in DOMAIN each |-> each[i]] /\ \A i \in 1 .. n : each[i] = FlattenSeq(s[i])
  BY DEF FlattensEach
<1>4. each \in [1 .. n -> Seq(X)]
  BY <1>0, <1>3
<1> DEFINE h == [i \in 0 .. n |-> FlattenSeq(f[i])]
<1>5. h \in [0 .. n -> Seq(X)] /\ h[0] = <<>>
  <2>1. h \in [0 .. n -> Seq(X)]
    BY <1>2, <1>3
  <2>2. FlattenSeq(<<>>) = <<>>
    BY DEF FlattenSeq
  <2> QED
    BY <1>2, <2>1, <2>2
<1>6. ASSUME NEW i \in 1 .. n PROVE h[i] = h[i - 1] \o each[i]
  <2>0. i - 1 \in 0 .. n /\ i \in 0 .. n
    OBVIOUS
  <2>1. PICK j \in 0 .. n : j = i - 1
    BY <2>0
  <2>2. f[i] = f[j] \o s[i] /\ f[j] \in Seq(Seq(X)) /\ s[i] \in Seq(Seq(X))
    BY <1>2, <2>1
  <2>3. FlattenSeq(f[i]) = FlattenSeq(f[j]) \o FlattenSeq(s[i])
    BY <2>2, FlattenConcat
  <2>4. h[i] = FlattenSeq(f[i]) /\ h[j] = FlattenSeq(f[j]) /\ each[i] = FlattenSeq(s[i])
    BY <1>0, <2>0
  <2> QED
    BY <2>1, <2>3, <2>4
<1>7. FlattensTo(each, h, n, X)
  BY <1>5, <1>6 DEF FlattensTo
<1>8. FlattenSeq(each) = h[n] /\ FlattenSeq(s) = f[n]
  <2> HIDE DEF h
  <2> QED
    BY <1>1, <1>4, <1>7, FlattensOnce
<1> QED
  BY <1>8

-----------------------------------------------------------------------------
(* Folds along a sequence, step by step.                                   *)
SweepsTo(h, n, base, F, V) ==
    h \in [0 .. n -> V] /\ h[0] = base /\ \A k \in 1 .. n : h[k] = F[<<h[k - 1], k>>]

FoldStep(w, n, base, F, V) ==
    w[{}] = base /\ \A k \in 1 .. n : w[1 .. k - 1] \in V => w[1 .. k] = F[<<w[1 .. k - 1], k>>]

SweepEnds(result, n, base, F, V) == \E h : SweepsTo(h, n, base, F, V) /\ h[n] = result

LEMMA StepsOfFold ==
    ASSUME NEW n \in Nat, NEW V, NEW base \in V, NEW F \in [V \X (1 .. n) -> V], NEW w, FoldStep(w, n, base, F, V),
           NEW result, result = w[1 .. n]
    PROVE  SweepEnds(result, n, base, F, V)
<1> DEFINE h == [k \in 0 .. n |-> w[1 .. k]]
           G == {k \in 0 .. n : w[1 .. k] \in V}
<1>0. w[{}] = base /\ \A k \in 1 .. n : w[1 .. k - 1] \in V => w[1 .. k] = F[<<w[1 .. k - 1], k>>]
  BY DEF FoldStep
<1>1. w[1 .. 0] = base
  <2>1. 1 .. 0 = {}
    OBVIOUS
  <2> QED
    BY <1>0, <2>1
<1>2. \A k \in 0 .. n : k \in G
  <2>1. 0 \in G
    BY <1>1
  <2>2. ASSUME NEW k \in 1 .. n, k - 1 \in G PROVE k \in G
    <3>1. w[1 .. k] = F[<<w[1 .. k - 1], k>>] /\ k \in 0 .. n
      BY <1>0, <2>2
    <3> QED
      BY <2>2, <3>1
  <2> HIDE DEF G
  <2> QED
    BY <2>1, <2>2, UpTo
<1>3. \A k \in 0 .. n : h[k] = w[1 .. k] /\ h[k] \in V
  BY <1>2
<1>4. \A k \in 1 .. n : k \in 0 .. n /\ k - 1 \in 0 .. n
  OBVIOUS
<1>5. h \in [0 .. n -> V]
  BY <1>3
<1>6. 0 \in 0 .. n /\ n \in 0 .. n
  OBVIOUS
<1> HIDE DEF h
<1>7. SweepsTo(h, n, base, F, V)
  BY <1>0, <1>1, <1>3, <1>4, <1>5, <1>6 DEF SweepsTo
<1> QED
  BY <1>3, <1>6, <1>7 DEF SweepEnds

-----------------------------------------------------------------------------
(* chunkFragments, piece by piece.                                         *)
PartsOfPieces == Nat \X Nat
PieceState == [chunks : Seq(Seq(PartsOfPieces)), current : Seq(PartsOfPieces), length : Nat]
CutPieces(pieces) == FoldLeft(LAMBDA c, p : AddPiece(c, p, pieces[p]), Emptied, [p \in DOMAIN pieces |-> p])
PiecesCut(pieces, n) == [q \in PieceState \X (1 .. n) |-> AddPiece(q[1], q[2], pieces[q[2]])]
PartsOfPiece(p, length) == [k \in 1 .. partsOf(length) |-> <<p, k>>]

LEMMA PartsAreNumbers ==
    ASSUME NEW length \in Nat
    PROVE  /\ partsOf(length) \in Nat
           /\ length > 0 /\ length <= PageChars => partsOf(length) = 1
           /\ length > PageChars => partsOf(length) >= 1
<1>1. PageChars \in Nat /\ PageChars > 0
  BY ActsAssumption
<1>2. \A a, b \in Nat : b > 0 => (a + b - 1) \div b \in Int /\ ((a + b - 1) \div b) * b <= a + b - 1
                        /\ a + b - 1 < ((a + b - 1) \div b) * b + b
  OBVIOUS
<1> QED
  BY <1>1, <1>2 DEF partsOf

LEMMA PiecesAreCut ==
    ASSUME NEW n \in Nat, NEW pieces \in [1 .. n -> Nat \ {0}], NEW c \in PieceState, NEW p \in 1 .. n
    PROVE  AddPiece(c, p, pieces[p]) \in PieceState /\ Flush(c) \in PieceState
<1> DEFINE X == PartsOfPieces
<1>1. c.chunks \in Seq(Seq(X)) /\ c.current \in Seq(X) /\ c.length \in Nat /\ pieces[p] \in Nat /\ PageChars \in Nat
  BY ActsAssumption DEF PieceState
<1>2. \A q \in Nat, k \in Nat : <<q, k>> \in X
  BY DEF PartsOfPieces
<1>3. p \in Nat
  OBVIOUS
<1> HIDE DEF X
<1>4. \A t \in X : <<t>> \in Seq(X)
  OBVIOUS
<1>5. <<>> \in Seq(Seq(X)) /\ <<>> \in Seq(X)
  OBVIOUS
<1>6. \A d \in PieceState : Flush(d) \in PieceState
  <2> SUFFICES ASSUME NEW d \in PieceState PROVE Flush(d) \in PieceState
    OBVIOUS
  <2>1. d.chunks \in Seq(Seq(X)) /\ d.current \in Seq(X)
    BY DEF PieceState, X
  <2>2. Append(d.chunks, d.current) \in Seq(Seq(X))
    BY <2>1
  <2> QED
    BY <1>5, <2>1, <2>2 DEF Flush, Emptied, PieceState, X
<1>7. [k \in 1 .. partsOf(pieces[p]) |-> <<<<p, k>>>>] \in Seq(Seq(X))
  <2>1. partsOf(pieces[p]) \in Nat
    BY <1>1, PartsAreNumbers
  <2>2. \A k \in 1 .. partsOf(pieces[p]) : <<<<p, k>>>> \in Seq(X)
    BY <1>2, <1>3, <1>4, <2>1
  <2> QED
    BY <2>1, <2>2, FunctionsAreSeqs
<1>8. CASE pieces[p] > PageChars
  <2>1. Flush(c) \in PieceState /\ Flush(c).chunks \in Seq(Seq(X))
    BY <1>6 DEF PieceState, X
  <2>2. Flush(c).chunks \o [k \in 1 .. partsOf(pieces[p]) |-> <<<<p, k>>>>] \in Seq(Seq(X))
    BY <1>7, <2>1, ConcatProperties
  <2> QED
    BY <1>6, <1>8, <2>1, <2>2 DEF AddPiece, PieceState, X
<1>9. CASE ~(pieces[p] > PageChars)
  <2> DEFINE d == IF c.current # <<>> /\ c.length + 1 + pieces[p] > PageChars THEN Flush(c) ELSE c
  <2>1. d \in PieceState
    BY <1>6
  <2>2. AddPiece(c, p, pieces[p]) = [d EXCEPT !.current = Append(@, <<p, 1>>), !.length = IF d.current = <<>> THEN pieces[p] ELSE @ + 1 + pieces[p]]
    BY <1>9 DEF AddPiece
  <2> HIDE DEF d
  <2>3. d.current \in Seq(X) /\ d.length \in Nat
    BY <2>1 DEF PieceState, X
  <2>4. Append(d.current, <<p, 1>>) \in Seq(X) /\ d.length + 1 + pieces[p] \in Nat
    BY <1>1, <1>2, <1>3, <2>3
  <2> DEFINE e == AddPiece(c, p, pieces[p])
  <2>5. /\ e = [chunks |-> e.chunks, current |-> e.current, length |-> e.length]
        /\ e.chunks = d.chunks /\ e.current = Append(d.current, <<p, 1>>)
        /\ e.length \in {pieces[p], d.length + 1 + pieces[p]}
    BY <2>1, <2>2 DEF PieceState
  <2>6. d.chunks \in Seq(Seq(X))
    BY <2>1 DEF PieceState, X
  <2> HIDE DEF e
  <2>7. e.chunks \in Seq(Seq(X)) /\ e.current \in Seq(X) /\ e.length \in Nat
    BY <1>1, <2>4, <2>5, <2>6
  <2>8. e \in PieceState
    BY <2>5, <2>7 DEF PieceState, X
  <2> QED
    BY <1>6, <2>8 DEF e
<1> QED
  BY <1>6, <1>8, <1>9

LEMMA PiecesUnfold ==
    ASSUME NEW n \in Nat, NEW pieces \in [1 .. n -> Nat \ {0}]
    PROVE  SweepEnds(CutPieces(pieces), n, Emptied, PiecesCut(pieces, n), PieceState)
<1> DEFINE V == PieceState
           F == PiecesCut(pieces, n)
           sq == [p \in DOMAIN pieces |-> p]
           Solves(g) == g = [s \in SUBSET DOMAIN sq |->
                                IF s = {} THEN Emptied
                                ELSE AddPiece(g[s \ {Highest(s)}], sq[Highest(s)], pieces[sq[Highest(s)]])]
<1>0. DOMAIN sq = 1 .. n /\ \A p \in 1 .. n : sq[p] = p
  OBVIOUS
<1>1. F \in [V \X (1 .. n) -> V]
  BY PiecesAreCut DEF PiecesCut
<1>2. Emptied \in V
  BY DEF Emptied, PieceState
<1>3. \A v \in V, p \in 1 .. n : F[<<v, p>>] = AddPiece(v, p, pieces[p])
  BY DEF PiecesCut
<1> HIDE DEF V, F
<1>4. PICK g \in [SUBSET (1 .. n) -> V] : FoldsAlong(g, n, Emptied, F)
  BY <1>1, <1>2, FoldExists
<1> HIDE DEF sq
<1>5. ASSUME NEW s \in SUBSET (1 .. n)
      PROVE  g[s] = IF s = {} THEN Emptied ELSE AddPiece(g[s \ {Highest(s)}], sq[Highest(s)], pieces[sq[Highest(s)]])
  <2>1. CASE s # {}
    <3>1. Highest(s) \in 1 .. n /\ g[s \ {Highest(s)}] \in V
      BY <1>4, <2>1, HighestOf
    <3>2. g[s] = F[<<g[s \ {Highest(s)}], Highest(s)>>]
      BY <1>4, <2>1 DEF FoldsAlong
    <3> QED
      BY <1>0, <1>3, <2>1, <3>1, <3>2
  <2> QED
    BY <1>4, <2>1 DEF FoldsAlong
<1>6. Solves(g)
  BY <1>0, <1>4, <1>5
<1>7. Solves(CHOOSE x : Solves(x))
  BY <1>6
<1>8. CutPieces(pieces) = (CHOOSE x : Solves(x))[1 .. n]
  BY <1>0 DEF CutPieces, FoldLeft, MapThenFoldSet, Highest, Max, sq
<1>9. ASSUME NEW x, Solves(x), NEW k \in 1 .. n, x[1 .. k - 1] \in V PROVE x[1 .. k] = F[<<x[1 .. k - 1], k>>]
  <2>1. 1 .. k \in SUBSET (1 .. n) /\ 1 .. k # {} /\ Highest(1 .. k) = k /\ (1 .. k) \ {k} = 1 .. k - 1
    BY FoldOfInterval
  <2>0. \A s \in SUBSET (1 .. n) :
           x[s] = IF s = {} THEN Emptied ELSE AddPiece(x[s \ {Highest(s)}], sq[Highest(s)], pieces[sq[Highest(s)]])
    BY <1>0, <1>9
  <2>2. x[1 .. k] = AddPiece(x[1 .. k - 1], sq[k], pieces[sq[k]])
    BY <2>0, <2>1
  <2> QED
    BY <1>0, <1>3, <1>9, <2>2
<1>10. ASSUME NEW x, Solves(x) PROVE x[{}] = Emptied
  BY <1>10
<1> DEFINE w == CHOOSE x : Solves(x)
<1> HIDE DEF w
<1>11. Solves(w) /\ CutPieces(pieces) = w[1 .. n]
  BY <1>7, <1>8 DEF w
<1> HIDE DEF Solves
<1>12. SweepEnds(CutPieces(pieces), n, Emptied, F, V)
  <2>1. FoldStep(w, n, Emptied, F, V)
    BY <1>9, <1>10, <1>11 DEF FoldStep
  <2> QED
    BY <1>1, <1>2, <1>11, <2>1, StepsOfFold
<1> QED
  BY <1>12 DEF V, F

-----------------------------------------------------------------------------
(* What a chunk weighs, and that none is too long.                         *)
SizeOn(pieces, t) == Min({PageChars, pieces[t[1]]})
MeasuredBy(pieces, s, h) ==
    /\ h \in [0 .. Len(s) -> Int] /\ h[0] = -1
    /\ \A i \in 1 .. Len(s) : SizeOn(pieces, s[i]) \in Nat /\ h[i] = h[i - 1] + 1 + SizeOn(pieces, s[i])
Measures(pieces, s, m) == \E h : MeasuredBy(pieces, s, h) /\ h[Len(s)] = m
FitsPage(pieces, s) == \E m \in Int : m <= PageChars /\ Measures(pieces, s, m)
IsPieceOf(n, t) == t \in PartsOfPieces /\ t[1] \in 1 .. n

LEMMA SizeIs ==
    ASSUME NEW n \in Nat, NEW pieces \in [1 .. n -> Nat \ {0}], NEW t, IsPieceOf(n, t)
    PROVE  /\ SizeOn(pieces, t) \in Nat /\ SizeOn(pieces, t) <= PageChars
           /\ pieces[t[1]] <= PageChars => SizeOn(pieces, t) = pieces[t[1]]
<1>1. {PageChars, pieces[t[1]]} \subseteq Nat /\ {PageChars, pieces[t[1]]} # {}
  BY ActsAssumption DEF IsPieceOf
<1>2. SizeOn(pieces, t) \in {PageChars, pieces[t[1]]} /\ \A y \in {PageChars, pieces[t[1]]} : SizeOn(pieces, t) <= y
  BY <1>1, MinOf DEF SizeOn
<1> QED
  BY <1>1, <1>2

LEMMA EmptyMeasures ==
    ASSUME NEW pieces
    PROVE  Measures(pieces, <<>>, -1) /\ FitsPage(pieces, <<>>)
<1> DEFINE h == [i \in 0 .. 0 |-> -1]
<1>1. Len(<<>>) = 0 /\ h \in [0 .. 0 -> Int] /\ h[0] = -1 /\ 1 .. 0 = {}
  OBVIOUS
<1> HIDE DEF h
<1>2. MeasuredBy(pieces, <<>>, h) /\ h[Len(<<>>)] = -1
  BY <1>1 DEF MeasuredBy
<1>3. Measures(pieces, <<>>, -1)
  BY <1>2 DEF Measures
<1>4. -1 \in Int /\ -1 <= PageChars
  BY ActsAssumption
<1> QED
  BY <1>3, <1>4 DEF FitsPage

LEMMA AppendMeasures ==
    ASSUME NEW n \in Nat, NEW pieces \in [1 .. n -> Nat \ {0}], NEW t, IsPieceOf(n, t),
           NEW s \in Seq(PartsOfPieces), NEW m, Measures(pieces, s, m), NEW longer, longer = Append(s, t)
    PROVE  Measures(pieces, longer, m + 1 + SizeOn(pieces, t))
<1>1. PICK h : MeasuredBy(pieces, s, h) /\ h[Len(s)] = m
  BY DEF Measures
<1>2. PICK l \in Nat : l = Len(s)
  BY LenProperties
<1>3. h \in [0 .. l -> Int] /\ h[0] = -1 /\ (\A i \in 1 .. l : SizeOn(pieces, s[i]) \in Nat /\ h[i] = h[i - 1] + 1 + SizeOn(pieces, s[i])) /\ h[l] = m
  BY <1>1, <1>2 DEF MeasuredBy
<1>4. t \in PartsOfPieces /\ SizeOn(pieces, t) \in Nat
  BY SizeIs DEF IsPieceOf
<1>5. longer \in Seq(PartsOfPieces) /\ Len(longer) = l + 1 /\ longer[l + 1] = t /\ \A i \in 1 .. l : longer[i] = s[i]
  BY <1>2, <1>4, AppendProperties
<1> DEFINE g == [i \in 0 .. l + 1 |-> IF i = l + 1 THEN m + 1 + SizeOn(pieces, t) ELSE h[i]]
<1>6. \A i \in 0 .. l : i \in 0 .. l + 1 /\ i # l + 1
  OBVIOUS
<1>7. \A i \in 0 .. l : g[i] = h[i]
  BY <1>6
<1>8. l + 1 \in 0 .. l + 1 /\ l \in 0 .. l /\ 0 \in 0 .. l
  OBVIOUS
<1>9. g[l + 1] = m + 1 + SizeOn(pieces, t)
  BY <1>8
<1>10. g \in [0 .. l + 1 -> Int]
  <2>1. \A i \in 0 .. l + 1 : i # l + 1 => i \in 0 .. l
    OBVIOUS
  <2>2. m \in Int
    BY <1>3, <1>8
  <2> QED
    BY <1>3, <1>4, <2>1, <2>2
<1> HIDE DEF g
<1>11. ASSUME NEW i \in 1 .. l + 1 PROVE SizeOn(pieces, longer[i]) \in Nat /\ g[i] = g[i - 1] + 1 + SizeOn(pieces, longer[i])
  <2>1. CASE i = l + 1
    <3>1. i - 1 = l /\ g[i - 1] = m
      BY <1>3, <1>7, <1>8, <2>1
    <3> QED
      BY <1>4, <1>5, <1>9, <2>1, <3>1
  <2>2. CASE i # l + 1
    <3>1. i \in 1 .. l /\ i \in 0 .. l /\ i - 1 \in 0 .. l
      BY <2>2
    <3> QED
      BY <1>3, <1>5, <1>7, <3>1
  <2> QED
    BY <2>1, <2>2
<1>12. MeasuredBy(pieces, longer, g)
  BY <1>3, <1>5, <1>7, <1>8, <1>10, <1>11 DEF MeasuredBy
<1> QED
  BY <1>5, <1>9, <1>12 DEF Measures

Singles(X, n, s, t) == n \in Nat /\ t \in [1 .. n -> X] /\ s \in [1 .. n -> Seq(X)] /\ \A k \in 1 .. n : s[k] = <<t[k]>>

LEMMA FlattenSingles ==
    ASSUME NEW X, NEW n, NEW t, NEW s, Singles(X, n, s, t)
    PROVE  FlattenSeq(s) = t
<1>0. n \in Nat /\ t \in [1 .. n -> X] /\ s \in [1 .. n -> Seq(X)] /\ \A k \in 1 .. n : s[k] = <<t[k]>>
  BY DEF Singles
<1> DEFINE f == [i \in 0 .. n |-> [k \in 1 .. i |-> t[k]]]
<1>1. s \in [1 .. n -> Seq(X)] /\ n \in Nat
  BY <1>0
<1>2. \A i \in 0 .. n : f[i] = [k \in 1 .. i |-> t[k]]
  OBVIOUS
<1>3. ASSUME NEW i \in 0 .. n PROVE f[i] \in Seq(X) /\ Len(f[i]) = i
  <2>1. i \in Nat /\ \A k \in 1 .. i : k \in 1 .. n
    BY <1>0
  <2>2. \A k \in 1 .. i : t[k] \in X
    BY <1>0, <2>1
  <2>3. [k \in 1 .. i |-> t[k]] \in Seq(X)
    BY <2>1, <2>2, FunctionsAreSeqs
  <2>4. DOMAIN f[i] = 1 .. i
    BY <1>2
  <2> QED
    BY <1>2, <2>1, <2>3, <2>4, LenProperties
<1>4. f \in [0 .. n -> Seq(X)]
  BY <1>3
<1>5. f[0] = <<>>
  <2>1. 0 \in 0 .. n
    BY <1>0
  <2>2. f[0] \in Seq(X) /\ Len(f[0]) = 0
    BY <1>3, <2>1
  <2> QED
    BY <2>2, EmptySeq
<1> HIDE DEF f
<1>6. ASSUME NEW i \in 1 .. n PROVE f[i] = f[i - 1] \o s[i]
  <2>1. PICK j \in 0 .. n : j = i - 1
    BY <1>0
  <2>2. i \in 0 .. n /\ i \in Nat /\ j \in Nat
    BY <1>0
  <2>3. s[i] = <<t[i]>> /\ s[i] \in Seq(X)
    BY <1>0
  <2>4. Append(f[j], t[i]) = f[j] \o <<t[i]>>
    <3>1. f[j] \in Seq(X) /\ t[i] \in X
      BY <1>0, <1>3
    <3> QED
      BY <3>1, AppendIsConcat
  <2>5. f[i] = Append(f[j], t[i])
    <3>1. f[j] \in Seq(X) /\ Len(f[j]) = j /\ f[i] \in Seq(X) /\ Len(f[i]) = i /\ t[i] \in X
      BY <1>0, <1>3, <2>2
    <3>2. PICK a : a = Append(f[j], t[i])
      OBVIOUS
    <3>3. a \in Seq(X) /\ Len(a) = j + 1 /\ a[j + 1] = t[i] /\ \A k \in 1 .. j : a[k] = f[j][k]
      <4>1. PICK b \in Seq(X) : b = f[j] /\ Len(b) = j
        BY <3>1
      <4>2. a \in Seq(X) /\ Len(a) = Len(b) + 1 /\ a[Len(b) + 1] = t[i] /\ \A k \in 1 .. Len(b) : a[k] = b[k]
        BY <3>1, <3>2, <4>1, AppendProperties
      <4> QED
        BY <4>1, <4>2
    <3>4. j + 1 = i /\ Len(a) = i
      BY <2>1, <2>2, <3>3
    <3>5. ASSUME NEW k \in 1 .. i PROVE a[k] = f[i][k]
      <4>1. f[i][k] = t[k]
        BY <1>2, <2>2
      <4>2. CASE k = i
        BY <3>3, <3>4, <4>1, <4>2
      <4>3. CASE k # i
        <5>1. k \in 1 .. j
          BY <2>2, <3>4, <4>3
        <5> QED
          BY <1>2, <3>3, <4>1, <5>1
      <4> QED
        BY <4>2, <4>3
    <3>6. a = f[i]
      BY <3>1, <3>3, <3>4, <3>5, SeqEqual
    <3> QED
      BY <3>2, <3>6
  <2> QED
    BY <2>1, <2>3, <2>4, <2>5
<1>7. FlattensTo(s, f, n, X)
  BY <1>4, <1>5, <1>6 DEF FlattensTo
<1>8. FlattenSeq(s) = f[n]
  BY <1>1, <1>7, FlattensOnce
<1>9. n \in 0 .. n
  BY <1>0
<1>10. f[n] = t
  BY <1>0, <1>2, <1>9
<1> QED
  BY <1>8, <1>10

-----------------------------------------------------------------------------
(* The chunks of the pieces taken so far.                                  *)
ChunksOK(pieces, text, c) ==
    /\ c \in PieceState
    /\ FlattenSeq(c.chunks) \o c.current = text
    /\ \A i \in 1 .. Len(c.chunks) : FitsPage(pieces, c.chunks[i])
    /\ c.current = <<>> \/ (Measures(pieces, c.current, c.length) /\ c.length <= PageChars)

EitherWay(x, y, z) == (x \o y) \o z = x \o (y \o z)

LEMMA ThreeInARow ==
    ASSUME NEW X, NEW x \in Seq(X), NEW y \in Seq(X), NEW z \in Seq(X)
    PROVE  EitherWay(x, y, z)
  BY ConcatAssociative DEF EitherWay

AllFit(pieces, s) == \A i \in 1 .. Len(s) : FitsPage(pieces, s[i])

LEMMA FitTogether ==
    ASSUME NEW X, NEW pieces, NEW a \in Seq(X), NEW b \in Seq(X), AllFit(pieces, a), AllFit(pieces, b), NEW c, c = a \o b
    PROVE  AllFit(pieces, c)
<1>1. OneAfterTheOther(X, a, b, c)
  BY ConcatOf
<1>2. PICK la \in Nat, lb \in Nat : la = Len(a) /\ lb = Len(b)
  BY LenProperties
<1>3. c \in Seq(X) /\ Len(c) = la + lb /\ DOMAIN c = 1 .. la + lb
      /\ (\A p \in 1 .. la : c[p] = a[p]) /\ \A p \in DOMAIN c : p > la => p - la \in 1 .. lb /\ c[p] = b[p - la]
  BY <1>1, <1>2 DEF OneAfterTheOther
<1> SUFFICES ASSUME NEW p \in 1 .. la + lb PROVE FitsPage(pieces, c[p])
  BY <1>3 DEF AllFit
<1>4. CASE p <= la
  <2>1. p \in 1 .. la
    BY <1>4
  <2> QED
    BY <1>2, <1>3, <2>1 DEF AllFit
<1>5. CASE ~(p <= la)
  <2>1. p > la
    BY <1>5
  <2>2. p - la \in 1 .. lb /\ c[p] = b[p - la]
    BY <1>3, <2>1
  <2> QED
    BY <1>2, <2>2 DEF AllFit
<1> QED
  BY <1>4, <1>5

LEMMA OneFits ==
    ASSUME NEW n \in Nat, NEW pieces \in [1 .. n -> Nat \ {0}], NEW t, IsPieceOf(n, t)
    PROVE  /\ Measures(pieces, <<t>>, SizeOn(pieces, t)) /\ FitsPage(pieces, <<t>>)
           /\ SizeOn(pieces, t) \in Nat /\ SizeOn(pieces, t) <= PageChars
<1>1. <<>> \in Seq(PartsOfPieces) /\ <<t>> = Append(<<>>, t) /\ Measures(pieces, <<>>, -1)
  BY EmptyMeasures
<1>2. Measures(pieces, <<t>>, -1 + 1 + SizeOn(pieces, t))
  BY <1>1, AppendMeasures
<1>3. SizeOn(pieces, t) \in Nat /\ SizeOn(pieces, t) <= PageChars
  BY SizeIs
<1>4. -1 + 1 + SizeOn(pieces, t) = SizeOn(pieces, t) /\ SizeOn(pieces, t) \in Int
  BY <1>3
<1> QED
  BY <1>2, <1>3, <1>4 DEF FitsPage

LEMMA NoneAdded ==
    ASSUME NEW X, NEW s \in Seq(X)
    PROVE  s \o <<>> = s /\ <<>> \o s = s
  BY ConcatEmptySeq

LEMMA FlushKeeps ==
    ASSUME NEW pieces, NEW text, NEW c, ChunksOK(pieces, text, c)
    PROVE  /\ ChunksOK(pieces, text, Flush(c)) /\ Flush(c).current = <<>>
           /\ FlattenSeq(Flush(c).chunks) = text /\ AllFit(pieces, Flush(c).chunks)
<1> DEFINE X == PartsOfPieces
           d == Flush(c)
<1>1. /\ c.chunks \in Seq(Seq(X)) /\ c.current \in Seq(X) /\ c.length \in Nat
      /\ FlattenSeq(c.chunks) \o c.current = text
      /\ \A i \in 1 .. Len(c.chunks) : FitsPage(pieces, c.chunks[i])
      /\ c.current = <<>> \/ (Measures(pieces, c.current, c.length) /\ c.length <= PageChars)
  BY DEF ChunksOK, PieceState
<1>2. d = [chunks |-> IF c.current = <<>> THEN c.chunks ELSE Append(c.chunks, c.current), current |-> <<>>, length |-> 0]
  BY DEF Flush, Emptied
<1>3. FlattenSeq(c.chunks) \in Seq(X)
  BY <1>1, FlattenSize, FlattenType
<1>4. d.chunks \in Seq(Seq(X)) /\ FlattenSeq(d.chunks) = text /\ AllFit(pieces, d.chunks)
  <2>1. CASE c.current = <<>>
    <3>1. d.chunks = c.chunks
      BY <1>2, <2>1
    <3>2. FlattenSeq(c.chunks) \o <<>> = FlattenSeq(c.chunks)
      BY <1>3, NoneAdded
    <3> QED
      BY <1>1, <2>1, <3>1, <3>2 DEF AllFit
  <2>2. CASE c.current # <<>>
    <3>1. d.chunks = Append(c.chunks, c.current)
      BY <1>2, <2>2
    <3>2. FlattenSeq(d.chunks) = FlattenSeq(c.chunks) \o c.current
      BY <1>1, <3>1, FlattenAppend
    <3>3. d.chunks = c.chunks \o <<c.current>> /\ <<c.current>> \in Seq(Seq(X))
      <4>1. PICK a \in Seq(Seq(X)), b \in Seq(X) : a = c.chunks /\ b = c.current
        BY <1>1
      <4>2. Append(a, b) = a \o <<b>>
        BY AppendIsConcat
      <4>3. <<b>> \in Seq(Seq(X))
        OBVIOUS
      <4> QED
        BY <3>1, <4>1, <4>2, <4>3
    <3>4. FitsPage(pieces, c.current)
      <4>1. c.length \in Int
        BY <1>1
      <4> QED
        BY <1>1, <2>2, <4>1 DEF FitsPage
    <3>5. AllFit(pieces, <<c.current>>) /\ AllFit(pieces, c.chunks)
      <4>1. Len(<<c.current>>) = 1 /\ <<c.current>>[1] = c.current /\ \A i \in 1 .. 1 : i = 1
        OBVIOUS
      <4> QED
        BY <1>1, <3>4, <4>1 DEF AllFit
    <3>6. d.chunks \in Seq(Seq(X))
      BY <1>1, <3>3, ConcatProperties
    <3>7. AllFit(pieces, d.chunks)
      BY <1>1, <3>3, <3>5, FitTogether
    <3> QED
      BY <1>1, <3>2, <3>6, <3>7
  <2> QED
    BY <2>1, <2>2
<1>5. d.current = <<>> /\ d.length = 0 /\ d = [chunks |-> d.chunks, current |-> <<>>, length |-> 0]
  BY <1>2
<1>6. <<>> \in Seq(X) /\ 0 \in Nat
  OBVIOUS
<1> HIDE DEF d, X
<1>7. d \in PieceState
  BY <1>4, <1>5, <1>6 DEF PieceState, X
<1>8. FlattenSeq(d.chunks) \o <<>> = FlattenSeq(d.chunks)
  <2>1. FlattenSeq(d.chunks) \in Seq(X)
    BY <1>4, FlattenSize, FlattenType
  <2> QED
    BY <2>1, NoneAdded
<1>9. ChunksOK(pieces, text, d)
  BY <1>4, <1>5, <1>7, <1>8 DEF ChunksOK, AllFit
<1> QED
  BY <1>4, <1>5, <1>9 DEF d

LEMMA LongPieceKeeps ==
    ASSUME NEW n \in Nat, NEW pieces \in [1 .. n -> Nat \ {0}], NEW p \in 1 .. n, pieces[p] > PageChars,
           NEW text, NEW c, ChunksOK(pieces, text, c), NEW longer, longer = text \o PartsOfPiece(p, pieces[p])
    PROVE  ChunksOK(pieces, longer, AddPiece(c, p, pieces[p]))
<1> DEFINE X == PartsOfPieces
           e == Flush(c)
           q == partsOf(pieces[p])
           t == PartsOfPiece(p, pieces[p])
           cut == [k \in 1 .. q |-> <<<<p, k>>>>]
           d == AddPiece(c, p, pieces[p])
<1>1. /\ ChunksOK(pieces, text, e) /\ e.current = <<>>
      /\ FlattenSeq(e.chunks) = text /\ AllFit(pieces, e.chunks)
  BY FlushKeeps
<1>2. e \in PieceState
  BY <1>1 DEF ChunksOK
<1>3. d = [e EXCEPT !.chunks = e.chunks \o cut]
  BY DEF AddPiece
<1>4. q \in Nat /\ p \in Nat
  BY PartsAreNumbers
<1>5. t = [k \in 1 .. q |-> <<p, k>>]
  BY DEF PartsOfPiece
<1> HIDE DEF q, t, e, d
<1>6. t \in [1 .. q -> X] /\ \A k \in 1 .. q : t[k] = <<p, k>> /\ IsPieceOf(n, t[k])
  BY <1>4, <1>5 DEF PartsOfPieces, IsPieceOf
<1> HIDE DEF X
<1>7. cut = [k \in 1 .. q |-> <<t[k]>>]
  BY <1>6
<1>8. cut \in Seq(Seq(X)) /\ Len(cut) = q
  <2>1. \A k \in 1 .. q : <<t[k]>> \in Seq(X)
    BY <1>6
  <2>2. cut \in Seq(Seq(X))
    BY <1>4, <1>7, <2>1, FunctionsAreSeqs
  <2>3. DOMAIN cut = 1 .. q
    OBVIOUS
  <2> QED
    BY <1>4, <2>2, <2>3, LenProperties
<1>9. FlattenSeq(cut) = t
  <2>a. \A x \in X : <<x>> \in Seq(X)
    OBVIOUS
  <2>b. \A k \in 1 .. q : cut[k] = <<t[k]>>
    BY <1>7
  <2>c. \A k \in 1 .. q : t[k] \in X
    BY <1>6
  <2>1. \A k \in 1 .. q : cut[k] = <<t[k]>> /\ <<t[k]>> \in Seq(X)
    BY <2>a, <2>b, <2>c
  <2>2. cut \in [1 .. q -> Seq(X)]
    BY <1>7, <2>1
  <2> HIDE DEF cut
  <2> QED
    <3>1. Singles(X, q, cut, t)
      BY <1>4, <1>6, <2>1, <2>2 DEF Singles
    <3> QED
      BY <3>1, FlattenSingles
<1>10. AllFit(pieces, cut)
  <2> SUFFICES ASSUME NEW k \in 1 .. q PROVE FitsPage(pieces, cut[k])
    BY <1>8 DEF AllFit
  <2>1. cut[k] = <<t[k]>> /\ IsPieceOf(n, t[k])
    BY <1>6, <1>7
  <2>2. FitsPage(pieces, <<t[k]>>)
    BY <2>1, OneFits
  <2> QED
    BY <2>1, <2>2
<1> HIDE DEF cut
<1>11. e.chunks \in Seq(Seq(X)) /\ e.length \in Nat /\ e = [chunks |-> e.chunks, current |-> <<>>, length |-> e.length]
  BY <1>1, <1>2 DEF PieceState, X
<1>12. d.chunks = e.chunks \o cut /\ d.current = <<>> /\ d.length = e.length
       /\ d = [chunks |-> d.chunks, current |-> d.current, length |-> d.length]
  <2>1. PICK chunks, length : chunks = e.chunks /\ length = e.length
    OBVIOUS
  <2>2. e = [chunks |-> chunks, current |-> <<>>, length |-> length]
    BY <1>11, <2>1
  <2>3. d = [chunks |-> chunks \o cut, current |-> <<>>, length |-> length]
    <3>1. d = [[chunks |-> chunks, current |-> <<>>, length |-> length] EXCEPT !.chunks = chunks \o cut]
      BY <1>3, <2>1, <2>2
    <3> QED
      BY <3>1
  <2> QED
    BY <2>1, <2>3
<1>13. FlattenSeq(d.chunks) = text \o t
  BY <1>1, <1>8, <1>9, <1>11, <1>12, FlattenConcat
<1>14. d.chunks \in Seq(Seq(X))
  BY <1>8, <1>11, <1>12, ConcatProperties
<1>15. AllFit(pieces, d.chunks)
  BY <1>1, <1>8, <1>10, <1>11, <1>12, FitTogether
<1>16. FlattenSeq(d.chunks) \o <<>> = FlattenSeq(d.chunks)
  <2>1. FlattenSeq(d.chunks) \in Seq(X)
    BY <1>14, FlattenSize, FlattenType
  <2> QED
    BY <2>1, NoneAdded
<1>17. d \in PieceState
  <2>1. <<>> \in Seq(X)
    OBVIOUS
  <2> QED
    BY <1>11, <1>12, <1>14, <2>1 DEF PieceState, X
<1>18. ChunksOK(pieces, longer, d)
  BY <1>12, <1>13, <1>15, <1>16, <1>17 DEF ChunksOK, AllFit, t
<1> QED
  BY <1>18 DEF d

LEMMA ShortPieceKeeps ==
    ASSUME NEW n \in Nat, NEW pieces \in [1 .. n -> Nat \ {0}], NEW p \in 1 .. n, ~(pieces[p] > PageChars),
           NEW text, NEW c, ChunksOK(pieces, text, c), NEW longer, longer = text \o PartsOfPiece(p, pieces[p])
    PROVE  ChunksOK(pieces, longer, AddPiece(c, p, pieces[p]))
<1> DEFINE X == PartsOfPieces
           t == <<p, 1>>
           d == IF c.current # <<>> /\ c.length + 1 + pieces[p] > PageChars THEN Flush(c) ELSE c
           e == AddPiece(c, p, pieces[p])
<1>0. pieces[p] \in Nat /\ pieces[p] > 0 /\ PageChars \in Nat /\ pieces[p] <= PageChars /\ p \in Nat
  BY ActsAssumption
<1>1. ChunksOK(pieces, text, d) /\ (d.current # <<>> => d = c /\ c.length + 1 + pieces[p] <= PageChars)
  <2>1. c.length \in Nat
    BY DEF ChunksOK, PieceState
  <2>2. ChunksOK(pieces, text, Flush(c)) /\ Flush(c).current = <<>>
    BY FlushKeeps
  <2> QED
    BY <1>0, <2>1, <2>2
<1>2. e = [d EXCEPT !.current = Append(@, t), !.length = IF d.current = <<>> THEN pieces[p] ELSE @ + 1 + pieces[p]]
  BY DEF AddPiece
<1>3. IsPieceOf(n, t) /\ t \in X /\ t[1] = p
  BY <1>0 DEF IsPieceOf, PartsOfPieces
<1>4. PartsOfPiece(p, pieces[p]) = <<t>>
  <2>1. partsOf(pieces[p]) = 1
    BY <1>0, PartsAreNumbers
  <2>2. PartsOfPiece(p, pieces[p]) = [k \in 1 .. 1 |-> <<p, k>>]
    BY <2>1 DEF PartsOfPiece
  <2>3. \A k \in 1 .. 1 : k = 1
    OBVIOUS
  <2>4. [k \in 1 .. 1 |-> <<p, k>>] = [k \in 1 .. 1 |-> t]
    BY <2>3
  <2>5. [k \in 1 .. 1 |-> t] = <<t>>
    OBVIOUS
  <2> QED
    BY <2>2, <2>4, <2>5
<1> HIDE DEF t, d, e, X
<1>5. d \in PieceState /\ d.chunks \in Seq(Seq(X)) /\ d.current \in Seq(X) /\ d.length \in Nat
      /\ FlattenSeq(d.chunks) \o d.current = text
      /\ (\A i \in 1 .. Len(d.chunks) : FitsPage(pieces, d.chunks[i]))
      /\ (d.current = <<>> \/ (Measures(pieces, d.current, d.length) /\ d.length <= PageChars))
  BY <1>1 DEF ChunksOK, PieceState, X
<1>6. /\ e.chunks = d.chunks /\ e.current = Append(d.current, t)
      /\ e.length = (IF d.current = <<>> THEN pieces[p] ELSE d.length + 1 + pieces[p])
      /\ e = [chunks |-> e.chunks, current |-> e.current, length |-> e.length]
  BY <1>2, <1>5 DEF PieceState
<1>7. SizeOn(pieces, t) = pieces[p]
  BY <1>0, <1>3, SizeIs
<1>8. Measures(pieces, e.current, e.length) /\ e.length <= PageChars
  <2>1. CASE d.current = <<>>
    <3>1. e.current = <<t>> /\ e.length = pieces[p]
      BY <1>6, <2>1
    <3>2. Measures(pieces, <<t>>, SizeOn(pieces, t))
      BY <1>3, OneFits
    <3> QED
      BY <1>0, <1>7, <3>1, <3>2
  <2>2. CASE d.current # <<>>
    <3>1. e.length = d.length + 1 + SizeOn(pieces, t) /\ d.length + 1 + pieces[p] <= PageChars
      BY <1>1, <1>6, <1>7, <2>2
    <3>2. Measures(pieces, d.current, d.length) /\ d.current \in Seq(PartsOfPieces)
      BY <1>5, <2>2 DEF X
    <3>3. Measures(pieces, e.current, d.length + 1 + SizeOn(pieces, t))
      BY <1>3, <1>6, <3>2, AppendMeasures
    <3> QED
      BY <1>7, <3>1, <3>3
  <2> QED
    BY <2>1, <2>2
<1>9. FlattenSeq(e.chunks) \o e.current = longer
  <2>1. FlattenSeq(d.chunks) \in Seq(X) /\ <<t>> \in Seq(X)
    BY <1>3, <1>5, FlattenSize, FlattenType
  <2>2. PICK a \in Seq(PartsOfPieces), b \in Seq(PartsOfPieces), w \in Seq(PartsOfPieces) : a = FlattenSeq(d.chunks) /\ b = d.current /\ w = <<t>>
    BY <1>5, <2>1 DEF X
  <2>3. Append(d.current, t) = b \o w
    BY <1>3, <1>5, <2>2, AppendIsConcat DEF X
  <2>4. (a \o b) \o w = a \o (b \o w)
    <3>1. EitherWay(a, b, w)
      BY ThreeInARow
    <3> QED
      BY <3>1 DEF EitherWay
  <2> QED
    BY <1>4, <1>5, <1>6, <2>2, <2>3, <2>4
<1>10. e \in PieceState
  <2>1. e.current \in Seq(X)
    BY <1>3, <1>5, <1>6, AppendProperties
  <2>2. e.length \in Nat
    BY <1>0, <1>5, <1>6
  <2> QED
    BY <1>5, <1>6, <2>1, <2>2 DEF PieceState, X
<1>11. ChunksOK(pieces, longer, e)
  BY <1>5, <1>6, <1>8, <1>9, <1>10 DEF ChunksOK
<1> QED
  BY <1>11 DEF e

LEMMA ChunksAreThePieces ==
    ASSUME NEW n \in Nat, NEW pieces \in [1 .. n -> Nat \ {0}], NEW whole, whole = [p \in 1 .. n |-> PartsOfPiece(p, pieces[p])]
    PROVE  /\ chunkFragments(pieces) \in Seq(Seq(PartsOfPieces)) /\ Len(chunkFragments(pieces)) \in Nat \ {0}
           /\ FlattenSeq(chunkFragments(pieces)) = FlattenSeq(whole) /\ AllFit(pieces, chunkFragments(pieces))
<1> DEFINE X == PartsOfPieces
<1>1. PICK h : SweepsTo(h, n, Emptied, PiecesCut(pieces, n), PieceState) /\ CutPieces(pieces) = h[n]
  BY PiecesUnfold DEF SweepEnds
<1>2. /\ h \in [0 .. n -> PieceState] /\ h[0] = Emptied
      /\ \A k \in 1 .. n : h[k] = AddPiece(h[k - 1], k, pieces[k])
  <2>1. h \in [0 .. n -> PieceState] /\ h[0] = Emptied
        /\ \A k \in 1 .. n : h[k] = PiecesCut(pieces, n)[<<h[k - 1], k>>]
    BY <1>1 DEF SweepsTo
  <2>2. \A k \in 1 .. n : h[k - 1] \in PieceState
    <3>1. \A k \in 1 .. n : k - 1 \in 0 .. n
      OBVIOUS
    <3> QED
      BY <2>1, <3>1
  <2> QED
    BY <2>1, <2>2 DEF PiecesCut
<1>3. whole \in [1 .. n -> Seq(X)]
  <2> SUFFICES ASSUME NEW p \in 1 .. n PROVE PartsOfPiece(p, pieces[p]) \in Seq(X)
    OBVIOUS
  <2>1. partsOf(pieces[p]) \in Nat
    BY PartsAreNumbers
  <2>2. \A k \in 1 .. partsOf(pieces[p]) : <<p, k>> \in X
    BY <2>1 DEF PartsOfPieces
  <2> QED
    BY <2>1, <2>2, FunctionsAreSeqs DEF PartsOfPiece
<1>4. PICK f : FlattensTo(whole, f, n, X)
  BY <1>3, FlattensExist
<1>5. f \in [0 .. n -> Seq(X)] /\ f[0] = <<>> /\ \A i \in 1 .. n : f[i] = f[i - 1] \o whole[i]
  BY <1>4 DEF FlattensTo
<1> DEFINE G == {k \in 0 .. n : ChunksOK(pieces, f[k], h[k])}
<1>6. 0 \in G
  <2>1. FlattenSeq(<<>>) = <<>> /\ Len(<<>>) = 0 /\ <<>> \o <<>> = <<>>
    BY DEF FlattenSeq
  <2>2. Emptied \in PieceState
    BY DEF Emptied, PieceState
  <2>3. Emptied.chunks = <<>> /\ Emptied.current = <<>>
    BY DEF Emptied
  <2>4. 1 .. 0 = {} /\ 0 \in 0 .. n
    OBVIOUS
  <2>5. ChunksOK(pieces, <<>>, Emptied)
    BY <2>1, <2>2, <2>3, <2>4 DEF ChunksOK
  <2> QED
    BY <1>2, <1>5, <2>4, <2>5
<1>7. ASSUME NEW k \in 1 .. n, k - 1 \in G PROVE k \in G
  <2>1. PICK j \in 0 .. n : j = k - 1
    OBVIOUS
  <2>2. ChunksOK(pieces, f[j], h[j]) /\ h[k] = AddPiece(h[j], k, pieces[k]) /\ f[k] = f[j] \o PartsOfPiece(k, pieces[k])
    BY <1>2, <1>5, <1>7, <2>1
  <2>3. ChunksOK(pieces, f[k], h[k])
    BY <2>2, LongPieceKeeps, ShortPieceKeeps
  <2>4. k \in 0 .. n
    OBVIOUS
  <2> QED
    BY <2>3, <2>4
<1> HIDE DEF G
<1>8. \A k \in 0 .. n : k \in G
  BY <1>6, <1>7, UpTo
<1>9. ChunksOK(pieces, f[n], h[n])
  BY <1>8 DEF G
<1>10. FlattenSeq(whole) = f[n]
  BY <1>3, <1>4, FlattensOnce
<1> DEFINE cut == Flush(h[n])
<1>11. ChunksOK(pieces, f[n], cut) /\ FlattenSeq(cut.chunks) = f[n] /\ AllFit(pieces, cut.chunks)
  BY <1>9, FlushKeeps
<1>12. chunkFragments(pieces) = IF cut.chunks = <<>> THEN <<<<>>>> ELSE cut.chunks
  BY <1>1 DEF chunkFragments, CutPieces
<1> HIDE DEF cut
<1>13. cut.chunks \in Seq(Seq(X))
  BY <1>11 DEF ChunksOK, PieceState
<1>14. CASE cut.chunks = <<>>
  <2>1. <<>> \in Seq(X)
    OBVIOUS
  <2>2. FlattenSeq(<<<<>>>>) = <<>> /\ FlattenSeq(<<>>) = <<>>
    BY <2>1, FlattenOne
  <2>3. Len(<<<<>>>>) = 1 /\ <<<<>>>> \in Seq(Seq(X)) /\ <<<<>>>>[1] = <<>> /\ \A i \in 1 .. 1 : i = 1
    BY <2>1
  <2>4. AllFit(pieces, <<<<>>>>)
    BY <2>3, EmptyMeasures DEF AllFit
  <2> QED
    BY <1>10, <1>11, <1>12, <1>14, <2>2, <2>3, <2>4
<1>15. CASE cut.chunks # <<>>
  <2>1. Len(cut.chunks) \in Nat /\ Len(cut.chunks) # 0
    BY <1>13, <1>15, EmptySeq, LenProperties
  <2> QED
    BY <1>10, <1>11, <1>12, <1>13, <1>15, <2>1
<1> QED
  BY <1>14, <1>15

-----------------------------------------------------------------------------
(* Two more folds of the act: the chunks of the pages before, the size of  *)
(* a text.                                                                 *)
HowMany(cut) == FoldLeft(LAMBDA m, chunks : m + Len(chunks), 0, cut)
CountedOn(cut, n) == [q \in Nat \X (1 .. n) |-> q[1] + Len(cut[q[2]])]

LEMMA ChunksUnfold ==
    ASSUME NEW n \in Nat, NEW X, NEW cut \in [1 .. n -> Seq(X)]
    PROVE  SweepEnds(HowMany(cut), n, 0, CountedOn(cut, n), Nat)
<1> DEFINE V == Nat
           F == CountedOn(cut, n)
           Solves(g) == g = [s \in SUBSET DOMAIN cut |->
                                IF s = {} THEN 0 ELSE g[s \ {Highest(s)}] + Len(cut[Highest(s)])]
<1>0. DOMAIN cut = 1 .. n /\ \A p \in 1 .. n : Len(cut[p]) \in Nat
  BY LenProperties
<1>1. F \in [V \X (1 .. n) -> V]
  BY <1>0 DEF CountedOn
<1>2. 0 \in V
  OBVIOUS
<1>3. \A v \in V, p \in 1 .. n : F[<<v, p>>] = v + Len(cut[p])
  BY DEF CountedOn
<1> HIDE DEF V, F
<1>4. PICK g \in [SUBSET (1 .. n) -> V] : FoldsAlong(g, n, 0, F)
  BY <1>1, <1>2, FoldExists
<1>5. ASSUME NEW s \in SUBSET (1 .. n)
      PROVE  g[s] = IF s = {} THEN 0 ELSE g[s \ {Highest(s)}] + Len(cut[Highest(s)])
  <2>1. CASE s # {}
    <3>1. Highest(s) \in 1 .. n /\ g[s \ {Highest(s)}] \in V
      BY <1>4, <2>1, HighestOf
    <3>2. g[s] = F[<<g[s \ {Highest(s)}], Highest(s)>>]
      BY <1>4, <2>1 DEF FoldsAlong
    <3> QED
      BY <1>0, <1>3, <2>1, <3>1, <3>2
  <2> QED
    BY <1>4, <2>1 DEF FoldsAlong
<1>6. Solves(g)
  BY <1>0, <1>4, <1>5
<1>7. Solves(CHOOSE x : Solves(x))
  BY <1>6
<1>8. HowMany(cut) = (CHOOSE x : Solves(x))[1 .. n]
  BY <1>0 DEF HowMany, FoldLeft, MapThenFoldSet, Highest, Max
<1>9. ASSUME NEW x, Solves(x), NEW k \in 1 .. n, x[1 .. k - 1] \in V PROVE x[1 .. k] = F[<<x[1 .. k - 1], k>>]
  <2>1. 1 .. k \in SUBSET (1 .. n) /\ 1 .. k # {} /\ Highest(1 .. k) = k /\ (1 .. k) \ {k} = 1 .. k - 1
    BY FoldOfInterval
  <2>0. \A s \in SUBSET (1 .. n) :
           x[s] = IF s = {} THEN 0 ELSE x[s \ {Highest(s)}] + Len(cut[Highest(s)])
    BY <1>0, <1>9
  <2>2. x[1 .. k] = x[1 .. k - 1] + Len(cut[k])
    BY <2>0, <2>1
  <2> QED
    BY <1>0, <1>3, <1>9, <2>2
<1>10. ASSUME NEW x, Solves(x) PROVE x[{}] = 0
  BY <1>10
<1> DEFINE w == CHOOSE x : Solves(x)
<1> HIDE DEF w
<1>11. Solves(w) /\ HowMany(cut) = w[1 .. n]
  BY <1>7, <1>8 DEF w
<1> HIDE DEF Solves
<1>12. SweepEnds(HowMany(cut), n, 0, F, V)
  <2>1. FoldStep(w, n, 0, F, V)
    BY <1>9, <1>10, <1>11 DEF FoldStep
  <2> QED
    BY <1>1, <1>2, <1>11, <2>1, StepsOfFold
<1> QED
  BY <1>12 DEF V, F

PieceSize(lengths, at) == Min({PageChars, lengths[at[1]][at[2][1]]})
SizeOfText(lengths, text) ==
    FoldLeft(LAMBDA n, at : n + 1 + PieceSize(lengths, at), -1, text)
SizedOn(lengths, text, n) == [q \in Int \X (1 .. n) |-> q[1] + 1 + PieceSize(lengths, text[q[2]])]

LEMMA SizesUnfold ==
    ASSUME NEW n \in Nat, NEW lengths, NEW text, DOMAIN text = 1 .. n, \A k \in 1 .. n : PieceSize(lengths, text[k]) \in Nat
    PROVE  SweepEnds(SizeOfText(lengths, text), n, -1, SizedOn(lengths, text, n), Int)
<1> DEFINE V == Int
           F == SizedOn(lengths, text, n)
           Solves(g) == g = [s \in SUBSET DOMAIN text |->
                                IF s = {} THEN -1 ELSE g[s \ {Highest(s)}] + 1 + PieceSize(lengths, text[Highest(s)])]
<1>0. DOMAIN text = 1 .. n /\ \A p \in 1 .. n : PieceSize(lengths, text[p]) \in Nat
  OBVIOUS
<1>1. F \in [V \X (1 .. n) -> V]
  BY <1>0 DEF SizedOn
<1>2. -1 \in V
  OBVIOUS
<1>3. \A v \in V, p \in 1 .. n : F[<<v, p>>] = v + 1 + PieceSize(lengths, text[p])
  BY DEF SizedOn
<1> HIDE DEF V, F
<1>4. PICK g \in [SUBSET (1 .. n) -> V] : FoldsAlong(g, n, -1, F)
  BY <1>1, <1>2, FoldExists
<1>5. ASSUME NEW s \in SUBSET (1 .. n)
      PROVE  g[s] = IF s = {} THEN -1 ELSE g[s \ {Highest(s)}] + 1 + PieceSize(lengths, text[Highest(s)])
  <2>1. CASE s # {}
    <3>1. Highest(s) \in 1 .. n /\ g[s \ {Highest(s)}] \in V
      BY <1>4, <2>1, HighestOf
    <3>2. g[s] = F[<<g[s \ {Highest(s)}], Highest(s)>>]
      BY <1>4, <2>1 DEF FoldsAlong
    <3> QED
      BY <1>0, <1>3, <2>1, <3>1, <3>2
  <2> QED
    BY <1>4, <2>1 DEF FoldsAlong
<1>6. Solves(g)
  BY <1>0, <1>4, <1>5
<1>7. Solves(CHOOSE x : Solves(x))
  BY <1>6
<1>8. SizeOfText(lengths, text) = (CHOOSE x : Solves(x))[1 .. n]
  BY <1>0 DEF SizeOfText, PieceSize, FoldLeft, MapThenFoldSet, Highest, Max
<1>9. ASSUME NEW x, Solves(x), NEW k \in 1 .. n, x[1 .. k - 1] \in V PROVE x[1 .. k] = F[<<x[1 .. k - 1], k>>]
  <2>1. 1 .. k \in SUBSET (1 .. n) /\ 1 .. k # {} /\ Highest(1 .. k) = k /\ (1 .. k) \ {k} = 1 .. k - 1
    BY FoldOfInterval
  <2>0. \A s \in SUBSET (1 .. n) :
           x[s] = IF s = {} THEN -1 ELSE x[s \ {Highest(s)}] + 1 + PieceSize(lengths, text[Highest(s)])
    BY <1>0, <1>9
  <2>2. x[1 .. k] = x[1 .. k - 1] + 1 + PieceSize(lengths, text[k])
    BY <2>0, <2>1
  <2> QED
    BY <1>0, <1>3, <1>9, <2>2
<1>10. ASSUME NEW x, Solves(x) PROVE x[{}] = -1
  BY <1>10
<1> DEFINE w == CHOOSE x : Solves(x)
<1> HIDE DEF w
<1>11. Solves(w) /\ SizeOfText(lengths, text) = w[1 .. n]
  BY <1>7, <1>8 DEF w
<1> HIDE DEF Solves
<1>12. SweepEnds(SizeOfText(lengths, text), n, -1, F, V)
  <2>1. FoldStep(w, n, -1, F, V)
    BY <1>9, <1>10, <1>11 DEF FoldStep
  <2> QED
    BY <1>1, <1>2, <1>11, <2>1, StepsOfFold
<1> QED
  BY <1>12 DEF V, F

-----------------------------------------------------------------------------
(* The parts of an act: <<fragment page, <<piece, part>>>>.                *)
PartsOfActs == Nat \X PartsOfPieces
TagAll(u, s) == [k \in DOMAIN s |-> <<u, s[k]>>]

LEMMA TagsAreTyped ==
    ASSUME NEW u \in Nat, NEW s \in Seq(PartsOfPieces)
    PROVE  /\ TagAll(u, s) \in Seq(PartsOfActs) /\ Len(TagAll(u, s)) = Len(s)
           /\ \A k \in 1 .. Len(s) : TagAll(u, s)[k] = <<u, s[k]>>
<1>1. PICK n \in Nat : n = Len(s) /\ DOMAIN s = 1 .. n
  BY LenProperties
<1>2. \A k \in 1 .. n : s[k] \in PartsOfPieces
  BY <1>1
<1>3. \A k \in 1 .. n : <<u, s[k]>> \in PartsOfActs
  BY <1>2 DEF PartsOfActs
<1>4. TagAll(u, s) = [k \in 1 .. n |-> <<u, s[k]>>]
  BY <1>1 DEF TagAll
<1>5. TagAll(u, s) \in Seq(PartsOfActs)
  BY <1>3, <1>4, FunctionsAreSeqs
<1>6. DOMAIN TagAll(u, s) = 1 .. n
  BY <1>4
<1>7. Len(TagAll(u, s)) = n
  BY <1>5, <1>6, LenProperties
<1> QED
  BY <1>1, <1>4, <1>5, <1>7

LEMMA TagsOfTwo ==
    ASSUME NEW u \in Nat, NEW a \in Seq(PartsOfPieces), NEW b \in Seq(PartsOfPieces)
    PROVE  TagAll(u, a \o b) = TagAll(u, a) \o TagAll(u, b)
<1>1. PICK c : c = a \o b
  OBVIOUS
<1>2. PICK ta, tb, tc : ta = TagAll(u, a) /\ tb = TagAll(u, b) /\ tc = TagAll(u, c)
  OBVIOUS
<1>3. PICK d : d = ta \o tb
  OBVIOUS
<1>4. PICK la \in Nat, lb \in Nat : la = Len(a) /\ lb = Len(b)
  BY LenProperties
<1>5. OneAfterTheOther(PartsOfPieces, a, b, c)
  BY <1>1, ConcatOf
<1>6. c \in Seq(PartsOfPieces) /\ Len(c) = la + lb /\ DOMAIN c = 1 .. la + lb
      /\ (\A p \in 1 .. la : c[p] = a[p]) /\ \A p \in DOMAIN c : p > la => p - la \in 1 .. lb /\ c[p] = b[p - la]
  BY <1>4, <1>5 DEF OneAfterTheOther
<1>7. /\ ta \in Seq(PartsOfActs) /\ Len(ta) = la /\ \A k \in 1 .. la : ta[k] = <<u, a[k]>>
      /\ tb \in Seq(PartsOfActs) /\ Len(tb) = lb /\ \A k \in 1 .. lb : tb[k] = <<u, b[k]>>
      /\ tc \in Seq(PartsOfActs) /\ Len(tc) = la + lb /\ \A k \in 1 .. la + lb : tc[k] = <<u, c[k]>>
  <2>1. ta \in Seq(PartsOfActs) /\ Len(ta) = la /\ \A k \in 1 .. la : ta[k] = <<u, a[k]>>
    BY <1>2, <1>4, TagsAreTyped, Zenon
  <2>2. tb \in Seq(PartsOfActs) /\ Len(tb) = lb /\ \A k \in 1 .. lb : tb[k] = <<u, b[k]>>
    BY <1>2, <1>4, TagsAreTyped, Zenon
  <2>3. tc \in Seq(PartsOfActs) /\ Len(tc) = Len(c) /\ \A k \in 1 .. Len(c) : tc[k] = <<u, c[k]>>
    BY <1>2, <1>6, TagsAreTyped, Zenon
  <2> QED
    BY <1>6, <2>1, <2>2, <2>3, Zenon
<1>8. OneAfterTheOther(PartsOfActs, ta, tb, d)
  BY <1>3, <1>7, ConcatOf
<1>9. d \in Seq(PartsOfActs) /\ Len(d) = la + lb /\ DOMAIN d = 1 .. la + lb
      /\ (\A p \in 1 .. la : d[p] = ta[p]) /\ \A p \in DOMAIN d : p > la => p - la \in 1 .. lb /\ d[p] = tb[p - la]
  BY <1>7, <1>8 DEF OneAfterTheOther
<1>10. ASSUME NEW p \in 1 .. la + lb PROVE tc[p] = d[p]
  <2>1. CASE p <= la
    <3>1. p \in 1 .. la
      BY <2>1
    <3>2. c[p] = a[p] /\ d[p] = ta[p]
      BY <1>6, <1>9, <3>1
    <3>3. ta[p] = <<u, a[p]>> /\ tc[p] = <<u, c[p]>>
      BY <1>7, <3>1
    <3> QED
      BY <3>2, <3>3
  <2>2. CASE ~(p <= la)
    <3>1. p > la
      BY <2>2
    <3>2. PICK q \in 1 .. lb : q = p - la /\ c[p] = b[q] /\ d[p] = tb[q]
      BY <1>6, <1>9, <3>1
    <3>3. tb[q] = <<u, b[q]>> /\ tc[p] = <<u, c[p]>>
      BY <1>7
    <3> QED
      BY <3>2, <3>3
  <2> QED
    BY <2>1, <2>2
<1>11. tc = d
  BY <1>7, <1>9, <1>10, SeqEqual
<1> QED
  BY <1>1, <1>2, <1>3, <1>11

LEMMA TagsOfMany ==
    ASSUME NEW u \in Nat, NEW s \in Seq(Seq(PartsOfPieces)), NEW tagged, tagged = [i \in DOMAIN s |-> TagAll(u, s[i])]
    PROVE  /\ tagged \in Seq(Seq(PartsOfActs)) /\ Len(tagged) = Len(s)
           /\ FlattenSeq(tagged) = TagAll(u, FlattenSeq(s))
<1> DEFINE X == PartsOfPieces
           Y == PartsOfActs
<1>1. PICK n \in Nat : n = Len(s) /\ s \in [1 .. n -> Seq(X)]
  BY FlattenSize
<1>2. DOMAIN s = 1 .. n
  BY <1>1
<1>3. \A i \in 1 .. n : TagAll(u, s[i]) \in Seq(Y)
  BY <1>1, TagsAreTyped
<1>4. tagged \in [1 .. n -> Seq(Y)] /\ \A i \in 1 .. n : tagged[i] = TagAll(u, s[i])
  BY <1>2, <1>3
<1>5. tagged \in Seq(Seq(Y)) /\ Len(tagged) = n
  <2>1. tagged = [i \in 1 .. n |-> TagAll(u, s[i])]
    BY <1>2
  <2>2. tagged \in Seq(Seq(Y))
    BY <1>3, <2>1, FunctionsAreSeqs
  <2>3. DOMAIN tagged = 1 .. n
    BY <2>1
  <2> QED
    BY <2>2, <2>3, LenProperties
<1>6. PICK f : FlattensTo(s, f, n, X)
  BY <1>1, FlattensExist
<1>7. f \in [0 .. n -> Seq(X)] /\ f[0] = <<>> /\ \A i \in 1 .. n : f[i] = f[i - 1] \o s[i]
  BY <1>6 DEF FlattensTo
<1> DEFINE h == [i \in 0 .. n |-> TagAll(u, f[i])]
<1>8. h \in [0 .. n -> Seq(Y)]
  BY <1>7, TagsAreTyped
<1>9. h[0] = <<>>
  <2>1. 0 \in 0 .. n /\ <<>> \in Seq(X) /\ Len(<<>>) = 0
    OBVIOUS
  <2>2. h[0] = TagAll(u, <<>>)
    BY <1>7, <2>1
  <2>3. TagAll(u, <<>>) \in Seq(Y) /\ Len(TagAll(u, <<>>)) = 0
    BY <2>1, TagsAreTyped
  <2> QED
    BY <2>2, <2>3, EmptySeq
<1>10. \A i \in 0 .. n : h[i] = TagAll(u, f[i])
  OBVIOUS
<1> HIDE DEF h, X, Y
<1>11. ASSUME NEW i \in 1 .. n PROVE h[i] = h[i - 1] \o tagged[i]
  <2>1. PICK j \in 0 .. n : j = i - 1
    OBVIOUS
  <2>2. i \in 0 .. n
    OBVIOUS
  <2>3. f[j] \in Seq(PartsOfPieces) /\ s[i] \in Seq(PartsOfPieces) /\ f[i] = f[j] \o s[i]
    BY <1>1, <1>7, <2>1 DEF X
  <2>4. TagAll(u, f[j] \o s[i]) = TagAll(u, f[j]) \o TagAll(u, s[i])
    BY <2>3, TagsOfTwo
  <2> QED
    BY <1>4, <1>10, <2>1, <2>2, <2>3, <2>4
<1>12. FlattensTo(tagged, h, n, Y)
  BY <1>8, <1>9, <1>11 DEF FlattensTo
<1>13. FlattenSeq(tagged) = h[n] /\ FlattenSeq(s) = f[n] /\ n \in 0 .. n
  <2>1. tagged \in [1 .. n -> Seq(Y)] /\ s \in [1 .. n -> Seq(X)]
    BY <1>1, <1>4
  <2>2. FlattenSeq(tagged) = h[n]
    BY <1>12, <2>1, FlattensOnce
  <2>3. FlattenSeq(s) = f[n]
    BY <1>6, <2>1, FlattensOnce
  <2> QED
    BY <2>2, <2>3
<1> QED
  BY <1>1, <1>5, <1>10, <1>13 DEF Y

-----------------------------------------------------------------------------
(* An act cut into chunks: its pages, one after the other.                 *)
ActCut(n, cut) ==
    /\ n \in Nat \ {0} /\ cut \in [1 .. n -> Seq(Seq(PartsOfPieces))] /\ \A u \in 1 .. n : Len(cut[u]) \in Nat \ {0}
TextsOf(cut, n) == [u \in 1 .. n |-> [i \in DOMAIN cut[u] |-> TagAll(u, cut[u][i])]]

PagesUpTo(cut, n, f) ==
    /\ FlattensTo(TextsOf(cut, n), f, n, Seq(PartsOfActs))
    /\ \A u \in 1 .. n : before(cut, u) = Len(f[u - 1]) /\ before(cut, u) + Len(cut[u]) = Len(f[u])
    /\ \A u \in 1 .. n, i \in Nat : i \in 1 .. Len(cut[u]) =>
           before(cut, u) + i \in 1 .. Len(f[n]) /\ f[n][before(cut, u) + i] = TagAll(u, cut[u][i])
    /\ \A u \in 0 .. n : Len(f[u]) \in Nat /\ (u < n => Len(f[u]) < Len(f[n]))

LEMMA TextOf ==
    ASSUME NEW n, NEW cut, ActCut(n, cut), NEW u \in 1 .. n, NEW text, text = TextsOf(cut, n)[u]
    PROVE  /\ text \in Seq(Seq(PartsOfActs)) /\ Len(text) = Len(cut[u])
           /\ FlattenSeq(text) = TagAll(u, FlattenSeq(cut[u]))
           /\ \A i \in 1 .. Len(cut[u]) : text[i] = TagAll(u, cut[u][i])
<1>0. n \in Nat \ {0} /\ cut \in [1 .. n -> Seq(Seq(PartsOfPieces))]
  BY DEF ActCut
<1>1. PICK s \in Seq(Seq(PartsOfPieces)) : s = cut[u]
  BY <1>0
<1>2. text = [i \in DOMAIN s |-> TagAll(u, s[i])]
  BY <1>1 DEF TextsOf
<1>3. u \in Nat
  BY <1>0
<1>4. text \in Seq(Seq(PartsOfActs)) /\ Len(text) = Len(s) /\ FlattenSeq(text) = TagAll(u, FlattenSeq(s))
  BY <1>2, <1>3, TagsOfMany
<1>5. \A i \in 1 .. Len(s) : text[i] = TagAll(u, s[i])
  <2>1. DOMAIN s = 1 .. Len(s)
    BY LenProperties
  <2> QED
    BY <1>2, <2>1
<1> QED
  BY <1>1, <1>4, <1>5

LEMMA TextsAreTyped ==
    ASSUME NEW n, NEW cut, ActCut(n, cut)
    PROVE  TextsOf(cut, n) \in [1 .. n -> Seq(Seq(PartsOfActs))]
<1>1. ASSUME NEW u \in 1 .. n PROVE TextsOf(cut, n)[u] \in Seq(Seq(PartsOfActs))
  BY TextOf
<1>2. TextsOf(cut, n) = [u \in 1 .. n |-> TextsOf(cut, n)[u]]
  BY DEF TextsOf
<1> QED
  BY <1>1, <1>2

-----------------------------------------------------------------------------
AddUp(cut, n, g) == g \in [0 .. n -> Nat] /\ g[0] = 0 /\ \A u \in 1 .. n : g[u] = g[u - 1] + Len(cut[u])

LEMMA ChunksBeforeAPage ==
    ASSUME NEW n \in Nat, NEW X, NEW cut \in [1 .. n -> Seq(X)], NEW g, AddUp(cut, n, g), NEW u \in 1 .. n
    PROVE  before(cut, u) = g[u - 1]
<1>0. g \in [0 .. n -> Nat] /\ g[0] = 0 /\ \A v \in 1 .. n : g[v] = g[v - 1] + Len(cut[v])
  BY DEF AddUp
<1> DEFINE s == SubSeq(cut, 1, u - 1)
<1>1. PICK m \in Nat : m = u - 1 /\ m <= n
  OBVIOUS
<1>2. s \in [1 .. m -> Seq(X)] /\ \A k \in 1 .. m : s[k] = cut[k] /\ k \in 1 .. n
  <2>1. \A i \in 1 .. m : cut[i] \in Seq(X) /\ i \in 1 .. n
    BY <1>1
  <2>2. s = [i \in 1 .. m |-> cut[i]]
    <3>1. SubSeq(cut, 1, u - 1) = [i \in 1 .. (1 + (u - 1) - 1) |-> cut[i + 1 - 1]]
      OBVIOUS
    <3>2. 1 + (u - 1) - 1 = m /\ \A i \in 1 .. m : i + 1 - 1 = i
      BY <1>1
    <3> QED
      BY <3>1, <3>2
  <2> QED
    BY <2>1, <2>2
<1>3. before(cut, u) = HowMany(s)
  BY DEF before, HowMany
<1> HIDE DEF s
<1>4. PICK h : SweepsTo(h, m, 0, CountedOn(s, m), Nat) /\ h[m] = HowMany(s)
  BY <1>2, ChunksUnfold DEF SweepEnds
<1>5. h \in [0 .. m -> Nat] /\ h[0] = 0 /\ \A k \in 1 .. m : h[k] = h[k - 1] + Len(cut[k])
  <2>1. h \in [0 .. m -> Nat] /\ h[0] = 0 /\ \A k \in 1 .. m : h[k] = CountedOn(s, m)[<<h[k - 1], k>>]
    BY <1>4 DEF SweepsTo
  <2>2. \A k \in 1 .. m : k - 1 \in 0 .. m
    OBVIOUS
  <2>3. \A k \in 1 .. m : h[k - 1] \in Nat
    BY <2>1, <2>2
  <2>4. \A k \in 1 .. m : CountedOn(s, m)[<<h[k - 1], k>>] = h[k - 1] + Len(s[k])
    BY <2>3 DEF CountedOn
  <2> QED
    BY <1>2, <2>1, <2>4
<1> DEFINE G == {k \in 0 .. m : h[k] = g[k]}
<1>6. 0 \in G
  BY <1>0, <1>5
<1>7. ASSUME NEW k \in 1 .. m, k - 1 \in G PROVE k \in G
  <2>2. h[k] = h[k - 1] + Len(cut[k]) /\ k \in 0 .. m
    BY <1>5
  <2>3. g[k] = g[k - 1] + Len(cut[k])
    BY <1>0, <1>2
  <2>4. h[k - 1] = g[k - 1]
    BY <1>7
  <2>1. h[k] = g[k] /\ k \in 0 .. m
    BY <2>2, <2>3, <2>4
  <2> QED
    BY <2>1
<1> HIDE DEF G
<1>8. \A k \in 0 .. m : k \in G
  BY <1>6, <1>7, UpTo
<1>9. m \in 0 .. m
  OBVIOUS
<1> QED
  BY <1>1, <1>3, <1>4, <1>8, <1>9 DEF G

LEMMA ActPages ==
    ASSUME NEW n, NEW cut, ActCut(n, cut), NEW f, FlattensTo(TextsOf(cut, n), f, n, Seq(PartsOfActs))
    PROVE  PagesUpTo(cut, n, f)
<1> DEFINE Y == Seq(PartsOfActs)
           texts == TextsOf(cut, n)
<1>1. n \in Nat \ {0} /\ cut \in [1 .. n -> Seq(Seq(PartsOfPieces))] /\ \A u \in 1 .. n : Len(cut[u]) \in Nat \ {0}
  BY DEF ActCut
<1>2. f \in [0 .. n -> Seq(Y)] /\ f[0] = <<>> /\ \A u \in 1 .. n : f[u] = f[u - 1] \o texts[u]
  BY DEF FlattensTo
<1>3. texts \in [1 .. n -> Seq(Y)] /\ \A u \in 1 .. n : Len(texts[u]) = Len(cut[u]) /\ \A i \in 1 .. Len(cut[u]) : texts[u][i] = TagAll(u, cut[u][i])
  <2>1. texts \in [1 .. n -> Seq(Y)]
    BY TextsAreTyped
  <2>2. ASSUME NEW u \in 1 .. n
        PROVE  Len(texts[u]) = Len(cut[u]) /\ \A i \in 1 .. Len(cut[u]) : texts[u][i] = TagAll(u, cut[u][i])
    BY TextOf
  <2> QED
    BY <2>1, <2>2
<1> HIDE DEF Y, texts
<1>4. \A u \in 0 .. n : Len(f[u]) \in Nat /\ DOMAIN f[u] = 1 .. Len(f[u])
  BY <1>2, LenProperties
<1>5. ASSUME NEW u \in 1 .. n PROVE u \in 0 .. n /\ u - 1 \in 0 .. n /\ OneAfterTheOther(Y, f[u - 1], texts[u], f[u])
  <2>1. PICK j \in 0 .. n : j = u - 1
    BY <1>1
  <2>2. f[j] \in Seq(Y) /\ texts[u] \in Seq(Y) /\ f[u] = f[j] \o texts[u]
    BY <1>2, <1>3, <2>1
  <2>3. OneAfterTheOther(Y, f[j], texts[u], f[u])
    BY <2>2, ConcatOf
  <2>4. u \in 0 .. n
    BY <1>1
  <2> QED
    BY <2>1, <2>3, <2>4
<1>6. ASSUME NEW u \in 1 .. n
      PROVE  /\ Len(f[u]) = Len(f[u - 1]) + Len(cut[u])
             /\ \A p \in DOMAIN f[u - 1] : p \in DOMAIN f[u] /\ f[u][p] = f[u - 1][p]
             /\ \A i \in 1 .. Len(cut[u]) : Len(f[u - 1]) + i \in DOMAIN f[u] /\ f[u][Len(f[u - 1]) + i] = texts[u][i]
  <2>1. PICK a, t, b : a = f[u - 1] /\ t = texts[u] /\ b = f[u]
    OBVIOUS
  <2>2. PICK la \in Nat, lt \in Nat : la = Len(a) /\ DOMAIN a = 1 .. la /\ lt = Len(t) /\ lt = Len(cut[u])
    BY <1>1, <1>3, <1>4, <1>5, <2>1
  <2>3. Len(b) = la + lt /\ DOMAIN b = 1 .. la + lt /\ (\A p \in 1 .. la : p \in DOMAIN b /\ b[p] = a[p])
        /\ \A p \in DOMAIN b : p > la => p - la \in 1 .. lt /\ b[p] = t[p - la]
    BY <1>5, <2>1, <2>2 DEF OneAfterTheOther
  <2>4. \A i \in 1 .. lt : la + i \in DOMAIN b /\ la + i > la /\ la + i - la = i
    BY <2>3
  <2>5. \A i \in 1 .. lt : la + i \in DOMAIN b /\ b[la + i] = t[i]
    BY <2>3, <2>4
  <2> QED
    BY <2>1, <2>2, <2>3, <2>5
<1>7. \A k \in 1 .. n : \A p \in DOMAIN f[k - 1] : p \in DOMAIN f[k] /\ f[k][p] = f[k - 1][p]
  BY <1>6
<1>8. ASSUME NEW j \in 0 .. n, NEW p \in DOMAIN f[j] PROVE p \in DOMAIN f[n] /\ f[n][p] = f[j][p]
  <2>1. n \in Nat
    BY <1>1
  <2> QED
    BY <1>7, <2>1, Grows
<1> DEFINE g == [u \in 0 .. n |-> Len(f[u])]
<1>9. g \in [0 .. n -> Nat] /\ g[0] = 0 /\ (\A u \in 1 .. n : g[u] = g[u - 1] + Len(cut[u])) /\ \A u \in 0 .. n : g[u] = Len(f[u])
  <2>1. g \in [0 .. n -> Nat]
    BY <1>4
  <2>2. 0 \in 0 .. n /\ Len(<<>>) = 0
    BY <1>1
  <2>3. \A u \in 0 .. n : g[u] = Len(f[u])
    OBVIOUS
  <2> HIDE DEF g
  <2>4. g[0] = 0
    BY <1>2, <1>5, <2>2, <2>3
  <2>5. ASSUME NEW u \in 1 .. n PROVE g[u] = g[u - 1] + Len(cut[u])
    <3>1. u \in 0 .. n /\ u - 1 \in 0 .. n
      BY <1>1
    <3> QED
      BY <1>6, <2>3, <3>1
  <2> QED
    BY <2>1, <2>3, <2>4, <2>5
<1> HIDE DEF g
<1>10. \A u \in 1 .. n : before(cut, u) = Len(f[u - 1])
  <2> SUFFICES ASSUME NEW u \in 1 .. n PROVE before(cut, u) = Len(f[u - 1])
    OBVIOUS
  <2>0. AddUp(cut, n, g) /\ n \in Nat
    BY <1>1, <1>9 DEF AddUp
  <2>1. before(cut, u) = g[u - 1]
    BY <1>1, <2>0, ChunksBeforeAPage
  <2> QED
    BY <1>5, <1>9, <2>1
<1>11. \A u \in 1 .. n : before(cut, u) = Len(f[u - 1]) /\ before(cut, u) + Len(cut[u]) = Len(f[u])
  BY <1>6, <1>10
<1>12. ASSUME NEW u \in 1 .. n, NEW i \in Nat, i \in 1 .. Len(cut[u])
       PROVE  before(cut, u) + i \in 1 .. Len(f[n]) /\ f[n][before(cut, u) + i] = TagAll(u, cut[u][i])
  <2>1. PICK p : p = Len(f[u - 1]) + i
    OBVIOUS
  <2>2. p \in DOMAIN f[u] /\ f[u][p] = texts[u][i] /\ texts[u][i] = TagAll(u, cut[u][i])
    BY <1>3, <1>6, <1>12, <2>1
  <2>3. p \in DOMAIN f[n] /\ f[n][p] = f[u][p]
    BY <1>5, <1>8, <2>2
  <2>4. DOMAIN f[n] = 1 .. Len(f[n])
    BY <1>1, <1>4
  <2> QED
    BY <1>10, <2>1, <2>2, <2>3, <2>4
<1>13. ASSUME NEW u \in 0 .. n, u < n PROVE Len(f[u]) < Len(f[n])
  <2>1. PICK v \in 1 .. n : v = u + 1 /\ v - 1 = u
    BY <1>1, <1>13
  <2>2. Len(f[v]) = Len(f[u]) + Len(cut[v]) /\ Len(cut[v]) \in Nat \ {0} /\ v \in 0 .. n
    BY <1>1, <1>5, <1>6, <2>1
  <2>3. Len(f[v]) \in Nat /\ DOMAIN f[v] = 1 .. Len(f[v]) /\ Len(f[u]) \in Nat
    BY <1>4, <2>2
  <2>4. PICK lu \in Nat, lc \in Nat \ {0}, lv \in Nat : lu = Len(f[u]) /\ lc = Len(cut[v]) /\ lv = Len(f[v])
    BY <2>2, <2>3
  <2>9. lv = lu + lc
    BY <2>2, <2>4
  <2>5. lv = lu + lc /\ lv \in 1 .. lv
    BY <2>9
  <2>6. lv \in DOMAIN f[n]
    BY <1>8, <2>2, <2>3, <2>4, <2>5
  <2>7. PICK ln \in Nat : ln = Len(f[n]) /\ DOMAIN f[n] = 1 .. ln
    <3>1. n \in 0 .. n
      BY <1>1
    <3> QED
      BY <1>4, <3>1
  <2>8. lu < ln
    BY <2>5, <2>6, <2>7
  <2> QED
    BY <2>4, <2>7, <2>8
<1> QED
  BY <1>4, <1>11, <1>12, <1>13 DEF PagesUpTo

-----------------------------------------------------------------------------
(* getActText: the page asked for, and what is said of the rest.           *)
UpstreamIs(cut, n, f, page, u) ==
    /\ u \in 1 .. n
    /\ page <= Len(f[n]) => before(cut, u) < page /\ page <= before(cut, u) + Len(cut[u])
    /\ page > Len(f[n]) => u = n

LEMMA UpstreamFound ==
    ASSUME NEW n, NEW cut, ActCut(n, cut), NEW f, PagesUpTo(cut, n, f), NEW page \in Nat \ {0}, NEW u, u = upstreamOf(cut, page)
    PROVE  UpstreamIs(cut, n, f, page, u)
<1> DEFINE S == {v \in DOMAIN cut : page <= before(cut, v) + Len(cut[v])} \cup {Len(cut)}
<1>1. n \in Nat \ {0} /\ DOMAIN cut = 1 .. n /\ cut \in Seq(Seq(Seq(PartsOfPieces)))
  <2>1. n \in Nat \ {0} /\ cut \in [1 .. n -> Seq(Seq(PartsOfPieces))]
    BY DEF ActCut
  <2>2. DOMAIN cut = 1 .. n /\ cut = [v \in 1 .. n |-> cut[v]] /\ \A v \in 1 .. n : cut[v] \in Seq(Seq(PartsOfPieces))
    BY <2>1
  <2>3. cut \in Seq(Seq(Seq(PartsOfPieces)))
    BY <2>1, <2>2, FunctionsAreSeqs
  <2> QED
    BY <2>1, <2>2, <2>3
<1>2. Len(cut) = n
  BY <1>1, LenProperties
<1>3. S \subseteq Nat /\ S # {}
  BY <1>1, <1>2
<1>4. u \in S /\ \A v \in S : u <= v
  BY <1>3, MinOf DEF upstreamOf
<1>5. f[0] = <<>> /\ n \in 0 .. n
  BY <1>1 DEF PagesUpTo, FlattensTo
<1>6. ASSUME NEW v \in 1 .. n PROVE before(cut, v) = Len(f[v - 1]) /\ before(cut, v) + Len(cut[v]) = Len(f[v])
  BY DEF PagesUpTo
<1>7. ASSUME NEW v \in 0 .. n PROVE Len(f[v]) \in Nat /\ (v < n => Len(f[v]) < Len(f[n]))
  BY DEF PagesUpTo
<1>8. u \in 1 .. n /\ (u # n => page <= Len(f[u]))
  BY <1>1, <1>2, <1>4, <1>6
<1>9. \A v \in 1 .. n : v < u => ~(page <= Len(f[v]))
  <2> SUFFICES ASSUME NEW v \in 1 .. n, v < u, page <= Len(f[v]) PROVE FALSE
    OBVIOUS
  <2>1. v \in S
    BY <1>1, <1>6
  <2>2. u <= v
    BY <1>4, <2>1
  <2> QED
    BY <1>1, <1>8, <2>2
<1> HIDE DEF S
<1>10. ASSUME page <= Len(f[n]) PROVE before(cut, u) < page /\ page <= before(cut, u) + Len(cut[u])
  <2>1. page <= Len(f[u])
    BY <1>8, <1>10
  <2>2. Len(f[u - 1]) < page
    <3>1. CASE u = 1
      <4>1. f[u - 1] = <<>>
        BY <1>5, <3>1
      <4>2. Len(<<>>) = 0
        OBVIOUS
      <4> QED
        BY <4>1, <4>2
    <3>2. CASE u # 1
      <4>1. PICK v \in 1 .. n : v = u - 1 /\ v < u
        BY <1>1, <1>8, <3>2
      <4>2. ~(page <= Len(f[v])) /\ Len(f[v]) \in Nat
        <5>1. v \in 0 .. n
          BY <1>1
        <5> QED
          BY <1>7, <1>9, <4>1, <5>1
      <4> QED
        BY <4>1, <4>2
    <3> QED
      BY <3>1, <3>2
  <2> QED
    BY <1>6, <1>8, <2>1, <2>2
<1>11. ASSUME page > Len(f[n]), u # n PROVE FALSE
  <2>1. page <= Len(f[u]) /\ u \in 0 .. n /\ u < n
    BY <1>1, <1>8, <1>11
  <2>2. Len(f[u]) \in Nat /\ Len(f[u]) < Len(f[n]) /\ Len(f[n]) \in Nat
    BY <1>5, <1>7, <2>1
  <2> QED
    BY <1>11, <2>1, <2>2
<1> QED
  BY <1>8, <1>10, <1>11 DEF UpstreamIs

PageShown(f, n, page, shown) ==
    /\ shown.text = f[n][page] /\ shown.page = page
    /\ shown.more <=> page < Len(f[n])
    /\ ~shown.more => shown.total = Len(f[n]) /\ shown.exact = TRUE

IsChunk(shown, cut, u, place) ==
    /\ shown.text = TagAll(u, cut[u][place]) /\ shown.page = before(cut, u) + place
    /\ u = Len(cut) => shown.total = before(cut, u) + Len(cut[u])
    /\ shown.exact = (u = Len(cut)) /\ shown.more = (place < Len(cut[u]) \/ u # Len(cut))

LEMMA ActTextIs ==
    ASSUME NEW cut, NEW page, NEW u, u = upstreamOf(cut, page), NEW place, place = Min({page - before(cut, u), Len(cut[u])}),
           NEW shown, shown = getActText(cut, page)
    PROVE  IsChunk(shown, cut, u, place)
  BY DEF getActText, TagAll, IsChunk

LEMMA LengthOfCut ==
    ASSUME NEW n, NEW cut, ActCut(n, cut)
    PROVE  n \in Nat \ {0} /\ Len(cut) = n /\ DOMAIN cut = 1 .. n /\ \A u \in 1 .. n : Len(cut[u]) \in Nat \ {0}
<1>1. n \in Nat \ {0} /\ cut \in [1 .. n -> Seq(Seq(PartsOfPieces))]
  BY DEF ActCut
<1>2. DOMAIN cut = 1 .. n /\ cut = [v \in 1 .. n |-> cut[v]] /\ \A v \in 1 .. n : cut[v] \in Seq(Seq(PartsOfPieces))
  BY <1>1
<1>3. cut \in Seq(Seq(Seq(PartsOfPieces)))
  BY <1>1, <1>2, FunctionsAreSeqs
<1>4. Len(cut) = n
  BY <1>1, <1>2, <1>3, LenProperties
<1> QED
  BY <1>1, <1>2, <1>4 DEF ActCut

LEMMA PageIsShown ==
    ASSUME NEW n, NEW cut, ActCut(n, cut), NEW f, PagesUpTo(cut, n, f), NEW page \in Nat \ {0}, page <= Len(f[n]),
           NEW shown, shown = getActText(cut, page)
    PROVE  PageShown(f, n, page, shown)
<1>1. PICK u : u = upstreamOf(cut, page)
  OBVIOUS
<1>2. u \in 1 .. n /\ before(cut, u) < page /\ page <= before(cut, u) + Len(cut[u])
  BY <1>1, UpstreamFound DEF UpstreamIs
<1>3. n \in Nat \ {0} /\ Len(cut) = n /\ Len(cut[u]) \in Nat \ {0}
  BY <1>2, LengthOfCut
<1>4. before(cut, u) \in Nat /\ before(cut, u) + Len(cut[u]) = Len(f[u]) /\ Len(f[n]) \in Nat /\ (u # n => Len(f[u]) < Len(f[n]))
  <2>1. u \in 0 .. n /\ u - 1 \in 0 .. n /\ n \in 0 .. n /\ (u # n => u < n)
    BY <1>2, <1>3
  <2>2. before(cut, u) = Len(f[u - 1]) /\ before(cut, u) + Len(cut[u]) = Len(f[u])
    BY <1>2 DEF PagesUpTo
  <2>3. Len(f[u - 1]) \in Nat /\ Len(f[n]) \in Nat /\ (u < n => Len(f[u]) < Len(f[n]))
    BY <2>1 DEF PagesUpTo
  <2> QED
    BY <2>1, <2>2, <2>3
<1>5. PICK b \in Nat, l \in Nat \ {0}, m \in Nat : b = before(cut, u) /\ l = Len(cut[u]) /\ m = Len(f[n])
  BY <1>3, <1>4
<1>6. PICK place : place = Min({page - b, l})
  OBVIOUS
<1>7. place = page - b /\ place \in 1 .. l /\ place \in Nat
  <2>1. page - b \in Nat /\ page - b > 0 /\ page - b <= l
    BY <1>2, <1>5
  <2>2. {page - b, l} \subseteq Nat /\ {page - b, l} # {}
    BY <2>1
  <2>3. place \in {page - b, l} /\ place <= page - b
    BY <1>6, <2>2, MinOf
  <2> QED
    BY <2>1, <2>3
<1>8. /\ shown.text = TagAll(u, cut[u][place]) /\ shown.page = b + place
      /\ u = n => shown.total = b + l
      /\ shown.exact = (u = n) /\ shown.more = (place < l \/ u # n)
  <2>1. place = Min({page - before(cut, u), Len(cut[u])})
    BY <1>5, <1>6
  <2>2. IsChunk(shown, cut, u, place)
    BY <1>1, <2>1, ActTextIs
  <2> QED
    BY <1>3, <1>5, <2>2 DEF IsChunk
<1>9. f[n][b + place] = TagAll(u, cut[u][place])
  BY <1>2, <1>5, <1>7 DEF PagesUpTo
<1>10. b + place = page
  BY <1>7
<1>11. shown.more <=> page < m
  <2>1. CASE u = n
    <3>1. b + l = m /\ (shown.more <=> place < l)
      BY <1>4, <1>5, <1>8, <2>1
    <3> QED
      BY <1>7, <3>1
  <2>2. CASE u # n
    <3>1. page <= b + l /\ b + l < m /\ shown.more
      BY <1>2, <1>4, <1>5, <1>8, <2>2
    <3> QED
      BY <3>1
  <2> QED
    BY <2>1, <2>2
<1>12. ~shown.more => shown.total = m /\ shown.exact = TRUE
  BY <1>4, <1>5, <1>8
<1> QED
  BY <1>5, <1>8, <1>9, <1>10, <1>11, <1>12 DEF PageShown

LEMMA PastIsTheLast ==
    ASSUME NEW n, NEW cut, ActCut(n, cut), NEW f, PagesUpTo(cut, n, f), NEW page \in Nat, page > Len(f[n])
    PROVE  getActText(cut, page).text = f[n][Len(f[n])] /\ Len(f[n]) \in Nat \ {0}
<1>1. PICK u : u = upstreamOf(cut, page)
  OBVIOUS
<1>2. n \in Nat \ {0} /\ Len(cut) = n /\ Len(cut[n]) \in Nat \ {0} /\ n \in 1 .. n /\ n \in 0 .. n /\ n - 1 \in 0 .. n
  BY LengthOfCut
<1>3. before(cut, n) = Len(f[n - 1]) /\ before(cut, n) + Len(cut[n]) = Len(f[n]) /\ Len(f[n - 1]) \in Nat /\ Len(f[n]) \in Nat
  BY <1>2 DEF PagesUpTo
<1>4. u = n
  <2>1. page \in Nat \ {0}
    BY <1>3
  <2> QED
    BY <1>1, <2>1, UpstreamFound DEF UpstreamIs
<1>5. PICK b \in Nat, l \in Nat \ {0}, m \in Nat : b = before(cut, n) /\ l = Len(cut[n]) /\ m = Len(f[n]) /\ b + l = m
  BY <1>2, <1>3
<1>6. PICK place : place = Min({page - b, l})
  OBVIOUS
<1>7. place = l
  <2>1. page - b \in Nat /\ page - b > l
    <3>1. page > b + l
      BY <1>5
    <3> QED
      BY <3>1
  <2>2. {page - b, l} \subseteq Nat /\ {page - b, l} # {}
    BY <2>1
  <2>3. place \in {page - b, l} /\ place <= l
    BY <1>6, <2>2, MinOf
  <2> QED
    BY <2>1, <2>3
<1>8. getActText(cut, page).text = TagAll(n, cut[n][l])
  <2>1. place = Min({page - before(cut, u), Len(cut[u])})
    BY <1>4, <1>5, <1>6
  <2>2. PICK shown : shown = getActText(cut, page)
    OBVIOUS
  <2>3. IsChunk(shown, cut, u, place)
    BY <1>1, <2>1, <2>2, ActTextIs
  <2> QED
    BY <1>4, <1>7, <2>2, <2>3 DEF IsChunk
<1>9. f[n][b + l] = TagAll(n, cut[n][l])
  <2>1. l \in 1 .. Len(cut[n]) /\ l \in Nat
    BY <1>5
  <2> QED
    BY <1>2, <1>5, <2>1 DEF PagesUpTo
<1> QED
  BY <1>5, <1>8, <1>9

-----------------------------------------------------------------------------
(* No page is longer than a client accepts.                                *)
LEMMA PagesAreChunks ==
    ASSUME NEW n, NEW cut, ActCut(n, cut), NEW f, PagesUpTo(cut, n, f), NEW i \in 1 .. Len(f[n])
    PROVE  \E u \in 1 .. n : \E j \in 1 .. Len(cut[u]) : f[n][i] = TagAll(u, cut[u][j])
<1>1. n \in Nat \ {0}
  BY LengthOfCut
<1>2. Len(f[n]) \in Nat
  <2>1. n \in 0 .. n
    BY <1>1
  <2> QED
    BY <2>1 DEF PagesUpTo
<1>3. PICK u : u = upstreamOf(cut, i)
  OBVIOUS
<1>4. u \in 1 .. n /\ before(cut, u) < i /\ i <= before(cut, u) + Len(cut[u])
  <2>1. i \in Nat \ {0} /\ i <= Len(f[n])
    BY <1>2
  <2> QED
    BY <1>3, <2>1, UpstreamFound DEF UpstreamIs
<1>5. PICK b \in Nat, l \in Nat : b = before(cut, u) /\ l = Len(cut[u])
  <2>1. before(cut, u) = Len(f[u - 1]) /\ u - 1 \in 0 .. n
    BY <1>1, <1>4 DEF PagesUpTo
  <2>2. Len(f[u - 1]) \in Nat
    BY <2>1 DEF PagesUpTo
  <2> QED
    BY <1>4, <2>1, <2>2, LengthOfCut
<1>6. PICK j \in 1 .. l : j = i - b
  BY <1>2, <1>4, <1>5
<1>7. f[n][b + j] = TagAll(u, cut[u][j])
  <2>1. j \in Nat
    BY <1>5
  <2> QED
    BY <1>4, <1>5, <1>6, <2>1 DEF PagesUpTo
<1>8. b + j = i
  BY <1>2, <1>6
<1> QED
  BY <1>4, <1>5, <1>6, <1>7, <1>8

LEMMA SizeFits ==
    ASSUME NEW lengths, NEW u \in Nat, NEW chunk \in Seq(PartsOfPieces), FitsPage(lengths[u], chunk), NEW text, text = TagAll(u, chunk)
    PROVE  SizeOfText(lengths, text) <= PageChars
<1>0. PICK m \in Int : m <= PageChars /\ Measures(lengths[u], chunk, m)
  BY DEF FitsPage
<1>1. PICK h : m <= PageChars /\ MeasuredBy(lengths[u], chunk, h) /\ h[Len(chunk)] = m
  BY <1>0 DEF Measures
<1>2. PICK n \in Nat : n = Len(chunk)
  BY LenProperties
<1>3. h \in [0 .. n -> Int] /\ h[0] = -1
      /\ \A i \in 1 .. n : SizeOn(lengths[u], chunk[i]) \in Nat /\ h[i] = h[i - 1] + 1 + SizeOn(lengths[u], chunk[i])
  BY <1>1, <1>2 DEF MeasuredBy
<1>4. DOMAIN text = 1 .. n /\ \A k \in 1 .. n : text[k] = <<u, chunk[k]>>
  <2>1. text \in Seq(PartsOfActs) /\ Len(text) = n /\ \A k \in 1 .. n : text[k] = <<u, chunk[k]>>
    BY <1>2, TagsAreTyped
  <2> QED
    BY <2>1, LenProperties
<1>5. \A k \in 1 .. n : PieceSize(lengths, text[k]) = SizeOn(lengths[u], chunk[k])
  <2>1. \A x : <<u, x>>[1] = u /\ <<u, x>>[2] = x
    OBVIOUS
  <2>2. \A k \in 1 .. n : text[k][1] = u /\ text[k][2] = chunk[k]
    BY <1>4, <2>1
  <2> QED
    BY <2>2 DEF PieceSize, SizeOn
<1>6. \A k \in 1 .. n : PieceSize(lengths, text[k]) \in Nat
  BY <1>3, <1>5
<1>7. PICK g : SweepsTo(g, n, -1, SizedOn(lengths, text, n), Int) /\ g[n] = SizeOfText(lengths, text)
  BY <1>4, <1>6, SizesUnfold DEF SweepEnds
<1>8. g \in [0 .. n -> Int] /\ g[0] = -1 /\ \A k \in 1 .. n : g[k] = g[k - 1] + 1 + SizeOn(lengths[u], chunk[k])
  <2>1. g \in [0 .. n -> Int] /\ g[0] = -1 /\ \A k \in 1 .. n : g[k] = SizedOn(lengths, text, n)[<<g[k - 1], k>>]
    BY <1>7 DEF SweepsTo
  <2>2. \A k \in 1 .. n : k - 1 \in 0 .. n
    OBVIOUS
  <2>3. \A k \in 1 .. n : g[k - 1] \in Int
    BY <2>1, <2>2
  <2>4. \A k \in 1 .. n : SizedOn(lengths, text, n)[<<g[k - 1], k>>] = g[k - 1] + 1 + PieceSize(lengths, text[k])
    BY <2>3 DEF SizedOn
  <2> QED
    BY <1>5, <2>1, <2>4
<1> DEFINE G == {k \in 0 .. n : g[k] = h[k]}
<1>9. 0 \in G
  BY <1>3, <1>8
<1>10. ASSUME NEW k \in 1 .. n, k - 1 \in G PROVE k \in G
  <2>1. g[k] = g[k - 1] + 1 + SizeOn(lengths[u], chunk[k]) /\ h[k] = h[k - 1] + 1 + SizeOn(lengths[u], chunk[k]) /\ g[k - 1] = h[k - 1]
    BY <1>3, <1>8, <1>10
  <2>2. k \in 0 .. n
    OBVIOUS
  <2> QED
    BY <2>1, <2>2
<1> HIDE DEF G
<1>11. \A k \in 0 .. n : k \in G
  BY <1>9, <1>10, UpTo
<1>12. n \in 0 .. n
  OBVIOUS
<1> QED
  BY <1>1, <1>2, <1>7, <1>11, <1>12 DEF G

-----------------------------------------------------------------------------
(* The act of a reader.                                                    *)
LengthsOK(lengths, n) ==
    n \in Nat \ {0} /\ DOMAIN lengths = 1 .. n /\ \A u \in 1 .. n : \E m \in Nat : lengths[u] \in [1 .. m -> Nat \ {0}]
CutOfAct(lengths, n) == [u \in 1 .. n |-> chunkFragments(lengths[u])]
PiecesOf(pieces) == [p \in DOMAIN pieces |-> PartsOfPiece(p, pieces[p])]

LEMMA CutIsTheAct ==
    ASSUME NEW n, NEW lengths, LengthsOK(lengths, n), NEW u \in 1 .. n
    PROVE  /\ chunkFragments(lengths[u]) \in Seq(Seq(PartsOfPieces)) /\ Len(chunkFragments(lengths[u])) \in Nat \ {0}
           /\ FlattenSeq(chunkFragments(lengths[u])) = FlattenSeq(PiecesOf(lengths[u]))
           /\ AllFit(lengths[u], chunkFragments(lengths[u])) /\ PiecesOf(lengths[u]) \in Seq(Seq(PartsOfPieces))
<1>1. PICK m \in Nat : lengths[u] \in [1 .. m -> Nat \ {0}]
  BY DEF LengthsOK
<1>2. PICK pieces : pieces = lengths[u]
  OBVIOUS
<1>3. PiecesOf(pieces) = [p \in 1 .. m |-> PartsOfPiece(p, pieces[p])]
  BY <1>1, <1>2 DEF PiecesOf
<1>4. /\ chunkFragments(pieces) \in Seq(Seq(PartsOfPieces)) /\ Len(chunkFragments(pieces)) \in Nat \ {0}
      /\ FlattenSeq(chunkFragments(pieces)) = FlattenSeq(PiecesOf(pieces)) /\ AllFit(pieces, chunkFragments(pieces))
  BY <1>1, <1>2, <1>3, ChunksAreThePieces
<1>5. PiecesOf(pieces) \in Seq(Seq(PartsOfPieces))
  <2>1. ASSUME NEW p \in 1 .. m PROVE PartsOfPiece(p, pieces[p]) \in Seq(PartsOfPieces)
    <3>1. pieces[p] \in Nat /\ p \in Nat
      BY <1>1, <1>2
    <3>2. partsOf(pieces[p]) \in Nat
      BY <3>1, PartsAreNumbers
    <3>3. \A k \in 1 .. partsOf(pieces[p]) : <<p, k>> \in PartsOfPieces
      BY <3>1, <3>2 DEF PartsOfPieces
    <3> QED
      BY <3>2, <3>3, FunctionsAreSeqs DEF PartsOfPiece
  <2> QED
    BY <1>3, <2>1, FunctionsAreSeqs
<1> QED
  BY <1>2, <1>4, <1>5

LEMMA CutOfAnAct ==
    ASSUME NEW n, NEW lengths, LengthsOK(lengths, n), NEW cut, cut = CutOfAct(lengths, n)
    PROVE  ActCut(n, cut) /\ \A u \in 1 .. n : cut[u] = chunkFragments(lengths[u])
<1>1. \A u \in 1 .. n : cut[u] = chunkFragments(lengths[u])
  BY DEF CutOfAct
<1>2. \A u \in 1 .. n : cut[u] \in Seq(Seq(PartsOfPieces)) /\ Len(cut[u]) \in Nat \ {0}
  BY <1>1, CutIsTheAct
<1>3. cut = [u \in 1 .. n |-> cut[u]] /\ n \in Nat \ {0}
  BY DEF CutOfAct, LengthsOK
<1> QED
  BY <1>1, <1>2, <1>3 DEF ActCut

WholeAct(lengths) ==
    FlattenSeq([u \in DOMAIN lengths |-> FlattenSeq([p \in DOMAIN lengths[u] |->
        [k \in 1 .. partsOf(lengths[u][p]) |-> <<u, <<p, k>>>>]])])

LEMMA PagesAreTheWhole ==
    ASSUME NEW n, NEW lengths, LengthsOK(lengths, n), NEW cut, cut = CutOfAct(lengths, n),
           NEW f, FlattensTo(TextsOf(cut, n), f, n, Seq(PartsOfActs))
    PROVE  FlattenSeq(f[n]) = WholeAct(lengths)
<1>1. ActCut(n, cut) /\ \A u \in 1 .. n : cut[u] = chunkFragments(lengths[u])
  BY CutOfAnAct
<1>2. n \in Nat /\ n \in Nat \ {0} /\ DOMAIN lengths = 1 .. n
  BY DEF LengthsOK
<1> DEFINE texts == TextsOf(cut, n)
           each == [u \in 1 .. n |-> FlattenSeq(texts[u])]
<1>3. texts \in [1 .. n -> Seq(Seq(PartsOfActs))]
  BY <1>1, TextsAreTyped
<1>4. FlattenSeq(texts) = f[n]
  BY <1>2, <1>3, FlattensOnce
<1>5. FlattenSeq(FlattenSeq(texts)) = FlattenSeq(each)
  <2> HIDE DEF texts
  <2>1. FlattensEach(n, texts, each)
    BY DEF FlattensEach
  <2> HIDE DEF each
  <2> QED
    BY <1>2, <1>3, <2>1, FlattenTwice
<1>6. ASSUME NEW u \in 1 .. n
      PROVE  FlattenSeq(texts[u]) = FlattenSeq([p \in DOMAIN lengths[u] |-> [k \in 1 .. partsOf(lengths[u][p]) |-> <<u, <<p, k>>>>]])
  <2>1. FlattenSeq(texts[u]) = TagAll(u, FlattenSeq(cut[u]))
    BY <1>1, TextOf
  <2>2. FlattenSeq(cut[u]) = FlattenSeq(PiecesOf(lengths[u])) /\ PiecesOf(lengths[u]) \in Seq(Seq(PartsOfPieces))
    BY <1>1, CutIsTheAct
  <2>3. PICK s : s = PiecesOf(lengths[u])
    OBVIOUS
  <2>4. u \in Nat
    BY <1>2
  <2>5. PICK tagged : tagged = [i \in DOMAIN s |-> TagAll(u, s[i])]
    OBVIOUS
  <2>6. FlattenSeq(tagged) = TagAll(u, FlattenSeq(s))
    BY <2>2, <2>3, <2>4, <2>5, TagsOfMany
  <2>7. tagged = [p \in DOMAIN lengths[u] |-> [k \in 1 .. partsOf(lengths[u][p]) |-> <<u, <<p, k>>>>]]
    <3>1. DOMAIN s = DOMAIN lengths[u] /\ \A p \in DOMAIN lengths[u] : s[p] = PartsOfPiece(p, lengths[u][p])
      BY <2>3 DEF PiecesOf
    <3>2. \A p \in DOMAIN lengths[u] : TagAll(u, PartsOfPiece(p, lengths[u][p])) = [k \in 1 .. partsOf(lengths[u][p]) |-> <<u, <<p, k>>>>]
      BY DEF TagAll, PartsOfPiece
    <3> QED
      BY <2>5, <3>1, <3>2
  <2> QED
    BY <2>1, <2>2, <2>3, <2>6, <2>7
<1>7. each = [u \in DOMAIN lengths |-> FlattenSeq([p \in DOMAIN lengths[u] |-> [k \in 1 .. partsOf(lengths[u][p]) |-> <<u, <<p, k>>>>]])]
  BY <1>2, <1>6
<1> QED
  BY <1>4, <1>5, <1>7 DEF WholeAct

-----------------------------------------------------------------------------
(* The reader, page by page.                                               *)
ActPlan(lengths, cut, n, f) ==
    /\ LengthsOK(lengths, n) /\ cut = CutOfAct(lengths, n)
    /\ FlattensTo(TextsOf(cut, n), f, n, Seq(PartsOfActs))
AtEnd(last, f, n) == last = [page |-> Len(f[n]), total |-> Len(f[n]), exact |-> TRUE]

ReadSoFar(r, n, f) ==
    /\ ActPlan(r.lengths, r.cut, n, f)
    /\ r = [cut |-> r.cut, lengths |-> r.lengths, date |-> r.date, page |-> r.page, seen |-> r.seen,
            versions |-> r.versions, last |-> r.last, st |-> r.st]
    /\ r.versions \subseteq {versionServed(r.date)}
    /\ r.seen \in Seq(Seq(PartsOfActs)) /\ (r.seen # <<>> => r.versions # {})
    /\ \/ /\ r.st = "reading" /\ r.page = Len(r.seen) + 1 /\ Len(r.seen) < Len(f[n])
          /\ \A i \in 1 .. Len(r.seen) : r.seen[i] = f[n][i]
       \/ /\ r.st = "read" /\ r.page = Len(f[n]) + 1 /\ r.seen = f[n] /\ AtEnd(r.last, f, n)
       \/ r.st = "past" /\ r.seen = Append(f[n], f[n][Len(f[n])]) /\ AtEnd(r.last, f, n)

ActInv == actReader.st = "idle" \/ \E n, f : ReadSoFar(actReader, n, f)

LEMMA PlanIs ==
    ASSUME NEW lengths, NEW cut, NEW n, NEW f, ActPlan(lengths, cut, n, f)
    PROVE  /\ ActCut(n, cut) /\ PagesUpTo(cut, n, f)
           /\ f[n] \in Seq(Seq(PartsOfActs)) /\ Len(f[n]) \in Nat \ {0} /\ FlattenSeq(f[n]) = WholeAct(lengths)
<1>1. LengthsOK(lengths, n) /\ cut = CutOfAct(lengths, n) /\ FlattensTo(TextsOf(cut, n), f, n, Seq(PartsOfActs))
  BY DEF ActPlan
<1>2. ActCut(n, cut)
  BY <1>1, CutOfAnAct
<1>3. PagesUpTo(cut, n, f)
  BY <1>1, <1>2, ActPages
<1>4. FlattenSeq(f[n]) = WholeAct(lengths)
  BY <1>1, PagesAreTheWhole
<1>7. n \in 0 .. n
  BY <1>2 DEF ActCut
<1>5. PICK page \in Nat : page > Len(f[n])
  <2>1. Len(f[n]) \in Nat
    BY <1>3, <1>7 DEF PagesUpTo
  <2>2. Len(f[n]) + 1 \in Nat /\ Len(f[n]) + 1 > Len(f[n])
    BY <2>1
  <2> QED
    BY <2>2
<1>6. Len(f[n]) \in Nat \ {0}
  BY <1>2, <1>3, <1>5, PastIsTheLast
<1>8. f[n] \in Seq(Seq(PartsOfActs))
  BY <1>1, <1>7 DEF FlattensTo
<1> QED
  BY <1>2, <1>3, <1>4, <1>6, <1>8

LEMMA ReadingStarts ==
    ASSUME ActsInit
    PROVE  ActInv
<1>1. CASE actReader = NoActReader
  BY <1>1 DEF ActInv, NoActReader
<1>2. ASSUME NEW n \in 1 .. 3, NEW pages \in [1 .. n -> PieceLists], NEW date, actReader = ReadAct(pages, date)
      PROVE  ActInv
  <2>1. \A list \in PieceLists : \E m \in Nat : list \in [1 .. m -> Nat \ {0}]
    <3>1. <<>> \in [1 .. 0 -> Nat \ {0}] /\ <<1>> \in [1 .. 1 -> Nat \ {0}] /\ <<2, 1, 3>> \in [1 .. 3 -> Nat \ {0}]
          /\ <<4>> \in [1 .. 1 -> Nat \ {0}] /\ <<1, 6>> \in [1 .. 2 -> Nat \ {0}] /\ <<9, 1>> \in [1 .. 2 -> Nat \ {0}]
          /\ <<3, 3, 3>> \in [1 .. 3 -> Nat \ {0}]
      OBVIOUS
    <3>2. 0 \in Nat /\ 1 \in Nat /\ 2 \in Nat /\ 3 \in Nat
      OBVIOUS
    <3> QED
      BY <3>1, <3>2 DEF PieceLists
  <2>2. LengthsOK(pages, n)
    <3>1. n \in Nat \ {0} /\ DOMAIN pages = 1 .. n /\ \A u \in 1 .. n : pages[u] \in PieceLists
      OBVIOUS
    <3>2. \A u \in 1 .. n : \E m \in Nat : pages[u] \in [1 .. m -> Nat \ {0}]
      BY <2>1, <3>1
    <3> QED
      BY <3>1, <3>2 DEF LengthsOK
  <2>3. PICK cut : cut = CutOfAct(pages, n)
    OBVIOUS
  <2>4. ActCut(n, cut)
    BY <2>2, <2>3, CutOfAnAct
  <2>5. PICK f : FlattensTo(TextsOf(cut, n), f, n, Seq(PartsOfActs))
    <3>1. TextsOf(cut, n) \in [1 .. n -> Seq(Seq(PartsOfActs))] /\ n \in Nat
      BY <2>4, TextsAreTyped
    <3> QED
      BY <3>1, FlattensExist
  <2>6. ActPlan(pages, cut, n, f)
    BY <2>2, <2>3, <2>5 DEF ActPlan
  <2>7. Len(f[n]) \in Nat \ {0}
    BY <2>6, PlanIs
  <2>8. actReader = [cut |-> cut, lengths |-> pages, date |-> date, page |-> 1, seen |-> <<>>, versions |-> {},
                     last |-> NoActReader.last, st |-> "reading"]
    BY <1>2, <2>3 DEF ReadAct, NoActReader, CutOfAct
  <2>9. <<>> \in Seq(Seq(PartsOfActs)) /\ Len(<<>>) = 0 /\ 1 .. 0 = {} /\ 0 + 1 = 1
    OBVIOUS
  <2>10. ReadSoFar(actReader, n, f)
    BY <2>6, <2>7, <2>8, <2>9 DEF ReadSoFar
  <2> QED
    BY <2>10 DEF ActInv
<1> QED
  BY <1>1, <1>2 DEF ActsInit

LEMMA ReadingGoesOn ==
    ASSUME ActInv, ReaderReads
    PROVE  ActInv'
<1>0. actReader.st = "reading"
  BY DEF ReaderReads
<1>1. PICK n, f : ReadSoFar(actReader, n, f)
  BY <1>0 DEF ActInv
<1> DEFINE r == actReader
           shown == getActText(r.cut, r.page)
<1>2. /\ ActPlan(r.lengths, r.cut, n, f)
      /\ r = [cut |-> r.cut, lengths |-> r.lengths, date |-> r.date, page |-> r.page, seen |-> r.seen,
              versions |-> r.versions, last |-> r.last, st |-> r.st]
      /\ r.versions \subseteq {versionServed(r.date)}
      /\ r.seen \in Seq(Seq(PartsOfActs))
      /\ r.page = Len(r.seen) + 1 /\ Len(r.seen) < Len(f[n])
      /\ \A i \in 1 .. Len(r.seen) : r.seen[i] = f[n][i]
  BY <1>0, <1>1 DEF ReadSoFar
<1>3. PICK described \in BOOLEAN :
         r' = [r EXCEPT !.seen = Append(r.seen, shown.text),
                        !.versions = r.versions \cup {staleUrlOf(r.date, described)},
                        !.last = [page |-> shown.page, total |-> shown.total, exact |-> shown.exact],
                        !.page = shown.page + 1,
                        !.st = IF shown.more THEN "reading" ELSE "read"]
  BY DEF ReaderReads
<1>4. /\ ActCut(n, r.cut) /\ PagesUpTo(r.cut, n, f)
      /\ f[n] \in Seq(Seq(PartsOfActs)) /\ Len(f[n]) \in Nat \ {0}
  BY <1>2, PlanIs
<1>5. PICK k \in Nat, m \in Nat \ {0} : k = Len(r.seen) /\ m = Len(f[n]) /\ k < m
  BY <1>2, <1>4, LenProperties
<1>6. PageShown(f, n, k + 1, shown) /\ r.page = k + 1
  <2>1. k + 1 \in Nat \ {0} /\ k + 1 <= Len(f[n]) /\ r.page = k + 1
    BY <1>2, <1>5
  <2> QED
    BY <1>4, <2>1, PageIsShown
<1> HIDE DEF shown
<1>7. /\ shown.text = f[n][k + 1] /\ shown.page = k + 1
      /\ shown.more <=> k + 1 < m
      /\ ~shown.more => shown.total = m /\ shown.exact = TRUE
  BY <1>5, <1>6 DEF PageShown
<1>8. f[n][k + 1] \in Seq(PartsOfActs)
  <2>1. k + 1 \in 1 .. Len(f[n])
    BY <1>5
  <2> QED
    BY <1>4, <2>1
<1>9. PICK seen : seen = Append(r.seen, shown.text)
  OBVIOUS
<1>10. seen \in Seq(Seq(PartsOfActs)) /\ Len(seen) = k + 1 /\ seen # <<>> /\ \A i \in 1 .. k + 1 : seen[i] = f[n][i]
  <2>1. PICK s \in Seq(Seq(PartsOfActs)), t \in Seq(PartsOfActs) : s = r.seen /\ t = shown.text /\ t = f[n][k + 1]
    BY <1>2, <1>7, <1>8
  <2>2. seen \in Seq(Seq(PartsOfActs)) /\ Len(seen) = k + 1 /\ seen # <<>> /\ seen[k + 1] = t /\ \A i \in 1 .. k : seen[i] = s[i]
    BY <1>5, <1>9, <2>1, AppendProperties
  <2>3. ASSUME NEW i \in 1 .. k + 1 PROVE seen[i] = f[n][i]
    <3>1. CASE i = k + 1
      BY <2>1, <2>2, <3>1
    <3>2. CASE i # k + 1
      <4>1. i \in 1 .. k
        BY <3>2
      <4> QED
        BY <1>2, <1>5, <2>1, <2>2, <4>1
    <3> QED
      BY <3>1, <3>2
  <2> QED
    BY <2>2, <2>3
<1>11. PICK versions, last, st : /\ versions = r.versions \cup {staleUrlOf(r.date, described)}
                                 /\ last = [page |-> shown.page, total |-> shown.total, exact |-> shown.exact]
                                 /\ st = (IF shown.more THEN "reading" ELSE "read")
  OBVIOUS
<1>12. r' = [cut |-> r.cut, lengths |-> r.lengths, date |-> r.date, page |-> k + 1 + 1, seen |-> seen,
             versions |-> versions, last |-> last, st |-> st]
  <2>1. PICK cut, lengths, date, page, was, had, told, at :
            r = [cut |-> cut, lengths |-> lengths, date |-> date, page |-> page, seen |-> was, versions |-> had, last |-> told, st |-> at]
    BY <1>2
  <2>2. r' = [r EXCEPT !.seen = seen, !.versions = versions, !.last = last, !.page = k + 1 + 1, !.st = st]
    BY <1>3, <1>7, <1>9, <1>11
  <2>3. r.cut = cut /\ r.lengths = lengths /\ r.date = date
    BY <2>1
  <2> QED
    BY <2>1, <2>2, <2>3
<1>13. versions \subseteq {versionServed(r.date)} /\ versions # {}
  BY <1>2, <1>11 DEF staleUrlOf
<1>14. ActPlan(r'.lengths, r'.cut, n, f)
  BY <1>2, <1>12
<1>15. CASE k + 1 < m
  <2>1. st = "reading"
    BY <1>7, <1>11, <1>15
  <2>2. /\ r'.cut = r.cut /\ r'.lengths = r.lengths /\ r'.date = r.date /\ r'.page = k + 1 + 1 /\ r'.seen = seen
        /\ r'.versions = versions /\ r'.st = "reading"
    BY <1>12, <2>1
  <2>3. ReadSoFar(r', n, f)
    BY <1>5, <1>10, <1>12, <1>13, <1>14, <1>15, <2>2 DEF ReadSoFar
  <2> QED
    BY <2>3 DEF ActInv
<1>16. CASE ~(k + 1 < m)
  <2>1. st = "read" /\ k + 1 = m /\ last = [page |-> m, total |-> m, exact |-> TRUE]
    <3>1. ~shown.more /\ k + 1 = m
      BY <1>5, <1>7, <1>16
    <3>2. shown.page = m /\ shown.total = m /\ shown.exact = TRUE
      BY <1>7, <3>1
    <3> QED
      BY <1>11, <3>1, <3>2
  <2>2. /\ r'.cut = r.cut /\ r'.lengths = r.lengths /\ r'.date = r.date /\ r'.page = k + 1 + 1 /\ r'.seen = seen
        /\ r'.versions = versions /\ r'.st = "read" /\ r'.last = last
    BY <1>12, <2>1
  <2>3. seen = f[n]
    BY <1>4, <1>5, <1>10, <2>1, SeqEqual
  <2>4. AtEnd(last, f, n)
    BY <1>5, <2>1 DEF AtEnd
  <2>5. k + 1 + 1 = Len(f[n]) + 1
    BY <1>5, <2>1
  <2>6. ReadSoFar(r', n, f)
    BY <1>10, <1>12, <1>13, <1>14, <2>2, <2>3, <2>4, <2>5 DEF ReadSoFar
  <2> QED
    BY <2>6 DEF ActInv
<1> QED
  BY <1>15, <1>16

-----------------------------------------------------------------------------
LEMMA ReadingPastHolds ==
    ASSUME ActInv, ReaderAsksPast
    PROVE  ActInv'
<1> DEFINE r == actReader
<1>0. r.st = "read"
  BY DEF ReaderAsksPast
<1>1. PICK n, f : ReadSoFar(r, n, f)
  BY <1>0 DEF ActInv
<1>2. /\ ActPlan(r.lengths, r.cut, n, f)
      /\ r = [cut |-> r.cut, lengths |-> r.lengths, date |-> r.date, page |-> r.page, seen |-> r.seen,
              versions |-> r.versions, last |-> r.last, st |-> r.st]
      /\ r.versions \subseteq {versionServed(r.date)}
      /\ r.seen \in Seq(Seq(PartsOfActs)) /\ (r.seen # <<>> => r.versions # {})
      /\ r.page = Len(f[n]) + 1 /\ r.seen = f[n] /\ AtEnd(r.last, f, n)
  BY <1>0, <1>1 DEF ReadSoFar
<1>3. /\ ActCut(n, r.cut) /\ PagesUpTo(r.cut, n, f)
      /\ f[n] \in Seq(Seq(PartsOfActs)) /\ Len(f[n]) \in Nat \ {0}
  BY <1>2, PlanIs
<1>4. r' = [r EXCEPT !.st = "past", !.seen = Append(r.seen, getActText(r.cut, r.page + 1).text)]
  BY DEF ReaderAsksPast
<1>5. PICK last \in Seq(PartsOfActs) : last = f[n][Len(f[n])] /\ getActText(r.cut, r.page + 1).text = last
  <2>1. r.page + 1 \in Nat /\ r.page + 1 > Len(f[n])
    BY <1>2, <1>3
  <2>2. getActText(r.cut, r.page + 1).text = f[n][Len(f[n])]
    BY <1>3, <2>1, PastIsTheLast
  <2>3. f[n][Len(f[n])] \in Seq(PartsOfActs)
    BY <1>3
  <2> QED
    BY <2>2, <2>3
<1>6. PICK seen : seen = Append(f[n], last)
  OBVIOUS
<1>7. seen \in Seq(Seq(PartsOfActs))
  BY <1>3, <1>6, AppendProperties
<1>8. r' = [cut |-> r.cut, lengths |-> r.lengths, date |-> r.date, page |-> r.page, seen |-> seen,
            versions |-> r.versions, last |-> r.last, st |-> "past"]
  <2>1. PICK cut, lengths, date, page, was, had, told, at :
            r = [cut |-> cut, lengths |-> lengths, date |-> date, page |-> page, seen |-> was, versions |-> had, last |-> told, st |-> at]
    BY <1>2
  <2>2. r' = [r EXCEPT !.st = "past", !.seen = seen]
    BY <1>2, <1>4, <1>5, <1>6
  <2> QED
    BY <2>1, <2>2
<1>9. r.versions # {}
  <2>1. f[n] # <<>>
    <3>1. Len(<<>>) = 0
      OBVIOUS
    <3> QED
      BY <1>3, <3>1
  <2> QED
    BY <1>2, <2>1
<1>10. /\ r'.cut = r.cut /\ r'.lengths = r.lengths /\ r'.date = r.date /\ r'.page = r.page /\ r'.seen = seen
       /\ r'.versions = r.versions /\ r'.st = "past" /\ r'.last = r.last
  BY <1>8
<1>11. seen = Append(f[n], f[n][Len(f[n])])
  BY <1>5, <1>6
<1>12. ReadSoFar(r', n, f)
  BY <1>2, <1>7, <1>8, <1>9, <1>10, <1>11 DEF ReadSoFar
<1> QED
  BY <1>12 DEF ActInv

LEMMA ActIdles ==
    ASSUME ActInv, UNCHANGED actReader
    PROVE  ActInv'
  BY DEF ActInv

LEMMA ActSteps ==
    ASSUME ActInv, [ActsNext]_actsVars
    PROVE  ActInv'
<1>1. CASE ReaderReads
  BY <1>1, ReadingGoesOn
<1>2. CASE ReaderAsksPast
  BY <1>2, ReadingPastHolds
<1>3. CASE UNCHANGED actsVars
  BY <1>3, ActIdles DEF actsVars
<1>4. ASSUME NEW r \in Fetches, FetchStarts(r) \/ KeyedAnswers(r) \/ GatewayAnswers(r) \/ FetchSettles(r) PROVE ActInv'
  BY <1>4, ActIdles DEF FetchStarts, KeyedAnswers, GatewayAnswers, FetchSettles
<1>5. ASSUME NEW host \in Channels, HostChanges(host) PROVE ActInv'
  BY <1>5, ActIdles DEF HostChanges
<1>6. CASE KeyedTicks
  BY <1>6, ActIdles DEF KeyedTicks
<1> QED
  BY <1>1, <1>2, <1>3, <1>4, <1>5, <1>6 DEF ActsNext

-----------------------------------------------------------------------------
LEMMA PagesFit ==
    ASSUME NEW lengths, NEW cut, NEW n, NEW f, ActPlan(lengths, cut, n, f), NEW i \in 1 .. Len(f[n])
    PROVE  SizeOfText(lengths, f[n][i]) <= PageChars
<1>1. ActCut(n, cut) /\ PagesUpTo(cut, n, f) /\ LengthsOK(lengths, n) /\ cut = CutOfAct(lengths, n)
  BY PlanIs DEF ActPlan
<1>2. PICK u \in 1 .. n : \E j \in 1 .. Len(cut[u]) : f[n][i] = TagAll(u, cut[u][j])
  BY <1>1, PagesAreChunks
<1>9. PICK j \in 1 .. Len(cut[u]) : f[n][i] = TagAll(u, cut[u][j])
  BY <1>2
<1>3. cut[u] = chunkFragments(lengths[u])
  BY <1>1, CutOfAnAct
<1>4. PICK chunks \in Seq(Seq(PartsOfPieces)) : chunks = cut[u] /\ AllFit(lengths[u], chunks)
  BY <1>1, <1>3, CutIsTheAct
<1>5. PICK chunk \in Seq(PartsOfPieces) : chunk = cut[u][j] /\ FitsPage(lengths[u], chunk)
  <2>1. j \in DOMAIN chunks /\ j \in 1 .. Len(chunks)
    BY <1>9, <1>4, LenProperties
  <2>2. chunks[j] \in Seq(PartsOfPieces)
    BY <1>4, <2>1
  <2>3. FitsPage(lengths[u], chunks[j])
    BY <1>4, <2>1 DEF AllFit
  <2> QED
    BY <1>4, <2>2, <2>3
<1>6. u \in Nat
  BY <1>1 DEF LengthsOK
<1>7. PICK text : text = TagAll(u, chunk)
  OBVIOUS
<1>8. SizeOfText(lengths, text) <= PageChars
  BY <1>5, <1>6, <1>7, SizeFits
<1> QED
  BY <1>9, <1>5, <1>7, <1>8

LEMMA FrontOfAppend ==
    ASSUME NEW S, NEW s \in Seq(S), NEW x \in S
    PROVE  Front(Append(s, x)) = s /\ Last(Append(s, x)) = x
<1>1. PICK t : t = Append(s, x)
  OBVIOUS
<1>2. t \in Seq(S) /\ Len(t) = Len(s) + 1 /\ t[Len(s) + 1] = x /\ \A i \in 1 .. Len(s) : t[i] = s[i]
  BY <1>1, AppendProperties
<1>3. PICK k \in Nat : k = Len(s)
  BY LenProperties
<1>4. SubSeq(t, 1, k) = s
  BY <1>2, <1>3
<1> QED
  BY <1>1, <1>2, <1>3, <1>4 DEF Front, Last

LEMMA ReadIsWhole ==
    ASSUME NEW r, NEW n, NEW f, ReadSoFar(r, n, f), r.st \in {"read", "past"}
    PROVE  /\ (IF r.st = "past" THEN Front(r.seen) ELSE r.seen) = f[n]
           /\ ActPlan(r.lengths, r.cut, n, f) /\ AtEnd(r.last, f, n)
           /\ Cardinality(r.versions) = 1
           /\ r.st = "past" => Last(r.seen) = Last(f[n])
<1>1. ActPlan(r.lengths, r.cut, n, f) /\ r.versions \subseteq {versionServed(r.date)} /\ r.seen \in Seq(Seq(PartsOfActs))
      /\ AtEnd(r.last, f, n)
  BY DEF ReadSoFar
<1>2. f[n] \in Seq(Seq(PartsOfActs)) /\ Len(f[n]) \in Nat \ {0}
  BY <1>1, PlanIs
<1>3. PICK last \in Seq(PartsOfActs) : last = f[n][Len(f[n])]
  BY <1>2
<1>4. \/ r.st = "read" /\ r.seen = f[n]
      \/ r.st = "past" /\ r.seen = Append(f[n], last)
  BY <1>3 DEF ReadSoFar
<1>5. Front(Append(f[n], last)) = f[n] /\ Last(Append(f[n], last)) = last
  BY <1>2, FrontOfAppend
<1>6. Last(f[n]) = last
  BY <1>3 DEF Last
<1>7. r.versions = {versionServed(r.date)}
  <2>1. r.seen # <<>>
    <3>1. Len(<<>>) = 0
      OBVIOUS
    <3>2. Len(Append(f[n], last)) = Len(f[n]) + 1
      BY <1>2, AppendProperties
    <3> QED
      BY <1>2, <1>4, <3>1, <3>2
  <2> QED
    BY <1>1, <2>1 DEF ReadSoFar
<1>8. Cardinality(r.versions) = 1
  BY <1>7, FS_Singleton
<1> QED
  BY <1>1, <1>4, <1>5, <1>6, <1>8

LEMMA ActHolds ==
    ASSUME ActInv
    PROVE  ActIsWhole
<1> SUFFICES ASSUME actReader.st \in {"read", "past"} PROVE ActIsWhole
  BY DEF ActIsWhole
<1>1. PICK n, f : ReadSoFar(actReader, n, f)
  BY DEF ActInv
<1>2. PICK shown : shown = (IF actReader.st = "past" THEN Front(actReader.seen) ELSE actReader.seen)
  OBVIOUS
<1>3. /\ shown = f[n] /\ ActPlan(actReader.lengths, actReader.cut, n, f) /\ AtEnd(actReader.last, f, n)
      /\ Cardinality(actReader.versions) = 1
      /\ actReader.st = "past" => Last(actReader.seen) = Last(shown)
  BY <1>1, <1>2, ReadIsWhole
<1>4. FlattenSeq(shown) = WholeAct(actReader.lengths) /\ shown \in Seq(Seq(PartsOfActs))
  BY <1>3, PlanIs
<1>5. actReader.last = [page |-> Len(shown), total |-> Len(shown), exact |-> TRUE]
  BY <1>3 DEF AtEnd
<1>6. \A i \in DOMAIN shown : SizeOfText(actReader.lengths, shown[i]) <= PageChars
  BY <1>3, <1>4, PagesFit, LenProperties
<1> QED
  BY <1>2, <1>3, <1>4, <1>5, <1>6 DEF ActIsWhole, WholeAct, SizeOfText, PieceSize

(* Read page after page, an act is all its pieces, each once and in order, *)
(* of one version, on pages no longer than a page may be, with the last    *)
(* one named; and a window of a ranking is that window whatever pages the  *)
(* API serves it in: for any lengths of fragments and any length of page.  *)
THEOREM ActsAreWhole == ActsSpec => [](ActIsWhole /\ RowsAreTheWindow)
<1>1. ActsInit => ActInv
  BY ReadingStarts
<1>2. ActInv /\ [ActsNext]_actsVars => ActInv'
  BY ActSteps
<1>3. ActInv => ActIsWhole
  BY ActHolds
<1>4. RowsAreTheWindow
  BY RowsAreWindows
<1> QED
  BY <1>1, <1>2, <1>3, <1>4, PTL DEF ActsSpec

-----------------------------------------------------------------------------
(* The acts of the articles: in their text headings, or designations, under *)
(* a part of the act.                                                      *)
Aboves == {"none", "novela", "prilohy"}
ArticleLines == [above : Aboves, segment : Nat, line : Nat]
Written == {x \in ArticleLines : x.segment = 0}
Designated == {x \in ArticleLines : x.line = 0 /\ (x.segment # 0 => x.above # "none")}

ArticlePages(pages) == pages \in Seq(Seq(Written)) \/ pages \in Seq(Seq(Designated))

LEMMA PagesOfMany ==
    ASSUME NEW X, NEW s \in Seq(X), NEW some \in {1, 2}
    PROVE  Paged(s, some) \in Seq(Seq(X))
<1>1. PICK n \in Nat : n = Len(s)
  BY LenProperties
<1>2. PICK k \in Nat : k = (n + some - 1) \div some /\ k * some <= n + some - 1
  <2>1. (n + some - 1) \div some \in Nat /\ ((n + some - 1) \div some) * some <= n + some - 1
    <3>1. CASE some = 1
      BY <3>1
    <3>2. CASE some = 2
      BY <3>2
    <3> QED
      BY <3>1, <3>2
  <2> QED
    BY <2>1
<1>3. ASSUME NEW u \in 1 .. k PROVE SubSeq(s, (u - 1) * some + 1, Min({u * some, n})) \in Seq(X)
  <2>1. PICK m \in Nat : m = (u - 1) * some /\ u * some = m + some /\ m + some <= k * some
    <3>1. CASE some = 1
      BY <3>1
    <3>2. CASE some = 2
      BY <3>2
    <3> QED
      BY <3>1, <3>2
  <2>2. PICK e : e = Min({u * some, n})
    OBVIOUS
  <2>3. e \in {m + some, n} /\ e <= m + some /\ e <= n
    <3>1. {m + some, n} \subseteq Nat /\ {m + some, n} # {}
      OBVIOUS
    <3> QED
      BY <2>1, <2>2, <3>1, MinOf
  <2>4. m + 1 \in 1 .. n + 1 /\ e \in m .. n
    BY <1>2, <2>1, <2>3
  <2>5. SubSeq(s, m + 1, e) \in Seq(X)
    <3>1. m + 1 \in 1 .. Len(s) + 1 /\ e \in (m + 1) - 1 .. Len(s)
      BY <1>1, <2>4
    <3> QED
      BY <3>1, SubSeqProperties
  <2> QED
    BY <2>1, <2>2, <2>5
<1>4. Paged(s, some) = [u \in 1 .. k |-> SubSeq(s, (u - 1) * some + 1, Min({u * some, n}))]
  BY <1>1, <1>2 DEF Paged
<1>5. Paged(s, some) \in [1 .. k -> Seq(X)]
  BY <1>3, <1>4
<1> QED
  BY <1>5, FunctionsAreSeqs

UnderTwo(s, split) == [k \in DOMAIN s |-> [above |-> IF k <= split THEN "novela" ELSE "prilohy", segment |-> s[k], line |-> 0]]
InText(s) == [k \in DOMAIN s |-> [above |-> "none", segment |-> 0, line |-> s[k]]]
AfterATitle(s) ==
    <<[above |-> "none", segment |-> 0, line |-> 0]>> \o [k \in DOMAIN s |-> [above |-> "novela", segment |-> s[k], line |-> 0]]

ActsUnderTwo == {Paged(UnderTwo(s, split), size) : s \in [1 .. 6 -> {1, 2}], split \in {3, 6}, size \in {1, 2}}
ActsInText == {Paged(InText(s), size) : s \in [1 .. 5 -> {0, 1, 9}], size \in {1, 2}}
ActsAfterATitle == {Paged(AfterATitle(s), 2) : s \in [1 .. 3 -> {1, 2}]}

LEMMA ArticleActsAreOK ==
    ASSUME NEW pages \in ArticleActs
    PROVE  ArticlePages(pages)
<1>1. ASSUME NEW s \in [1 .. 6 -> {1, 2}], NEW split \in {3, 6}, NEW some \in {1, 2}, pages = Paged(UnderTwo(s, split), some)
      PROVE  ArticlePages(pages)
  <2>1. PICK list : list = UnderTwo(s, split)
    OBVIOUS
  <2>2. list \in [1 .. 6 -> Designated]
    BY <2>1 DEF UnderTwo, Designated, ArticleLines, Aboves
  <2>3. list \in Seq(Designated)
    <3>1. 6 \in Nat
      OBVIOUS
    <3> QED
      BY <2>2, <3>1, FunctionsAreSeqs
  <2> QED
    BY <1>1, <2>1, <2>3, PagesOfMany DEF ArticlePages
<1>2. ASSUME NEW s \in [1 .. 5 -> {0, 1, 9}], NEW some \in {1, 2}, pages = Paged(InText(s), some)
      PROVE  ArticlePages(pages)
  <2>1. PICK list : list = InText(s)
    OBVIOUS
  <2>2. list \in [1 .. 5 -> Written]
    BY <2>1 DEF InText, Written, ArticleLines, Aboves
  <2>3. list \in Seq(Written)
    <3>1. 5 \in Nat
      OBVIOUS
    <3> QED
      BY <2>2, <3>1, FunctionsAreSeqs
  <2> QED
    BY <1>2, <2>1, <2>3, PagesOfMany DEF ArticlePages
<1>3. ASSUME NEW s \in [1 .. 3 -> {1, 2}], pages = Paged(AfterATitle(s), 2)
      PROVE  ArticlePages(pages)
  <2>1. PICK list : list = [k \in 1 .. 3 |-> [above |-> "novela", segment |-> s[k], line |-> 0]]
    OBVIOUS
  <2>2. list \in [1 .. 3 -> Designated]
    BY <2>1 DEF Designated, ArticleLines, Aboves
  <2>3. list \in Seq(Designated)
    <3>1. 3 \in Nat
      OBVIOUS
    <3> QED
      BY <2>2, <3>1, FunctionsAreSeqs
  <2>4. PICK head \in Designated : head = [above |-> "none", segment |-> 0, line |-> 0]
    BY DEF Designated, ArticleLines, Aboves
  <2>5. <<head>> \in Seq(Designated)
    OBVIOUS
  <2>6. PICK whole \in Seq(Designated) : whole = <<head>> \o list
    BY <2>3, <2>5, ConcatProperties
  <2>7. whole = AfterATitle(s)
    BY <2>1, <2>4, <2>6 DEF AfterATitle
  <2>8. Paged(whole, 2) \in Seq(Seq(Designated))
    <3>1. 2 \in {1, 2}
      OBVIOUS
    <3> QED
      BY <3>1, PagesOfMany
  <2> QED
    BY <1>3, <2>7, <2>8 DEF ArticlePages
<1>4. ArticleActs = (ActsUnderTwo \cup ActsInText) \cup ActsAfterATitle
  BY DEF ArticleActs, ActsUnderTwo, ActsInText, ActsAfterATitle, UnderTwo, InText, AfterATitle
<1>5. \/ \E s \in [1 .. 6 -> {1, 2}], split \in {3, 6}, some \in {1, 2} : pages = Paged(UnderTwo(s, split), some)
      \/ \E s \in [1 .. 5 -> {0, 1, 9}], some \in {1, 2} : pages = Paged(InText(s), some)
      \/ \E s \in [1 .. 3 -> {1, 2}] : pages = Paged(AfterATitle(s), 2)
  BY <1>4 DEF ActsUnderTwo, ActsInText, ActsAfterATitle
<1> QED
  BY <1>1, <1>2, <1>3, <1>5 DEF UnderTwo, InText, AfterATitle

-----------------------------------------------------------------------------
(* getArticle, page by page: the fragments designated to the article in    *)
(* the part of the first one, of the pages taken.                          *)
Places == Nat \X Nat
Shapes == {p \in Seq(Seq(ArticleLines)) : ArticlePages(p)}
ReadingOf(p) == [pages : {p}, label : {1}, st : {"reading", "done"}, next : Nat, hits : SUBSET Places, above : Aboves,
                 runsOn : BOOLEAN, designated : BOOLEAN, closed : BOOLEAN]

NamedIn(p, m) == {at \in Places : at[1] < m /\ at[2] \in DOMAIN p[at[1] + 1] /\ p[at[1] + 1][at[2]].segment = 1}
NoLater(f, b) == f[1] < b[1] \/ (f[1] = b[1] /\ f[2] <= b[2])
FirstIn(p, m, f) == f \in NamedIn(p, m) /\ \A b \in NamedIn(p, m) : NoLater(f, b)
PartIn(p, m, part) == {b \in NamedIn(p, m) : p[b[1] + 1][b[2]].above = part}

TakenUpTo(p, n, m, taken, part) ==
    \/ NamedIn(p, m) = {} /\ taken = {} /\ part = "none"
    \/ \E f \in Places : /\ FirstIn(p, n, f) /\ f[1] < m /\ part = p[f[1] + 1][f[2]].above /\ part # "none"
                         /\ taken = PartIn(p, m, part)

StoppedAt(p, n, taken) ==
    \E f \in Places, u \in 0 .. n - 1 :
        /\ FirstIn(p, n, f) /\ f[1] < u
        /\ taken = PartIn(p, u, p[f[1] + 1][f[2]].above)
        /\ \A b \in PartIn(p, n, p[f[1] + 1][f[2]].above) : b[1] # u

LEMMA LinesAre ==
    ASSUME NEW p \in Shapes, NEW u \in 0 .. Len(p) - 1
    PROVE  /\ u + 1 \in 1 .. Len(p) /\ Len(p[u + 1]) \in Nat /\ DOMAIN p[u + 1] = 1 .. Len(p[u + 1])
           /\ \A i \in DOMAIN p[u + 1] : /\ i \in Nat /\ p[u + 1][i] \in ArticleLines /\ p[u + 1][i].above \in Aboves
                                         /\ p[u + 1][i].segment \in Nat
                                         /\ p[u + 1][i].segment # 0 => p[u + 1][i].above # "none" /\ p[u + 1][i].line = 0
<1>1. p \in Seq(Seq(ArticleLines)) /\ ArticlePages(p) /\ Len(p) \in Nat
  BY LenProperties DEF Shapes
<1>2. u + 1 \in 1 .. Len(p)
  BY <1>1
<1>3. p[u + 1] \in Seq(ArticleLines)
  BY <1>1, <1>2, ElementOfSeq
<1>4. p[u + 1] \in Seq(Written) \/ p[u + 1] \in Seq(Designated)
  <2>1. CASE p \in Seq(Seq(Written))
    BY <1>2, <2>1, ElementOfSeq
  <2>2. CASE p \in Seq(Seq(Designated))
    BY <1>2, <2>2, ElementOfSeq
  <2> QED
    BY <1>1, <2>1, <2>2 DEF ArticlePages
<1>5. Len(p[u + 1]) \in Nat /\ DOMAIN p[u + 1] = 1 .. Len(p[u + 1])
  BY <1>3
<1>6. ASSUME NEW i \in DOMAIN p[u + 1]
      PROVE  p[u + 1][i] \in ArticleLines /\ (p[u + 1][i] \in Written \/ p[u + 1][i] \in Designated)
  BY <1>3, <1>4, <1>5, <1>6
<1> QED
  BY <1>2, <1>5, <1>6 DEF ArticleLines, Written, Designated

\* A page more.
LEMMA NamedInOneMore ==
    ASSUME NEW p \in Shapes, NEW u \in 0 .. Len(p) - 1, NEW part
    PROVE  /\ NamedIn(p, u + 1) = NamedIn(p, u) \cup {u} \X {i \in DOMAIN p[u + 1] : p[u + 1][i].segment = 1}
           /\ PartIn(p, u + 1, part) = PartIn(p, u, part) \cup
                  {u} \X {i \in DOMAIN p[u + 1] : p[u + 1][i].segment = 1 /\ p[u + 1][i].above = part}
<1>0. u \in Nat
  OBVIOUS
<1>1. u \in Nat /\ \A i \in DOMAIN p[u + 1] : i \in Nat
  BY <1>0, LinesAre
<1>2. ASSUME NEW at \in Places PROVE at = <<at[1], at[2]>> /\ at[1] \in Nat /\ at[2] \in Nat /\ (at[1] < u + 1 <=> at[1] < u \/ at[1] = u)
  BY <1>1 DEF Places
<1>3. \A i \in DOMAIN p[u + 1] : <<u, i>> \in Places
  BY <1>1 DEF Places
<1> QED
  BY <1>1, <1>2, <1>3 DEF NamedIn, PartIn

LEMMA PageIsTaken ==
    ASSUME NEW p \in Shapes, NEW n \in Nat, n <= Len(p), NEW u \in 0 .. n - 1, NEW a \in ReadingOf(p),
           a.st = "reading", TakenUpTo(p, n, u, a.hits, a.above)
    PROVE  LET b == TakePage(a, u)
           IN  /\ b \in ReadingOf(p) /\ b.next = a.next /\ b.closed = a.closed
               /\ \/ b.st = "reading" /\ TakenUpTo(p, n, u + 1, b.hits, b.above)
                  \/ b.st = "done" /\ StoppedAt(p, n, b.hits)
<1>15. PICK page : page = p[u + 1]
  OBVIOUS
<1> DEFINE named == {i \in DOMAIN page : page[i].segment = 1}
           part == aboveOn(a, u)
           found == {u} \X {i \in DOMAIN page : page[i].segment = 1 /\ page[i].above = part}
           b == TakePage(a, u)
<1>0. a.pages = p /\ a.label = 1 /\ a.above \in Aboves /\ a.hits \in SUBSET Places /\ a.designated \in BOOLEAN
  BY DEF ReadingOf
<1>1. u \in 0 .. Len(p) - 1 /\ u \in Nat /\ Len(p) \in Nat
  <2>1. Len(p) \in Nat
    BY LenProperties DEF Shapes
  <2> QED
    BY <2>1
<1>2. \A i \in DOMAIN page : i \in Nat /\ page[i].above \in Aboves /\ (page[i].segment # 0 => page[i].above # "none")
  BY <1>1, <1>15, LinesAre
<1>4. part = IF a.above # "none" \/ named = {} THEN a.above ELSE page[Min(named)].above
  BY <1>0, <1>15 DEF aboveOn
<1>12. /\ named \subseteq Nat
       /\ \A i \in named : page[i].above \in Aboves /\ page[i].above # "none" /\ i \in DOMAIN page /\ page[i].segment = 1
  <2>1. \A i \in named : i \in DOMAIN page /\ page[i].segment = 1
    OBVIOUS
  <2>2. \A i \in named : page[i].segment # 0
    BY <2>1
  <2> HIDE DEF named
  <2>3. \A i \in named : i \in Nat /\ page[i].above \in Aboves /\ page[i].above # "none"
    BY <1>2, <2>1, <2>2
  <2> QED
    BY <2>1, <2>3
<1>5. articleHits(a, u) = found
  BY <1>0, <1>15 DEF articleHits
<1>6. found \in SUBSET Places
  <2>1. {i \in DOMAIN page : page[i].segment = 1 /\ page[i].above = part} \subseteq Nat
    BY <1>2
  <2> QED
    BY <1>1, <2>1 DEF Places
<1>7. /\ NamedIn(p, u + 1) = NamedIn(p, u) \cup {u} \X named
      /\ PartIn(p, u + 1, part) = PartIn(p, u, part) \cup found
  <2>1. part = aboveOn(a, u)
    OBVIOUS
  <2> HIDE DEF part
  <2>2. PICK named0 : named0 = {i \in DOMAIN p[u + 1] : p[u + 1][i].segment = 1}
    OBVIOUS
  <2>3. PICK found0 : found0 = {u} \X {i \in DOMAIN p[u + 1] : p[u + 1][i].segment = 1 /\ p[u + 1][i].above = part}
    OBVIOUS
  <2>4. named = named0 /\ found = found0
    BY <1>15, <2>2, <2>3
  <2> HIDE DEF named, found
  <2>5. NamedIn(p, u + 1) = NamedIn(p, u) \cup {u} \X named0
    BY <1>1, <2>2, NamedInOneMore
  <2>6. PartIn(p, u + 1, part) = PartIn(p, u, part) \cup found0
    BY <1>1, <2>3, NamedInOneMore
  <2> QED
    BY <2>4, <2>5, <2>6
<1>8. \A at \in NamedIn(p, u) : at \in Places /\ at[1] < u
  BY DEF NamedIn
<1> HIDE DEF named, part, found
<1>3. named # {} => Min(named) \in named /\ Min(named) \in Nat /\ \A i \in named : Min(named) <= i
  BY <1>12, MinOf
<1>13. part \in Aboves
  BY <1>0, <1>3, <1>4, <1>12
<1>9. b = IF a.st # "reading" \/ (a.hits # {} /\ found = {}) THEN [a EXCEPT !.st = "done"]
          ELSE [a EXCEPT !.above = part, !.hits = @ \cup found,
                         !.runsOn = found # {} /\ <<u, Len(a.pages[u + 1])>> \in found,
                         !.designated = @ \/ \E i \in DOMAIN a.pages[u + 1] : a.pages[u + 1][i].segment # 0]
  BY <1>5 DEF TakePage, part
<1> HIDE DEF b
<1> DEFINE Taken == /\ b \in ReadingOf(p) /\ b.next = a.next /\ b.closed = a.closed
                    /\ \/ b.st = "reading" /\ TakenUpTo(p, n, u + 1, b.hits, b.above)
                       \/ b.st = "done" /\ StoppedAt(p, n, b.hits)
<1>14. SUFFICES Taken
  BY DEF b
<1>10. CASE a.hits # {} /\ found = {}
  <2>1. b \in ReadingOf(p) /\ b.next = a.next /\ b.closed = a.closed /\ b.st = "done" /\ b.hits = a.hits
    BY <1>9, <1>10 DEF ReadingOf
  <2>2. PICK f \in Places : /\ FirstIn(p, n, f) /\ f[1] < u /\ a.above = p[f[1] + 1][f[2]].above /\ a.above # "none"
                            /\ a.hits = PartIn(p, u, a.above)
    BY <1>10 DEF TakenUpTo
  <2>3. part = a.above
    BY <1>4, <2>2
  <2>4. \A at \in PartIn(p, n, part) : at[1] # u
    <3>1. SUFFICES ASSUME NEW at \in PartIn(p, n, part), at[1] = u PROVE FALSE
      OBVIOUS
    <3>2. at \in PartIn(p, u + 1, part)
      BY <1>1, <3>1 DEF PartIn, NamedIn
    <3>3. at \in PartIn(p, u, part)
      BY <1>7, <1>10, <3>2
    <3> QED
      BY <1>8, <3>1, <3>3, <1>1 DEF PartIn
  <2> QED
    BY <2>1, <2>2, <2>3, <2>4 DEF StoppedAt
<1>11. CASE ~(a.hits # {} /\ found = {})
  <2>1. /\ b \in ReadingOf(p) /\ b.next = a.next /\ b.closed = a.closed /\ b.st = "reading"
        /\ b.hits = a.hits \cup found /\ b.above = part
    <3>1. a.hits \cup found \in SUBSET Places
      BY <1>0, <1>6
    <3> QED
      BY <1>0, <1>6, <1>9, <1>11, <1>13, <3>1 DEF ReadingOf
  <2>2. ASSUME NamedIn(p, u) = {}, a.hits = {}, a.above = "none", named = {}
        PROVE  TakenUpTo(p, n, u + 1, b.hits, b.above)
    <3>1. found = {}
      BY <2>2 DEF found, named
    <3> QED
      BY <1>4, <1>7, <2>1, <2>2, <3>1 DEF TakenUpTo
  <2>3. ASSUME NamedIn(p, u) = {}, a.hits = {}, a.above = "none", named # {}
        PROVE  TakenUpTo(p, n, u + 1, b.hits, b.above)
    <3>9. PICK i \in Nat : i = Min(named)
      BY <1>3, <2>3
    <3>10. <<u, i>> \in Places
      BY <1>1 DEF Places
    <3>1. PICK f \in Places : f = <<u, i>> /\ f[1] = u /\ f[2] = Min(named)
      BY <3>9, <3>10
    <3>8. f[2] \in named
      BY <1>3, <2>3, <3>1
    <3>2. f \in NamedIn(p, u + 1) /\ part = p[f[1] + 1][f[2]].above
      BY <1>3, <1>4, <1>7, <1>15, <2>3, <3>1, <3>8
    <3>3. part # "none"
      BY <1>12, <1>15, <3>1, <3>2, <3>8
    <3>4. f \in NamedIn(p, n)
      <4>2. u < n
        OBVIOUS
      <4>1. u < n /\ f[2] \in DOMAIN page /\ page[f[2]].segment = 1
        BY <1>12, <3>8, <4>2
      <4> QED
        BY <1>15, <3>1, <4>1 DEF NamedIn
    <3>5. \A at \in NamedIn(p, n) : NoLater(f, at)
      <4> SUFFICES ASSUME NEW at \in NamedIn(p, n) PROVE NoLater(f, at)
        OBVIOUS
      <4>1. at \in Places /\ at[1] \in Nat /\ at[2] \in Nat /\ at = <<at[1], at[2]>>
        BY DEF NamedIn, Places
      <4>2. CASE at[1] <= u
        <5>1. at \in NamedIn(p, u + 1)
          BY <1>1, <4>1, <4>2 DEF NamedIn
        <5>2. at \in {u} \X named
          BY <1>7, <2>3, <5>1
        <5> QED
          BY <1>3, <3>1, <5>2 DEF NoLater
      <4> QED
        BY <1>1, <3>1, <4>1, <4>2 DEF NoLater
    <3>6. PartIn(p, u, part) = {}
      BY <2>3 DEF PartIn
    <3>7. b.hits = PartIn(p, u + 1, part)
      BY <1>7, <2>1, <2>3, <3>6
    <3> QED
      BY <1>1, <2>1, <3>1, <3>2, <3>3, <3>4, <3>5, <3>7 DEF TakenUpTo, FirstIn
  <2>4. ASSUME NEW f \in Places, FirstIn(p, n, f), f[1] < u, a.above = p[f[1] + 1][f[2]].above, a.above # "none",
               a.hits = PartIn(p, u, a.above)
        PROVE  TakenUpTo(p, n, u + 1, b.hits, b.above)
    <3>1. part = a.above
      BY <1>4, <2>4
    <3>2. b.hits = PartIn(p, u + 1, part)
      BY <1>7, <2>1, <2>4, <3>1
    <3>3. f[1] < u + 1
      BY <1>1, <2>4 DEF Places
    <3> QED
      BY <2>1, <2>4, <3>1, <3>2, <3>3 DEF TakenUpTo
  <2>5. TakenUpTo(p, n, u + 1, b.hits, b.above)
    BY <2>2, <2>3, <2>4 DEF TakenUpTo
  <2> QED
    BY <2>1, <2>5
<1> QED
  BY <1>10, <1>11

-----------------------------------------------------------------------------
LEMMA PageIsTyped ==
    ASSUME NEW p \in Shapes, NEW n \in Nat, n <= Len(p), NEW u \in 0 .. n - 1, NEW a \in ReadingOf(p)
    PROVE  /\ TakePage(a, u) \in ReadingOf(p)
           /\ TakePage(a, u).next = a.next /\ TakePage(a, u).closed = a.closed
           /\ a.st = "done" => TakePage(a, u).st = "done" /\ TakePage(a, u).hits = a.hits
<1> DEFINE b == TakePage(a, u)
           found == articleHits(a, u)
           part == aboveOn(a, u)
<1>0. a.pages = p /\ a.label = 1 /\ a.above \in Aboves /\ a.hits \in SUBSET Places /\ a.designated \in BOOLEAN
  BY DEF ReadingOf
<1>1. u \in 0 .. Len(p) - 1 /\ u \in Nat
  <2>1. Len(p) \in Nat
    BY LenProperties DEF Shapes
  <2> QED
    BY <2>1
<1>2. PICK page : page = p[u + 1]
  OBVIOUS
<1>3. \A i \in DOMAIN page : i \in Nat /\ page[i].above \in Aboves
  BY <1>1, <1>2, LinesAre
<1> DEFINE named == {i \in DOMAIN page : page[i].segment = 1}
<1>4. part = IF a.above # "none" \/ named = {} THEN a.above ELSE page[Min(named)].above
  BY <1>0, <1>2 DEF aboveOn
<1>5. named \subseteq Nat /\ \A i \in named : page[i].above \in Aboves
  BY <1>3
<1>6. PICK some : some = {i \in DOMAIN page : page[i].segment = 1 /\ page[i].above = part} /\ some \subseteq Nat
  <2> HIDE DEF part
  <2> QED
    BY <1>3
<1>7. found = {u} \X some
  BY <1>0, <1>2, <1>6 DEF articleHits
<1> HIDE DEF named, part, found
<1>8. named # {} => Min(named) \in named
  BY <1>5, MinOf
<1>9. part \in Aboves
  BY <1>0, <1>4, <1>5, <1>8
<1>10. a.hits \cup found \in SUBSET Places
  BY <1>0, <1>1, <1>6, <1>7 DEF Places
<1>11. b = IF a.st # "reading" \/ (a.hits # {} /\ found = {}) THEN [a EXCEPT !.st = "done"]
           ELSE [a EXCEPT !.above = part, !.hits = @ \cup found,
                          !.runsOn = found # {} /\ <<u, Len(a.pages[u + 1])>> \in found,
                          !.designated = @ \/ \E i \in DOMAIN a.pages[u + 1] : a.pages[u + 1][i].segment # 0]
  BY DEF TakePage, part, found
<1>12. b \in ReadingOf(p) /\ b.next = a.next /\ b.closed = a.closed /\ (a.st = "done" => b.st = "done" /\ b.hits = a.hits)
  <2> HIDE DEF b
  <2>1. CASE a.st # "reading" \/ (a.hits # {} /\ found = {})
    BY <1>11, <2>1 DEF ReadingOf
  <2>2. CASE ~(a.st # "reading" \/ (a.hits # {} /\ found = {}))
    BY <1>0, <1>9, <1>10, <1>11, <2>2 DEF ReadingOf
  <2> QED
    BY <2>1, <2>2
<1> QED
  BY <1>12

Kept(p, n, a, u) ==
    \/ a.st = "reading" /\ TakenUpTo(p, n, u, a.hits, a.above)
    \/ a.st = "done" /\ StoppedAt(p, n, a.hits)

LEMMA PageKeeps ==
    ASSUME NEW p \in Shapes, NEW n \in Nat, n <= Len(p), NEW u \in 0 .. n - 1, NEW a \in ReadingOf(p), Kept(p, n, a, u)
    PROVE  Kept(p, n, TakePage(a, u), u + 1)
<1>1. CASE a.st = "reading" /\ TakenUpTo(p, n, u, a.hits, a.above)
  BY <1>1, PageIsTaken DEF Kept
<1>2. CASE a.st = "done" /\ StoppedAt(p, n, a.hits)
  <2>1. PICK b : b = TakePage(a, u)
    OBVIOUS
  <2>2. b.st = "done" /\ b.hits = a.hits
    BY <1>2, <2>1, PageIsTyped
  <2> QED
    BY <1>2, <2>1, <2>2 DEF Kept
<1> QED
  BY <1>1, <1>2 DEF Kept

-----------------------------------------------------------------------------
(* A round: the fold of the pages read.                                    *)
RoundOf(a) == {b \in ReadingOf(a.pages) : b.next = a.next /\ b.closed = a.closed}
PagesTaken(a, m) == [q \in RoundOf(a) \X (1 .. m) |-> TakePage(q[1], a.next + q[2] - 1)]

LEMMA RoundUnfolds ==
    ASSUME NEW p \in Shapes, NEW n \in Nat, n <= Len(p), NEW a \in ReadingOf(p), NEW m \in Nat, a.next + m <= n,
           NEW pages, pages = [k \in 1 .. m |-> a.next + k - 1]
    PROVE  SweepEnds(FoldLeft(TakePage, a, pages), m, a, PagesTaken(a, m), RoundOf(a))
<1> DEFINE V == RoundOf(a)
           F == PagesTaken(a, m)
           Solves(g) == g = [s \in SUBSET DOMAIN pages |->
                                IF s = {} THEN a ELSE TakePage(g[s \ {Highest(s)}], pages[Highest(s)])]
<1>0. DOMAIN pages = 1 .. m /\ \A k \in 1 .. m : pages[k] = a.next + k - 1
  OBVIOUS
<1>13. a.pages = p /\ a.next \in Nat
  BY DEF ReadingOf
<1>1. F \in [V \X (1 .. m) -> V]
  <2>1. ASSUME NEW v \in V, NEW k \in 1 .. m PROVE TakePage(v, a.next + k - 1) \in V
    <3>1. v \in ReadingOf(p) /\ v.next = a.next /\ v.closed = a.closed
      BY <1>13 DEF RoundOf
    <3>2. PICK u \in 0 .. n - 1 : u = a.next + k - 1
      BY <1>13
    <3>3. TakePage(v, u) \in ReadingOf(p) /\ TakePage(v, u).next = v.next /\ TakePage(v, u).closed = v.closed
      BY <3>1, PageIsTyped
    <3> QED
      BY <1>13, <3>1, <3>2, <3>3 DEF RoundOf
  <2> HIDE DEF V
  <2> QED
    BY <2>1 DEF PagesTaken, V
<1>2. a \in V
  BY <1>13 DEF RoundOf
<1>3. \A v \in V, k \in 1 .. m : F[<<v, k>>] = TakePage(v, pages[k])
  BY <1>0 DEF PagesTaken
<1> HIDE DEF V, F
<1>4. PICK g \in [SUBSET (1 .. m) -> V] : FoldsAlong(g, m, a, F)
  BY <1>1, <1>2, FoldExists
<1>5. ASSUME NEW s \in SUBSET (1 .. m)
      PROVE  g[s] = IF s = {} THEN a ELSE TakePage(g[s \ {Highest(s)}], pages[Highest(s)])
  <2>1. CASE s # {}
    <3>1. Highest(s) \in 1 .. m /\ g[s \ {Highest(s)}] \in V
      BY <1>4, <2>1, HighestOf
    <3>2. g[s] = F[<<g[s \ {Highest(s)}], Highest(s)>>]
      BY <1>4, <2>1 DEF FoldsAlong
    <3> QED
      BY <1>3, <2>1, <3>1, <3>2
  <2> QED
    BY <1>4, <2>1 DEF FoldsAlong
<1>6. Solves(g)
  BY <1>0, <1>4, <1>5
<1>7. Solves(CHOOSE x : Solves(x))
  <2>1. \E x : Solves(x)
    BY <1>6
  <2> HIDE DEF Solves
  <2> QED
    BY <2>1
<1>8. FoldLeft(TakePage, a, pages) = (CHOOSE x : Solves(x))[1 .. m]
  BY <1>0 DEF FoldLeft, MapThenFoldSet, Highest, Max
<1>9. ASSUME NEW x, Solves(x), NEW k \in 1 .. m, x[1 .. k - 1] \in V PROVE x[1 .. k] = F[<<x[1 .. k - 1], k>>]
  <2>1. 1 .. k \in SUBSET (1 .. m) /\ 1 .. k # {} /\ Highest(1 .. k) = k /\ (1 .. k) \ {k} = 1 .. k - 1
    BY FoldOfInterval
  <2>0. \A s \in SUBSET (1 .. m) : x[s] = IF s = {} THEN a ELSE TakePage(x[s \ {Highest(s)}], pages[Highest(s)])
    BY <1>0, <1>9
  <2>2. x[1 .. k] = TakePage(x[1 .. k - 1], pages[k])
    BY <2>0, <2>1
  <2> QED
    BY <1>3, <1>9, <2>2
<1>10. ASSUME NEW x, Solves(x) PROVE x[{}] = a
  BY <1>10
<1> DEFINE w == CHOOSE x : Solves(x)
<1> HIDE DEF w
<1>11. Solves(w) /\ FoldLeft(TakePage, a, pages) = w[1 .. m]
  BY <1>7, <1>8 DEF w
<1> HIDE DEF Solves
<1>12. SweepEnds(FoldLeft(TakePage, a, pages), m, a, F, V)
  <2>1. FoldStep(w, m, a, F, V)
    BY <1>9, <1>10, <1>11 DEF FoldStep
  <2>2. PICK result : result = w[1 .. m]
    OBVIOUS
  <2>3. SweepEnds(result, m, a, F, V)
    BY <1>1, <1>2, <2>1, <2>2, StepsOfFold
  <2> QED
    BY <1>11, <2>2, <2>3
<1> QED
  BY <1>12 DEF V, F

-----------------------------------------------------------------------------
LEMMA RoundKeeps ==
    ASSUME NEW p \in Shapes, NEW n \in Nat, n <= Len(p), NEW a \in ReadingOf(p), NEW m \in Nat, a.next + m <= n,
           Kept(p, n, a, a.next), NEW b, b = FoldLeft(TakePage, a, [k \in 1 .. m |-> a.next + k - 1])
    PROVE  b \in ReadingOf(p) /\ b.next = a.next /\ b.closed = a.closed /\ Kept(p, n, b, a.next + m)
<1>0. a.pages = p /\ a.next \in Nat
  BY DEF ReadingOf
<1>1. PICK h : SweepsTo(h, m, a, PagesTaken(a, m), RoundOf(a)) /\ h[m] = b
  BY RoundUnfolds DEF SweepEnds
<1>2. h[0] = a /\ \A k \in 0 .. m : h[k] \in ReadingOf(p) /\ h[k].next = a.next /\ h[k].closed = a.closed
  BY <1>0, <1>1 DEF SweepsTo, RoundOf
<1>3. \A k \in 1 .. m : h[k] = TakePage(h[k - 1], a.next + k - 1)
  <2> SUFFICES ASSUME NEW k \in 1 .. m PROVE h[k] = TakePage(h[k - 1], a.next + k - 1)
    OBVIOUS
  <2>1. h[k - 1] \in RoundOf(a) /\ h[k] = PagesTaken(a, m)[<<h[k - 1], k>>]
    BY <1>1 DEF SweepsTo
  <2> QED
    BY <2>1 DEF PagesTaken
<1> DEFINE G == {k \in 0 .. m : Kept(p, n, h[k], a.next + k)}
<1>4. 0 \in G
  BY <1>0, <1>2
<1>5. ASSUME NEW k \in 1 .. m, k - 1 \in G PROVE k \in G
  <2>1. PICK u \in 0 .. n - 1 : u = a.next + k - 1
    BY <1>0
  <2>2. Kept(p, n, h[k - 1], u) /\ h[k - 1] \in ReadingOf(p)
    BY <1>0, <1>2, <1>5, <2>1
  <2>3. Kept(p, n, TakePage(h[k - 1], u), u + 1)
    BY <2>2, PageKeeps
  <2>4. u + 1 = a.next + k
    BY <1>0, <2>1
  <2> QED
    BY <1>3, <2>1, <2>3, <2>4
<1> HIDE DEF G
<1>6. \A k \in 0 .. m : k \in G
  BY <1>4, <1>5, UpTo
<1> QED
  BY <1>1, <1>2, <1>6 DEF G

-----------------------------------------------------------------------------
(* extractArticle: what is closed in the first pages is closed by them.    *)
PlacesOf(p, n) == {at \in Places : at[1] < n /\ at[2] \in DOMAIN p[at[1] + 1]}
NumberedLines(p, n) == [u \in 1 .. n |-> [i \in DOMAIN p[u] |-> <<u - 1, i>>]]
LinesOf(p, n) == FlattenSeq(NumberedLines(p, n))

LEMMA LinesAreTyped ==
    ASSUME NEW p \in Shapes, NEW n \in Nat, n <= Len(p)
    PROVE  /\ NumberedLines(p, n) \in [1 .. n -> Seq(PlacesOf(p, n))]
           /\ LinesOf(p, n) \in Seq(PlacesOf(p, n)) /\ PlacesOf(p, n) \subseteq Places
<1>0. Len(p) \in Nat
  BY LenProperties DEF Shapes
<1>1. ASSUME NEW u \in 1 .. n PROVE [i \in DOMAIN p[u] |-> <<u - 1, i>>] \in Seq(PlacesOf(p, n))
  <2>1. PICK v \in 0 .. Len(p) - 1 : v = u - 1 /\ v + 1 = u /\ v \in Nat /\ v < n
    BY <1>0
  <2>2. PICK page : page = p[u]
    OBVIOUS
  <2>3. Len(page) \in Nat /\ DOMAIN page = 1 .. Len(page) /\ \A i \in DOMAIN page : i \in Nat
    BY <2>1, <2>2, LinesAre
  <2>4. ASSUME NEW i \in 1 .. Len(page) PROVE <<v, i>> \in PlacesOf(p, n)
    <3>1. <<v, i>> \in Places
      BY <2>1, <2>3 DEF Places
    <3> QED
      BY <2>1, <2>2, <2>3, <3>1 DEF PlacesOf
  <2>5. [i \in 1 .. Len(page) |-> <<v, i>>] \in Seq(PlacesOf(p, n))
    BY <2>3, <2>4, FunctionsAreSeqs
  <2> QED
    BY <2>1, <2>2, <2>3, <2>5
<1>2. NumberedLines(p, n) \in [1 .. n -> Seq(PlacesOf(p, n))]
  BY <1>1 DEF NumberedLines
<1> QED
  BY <1>2, FlattenType DEF LinesOf, PlacesOf

LEMMA LinesGrow ==
    ASSUME NEW p \in Shapes, NEW n \in Nat, n <= Len(p), NEW m \in 0 .. n
    PROVE  \E rest \in Seq(Places) : LinesOf(p, n) = LinesOf(p, m) \o rest
<1>0. m \in Nat /\ m <= n /\ m <= Len(p) /\ n - m \in Nat
  <2>1. Len(p) \in Nat
    BY LenProperties DEF Shapes
  <2> QED
    BY <2>1
<1>1. PICK c : c = NumberedLines(p, n)
  OBVIOUS
<1>2. PICK a : a = NumberedLines(p, m)
  OBVIOUS
<1> DEFINE b == [k \in 1 .. n - m |-> c[m + k]]
<1>3. \A s : s \in Seq(PlacesOf(p, n)) \/ s \in Seq(PlacesOf(p, m)) => s \in Seq(Places)
  <2>1. PlacesOf(p, n) \subseteq Places /\ PlacesOf(p, m) \subseteq Places
    BY DEF PlacesOf
  <2>2. ASSUME NEW S, S \subseteq Places, NEW s \in Seq(S) PROVE s \in Seq(Places)
    BY <2>2
  <2> QED
    BY <2>1, <2>2
<1>4. c \in [1 .. n -> Seq(Places)] /\ a \in [1 .. m -> Seq(Places)]
  <2>1. c \in [1 .. n -> Seq(PlacesOf(p, n))]
    BY <1>1, LinesAreTyped
  <2>2. a \in [1 .. m -> Seq(PlacesOf(p, m))]
    BY <1>0, <1>2, LinesAreTyped
  <2> QED
    BY <1>3, <2>1, <2>2
<1>5. b \in [1 .. n - m -> Seq(Places)]
  BY <1>0, <1>4
<1>6. a \in Seq(Seq(Places)) /\ b \in Seq(Seq(Places)) /\ Len(a) = m /\ Len(b) = n - m /\ c \in Seq(Seq(Places)) /\ Len(c) = n
  <2> HIDE DEF b
  <2>1. PICK W : W = Seq(Places)
    OBVIOUS
  <2>2. c \in [1 .. n -> W] /\ a \in [1 .. m -> W] /\ b \in [1 .. n - m -> W]
    BY <1>4, <1>5, <2>1
  <2>3. ASSUME NEW k \in Nat, NEW f \in [1 .. k -> W] PROVE f \in Seq(W) /\ Len(f) = k
    BY FunctionsAreSeqs
  <2> QED
    BY <1>0, <2>1, <2>2, <2>3
<1>7. \A k \in 1 .. m : a[k] = c[k]
  BY <1>0, <1>1, <1>2 DEF NumberedLines
<1>11. \A k \in 1 .. n : k > m => b[k - m] = c[k]
  BY <1>0
<1>8. c = a \o b
  <2> HIDE DEF b
  <2>1. PICK W : W = Seq(Places)
    OBVIOUS
  <2>2. a \in Seq(W) /\ b \in Seq(W) /\ c \in Seq(W)
    BY <1>6, <2>1
  <2>3. PICK d : d = a \o b
    OBVIOUS
  <2>4. OneAfterTheOther(W, a, b, d)
    BY <2>2, <2>3, ConcatOf
  <2>5. d \in Seq(W) /\ Len(d) = n /\ DOMAIN d = 1 .. n /\ (\A k \in 1 .. m : d[k] = a[k])
        /\ \A k \in DOMAIN d : k > m => d[k] = b[k - m]
    BY <1>0, <1>6, <2>4 DEF OneAfterTheOther
  <2>6. \A k \in 1 .. n : k <= m => k \in 1 .. m
    BY <1>0
  <2>7. \A k \in 1 .. n : c[k] = d[k]
    BY <1>0, <1>7, <1>11, <2>5, <2>6
  <2>8. c = d
    BY <1>6, <2>2, <2>5, <2>7, SeqEqual
  <2> QED
    BY <2>3, <2>8
<1> HIDE DEF b
<1>9. FlattenSeq(c) = FlattenSeq(a) \o FlattenSeq(b)
  BY <1>6, <1>8, FlattenConcat
<1>10. FlattenSeq(b) \in Seq(Places)
  BY <1>0, <1>5, FlattenType
<1> QED
  BY <1>1, <1>2, <1>9, <1>10 DEF LinesOf

-----------------------------------------------------------------------------
LineAt(p, at) == p[at[1] + 1][at[2]].line
Headings(p, lines) == {k \in DOMAIN lines : LineAt(p, lines[k]) = 1}
Nexts(p, lines) ==
    IF Headings(p, lines) = {} THEN {}
    ELSE {k \in DOMAIN lines : k > Min(Headings(p, lines)) /\ LineAt(p, lines[k]) # 0}
Extract(p, lines) ==
    IF Headings(p, lines) = {} THEN {}
    ELSE {lines[k] : k \in Min(Headings(p, lines)) .. Min(Nexts(p, lines) \cup {Len(lines) + 1}) - 1}

LEMMA ExtractIs ==
    ASSUME NEW a, a.label = 1, NEW n \in Nat
    PROVE  /\ extractArticle(a, n).text = Extract(a.pages, LinesOf(a.pages, n))
           /\ extractArticle(a, n).closed = (Nexts(a.pages, LinesOf(a.pages, n)) # {})
<1> DEFINE p == a.pages
           lines == FlattenSeq([u \in 1 .. n |-> [i \in DOMAIN a.pages[u] |-> <<u - 1, i>>]])
           starts == {k \in DOMAIN lines : Fragment(a, lines[k]).line = a.label}
           after == IF starts = {} THEN {} ELSE {k \in DOMAIN lines : k > Min(starts) /\ Fragment(a, lines[k]).line # 0}
<1>1. extractArticle(a, n) = [text |-> IF starts = {} THEN {} ELSE {lines[k] : k \in Min(starts) .. Min(after \cup {Len(lines) + 1}) - 1},
                              closed |-> after # {}]
  BY DEF extractArticle
<1>2. lines = LinesOf(p, n)
  BY DEF LinesOf, NumberedLines
<1>3. \A at : Fragment(a, at).line = LineAt(p, at)
  BY DEF Fragment, LineAt
<1> HIDE DEF lines, p
<1>4. starts = Headings(p, lines)
  BY <1>3 DEF Headings
<1>5. after = IF starts = {} THEN {} ELSE {k \in DOMAIN lines : k > Min(starts) /\ LineAt(p, lines[k]) # 0}
  <2> HIDE DEF starts
  <2> QED
    BY <1>3
<1> HIDE DEF starts, after
<1>6. after = Nexts(p, lines)
  BY <1>4, <1>5 DEF Nexts
<1>7. extractArticle(a, n).text = Extract(p, lines) /\ extractArticle(a, n).closed = (Nexts(p, lines) # {})
  BY <1>1, <1>4, <1>6 DEF Extract
<1> QED
  BY <1>2, <1>7 DEF p

LEMMA ClosedStays ==
    ASSUME NEW p, NEW short \in Seq(Places), NEW rest \in Seq(Places), NEW long, long = short \o rest, Nexts(p, short) # {}
    PROVE  Extract(p, long) = Extract(p, short)
<1>1. OneAfterTheOther(Places, short, rest, long)
  BY ConcatOf
<1>2. PICK m \in Nat : m = Len(short) /\ DOMAIN short = 1 .. m
  BY LenProperties
<1>3. PICK n \in Nat : n = Len(long) /\ DOMAIN long = 1 .. n /\ m <= n
  BY <1>1, <1>2 DEF OneAfterTheOther
<1>4. \A k \in 1 .. m : k \in 1 .. n /\ long[k] = short[k]
  BY <1>1, <1>2, <1>3 DEF OneAfterTheOther
<1>5. Headings(p, short) # {}
  BY DEF Nexts
<1>6. PICK s : s = Min(Headings(p, short))
  OBVIOUS
<1>7. Headings(p, short) \subseteq Nat /\ Headings(p, short) \subseteq 1 .. m /\ Headings(p, short) \subseteq Headings(p, long)
      /\ Headings(p, long) \subseteq 1 .. n
      /\ \A k \in Headings(p, long) : k <= m => k \in Headings(p, short)
  BY <1>2, <1>3, <1>4 DEF Headings
<1>8. s \in Headings(p, short) /\ s \in 1 .. m /\ \A k \in Headings(p, short) : s <= k
  BY <1>5, <1>6, <1>7, MinOf
<1>9. Min(Headings(p, long)) = s
  <2>1. PICK t : t = Min(Headings(p, long))
    OBVIOUS
  <2>2. t \in Headings(p, long) /\ \A k \in Headings(p, long) : t <= k
    <3>1. Headings(p, long) \subseteq Nat /\ Headings(p, long) # {}
      BY <1>7, <1>8
    <3> QED
      BY <2>1, <3>1, MinOf
  <2>3. t <= s /\ s \in Headings(p, long) /\ t \in 1 .. n
    BY <1>7, <1>8, <2>2
  <2>4. t \in Headings(p, short)
    BY <1>7, <1>8, <2>2, <2>3
  <2> QED
    BY <1>8, <2>1, <2>3, <2>4
<1> DEFINE near == Nexts(p, short)
           far == Nexts(p, long)
<1>10. /\ near = {k \in 1 .. m : k > s /\ LineAt(p, short[k]) # 0}
       /\ far = {k \in 1 .. n : k > s /\ LineAt(p, long[k]) # 0}
       /\ Headings(p, long) # {}
  BY <1>2, <1>3, <1>5, <1>6, <1>7, <1>9 DEF Nexts
<1>11. near \subseteq 1 .. m /\ far \subseteq 1 .. n /\ near \subseteq far /\ near # {} /\ \A k \in far : k <= m => k \in near
  <2> HIDE DEF near, far
  <2>1. near \subseteq 1 .. m /\ far \subseteq 1 .. n
    BY <1>10
  <2>2. near \subseteq far
    BY <1>4, <1>10
  <2>3. near # {}
    BY DEF near
  <2>4. ASSUME NEW k \in far, k <= m PROVE k \in near
    <3>1. k \in 1 .. m /\ k \in 1 .. n
      BY <2>1, <2>4
    <3> QED
      BY <1>4, <1>10, <2>4, <3>1
  <2> QED
    BY <2>1, <2>2, <2>3, <2>4
<1> HIDE DEF near, far
<1>19. near \subseteq Nat /\ far \subseteq Nat /\ m + 1 \in Nat /\ n + 1 \in Nat
  BY <1>11
<1>12. PICK e : e = Min(near)
  OBVIOUS
<1>13. e \in near /\ e \in 1 .. m /\ \A k \in near : e <= k
  BY <1>11, <1>12, <1>19, MinOf
<1>14. Min(near \cup {m + 1}) = e
  <2>1. PICK t : t = Min(near \cup {m + 1})
    OBVIOUS
  <2>2. t \in near \cup {m + 1} /\ \A k \in near \cup {m + 1} : t <= k
    <3>1. near \cup {m + 1} \subseteq Nat /\ near \cup {m + 1} # {}
      BY <1>11, <1>19
    <3> QED
      BY <2>1, <3>1, MinOf
  <2>3. t <= e /\ t \in Nat /\ e \in Nat /\ e <= m /\ m \in Nat
    BY <1>13, <1>19, <2>2
  <2>4. t \in near
    BY <2>2, <2>3
  <2> QED
    BY <1>13, <2>1, <2>3, <2>4
<1>15. Min(far \cup {n + 1}) = e
  <2>1. PICK t : t = Min(far \cup {n + 1})
    OBVIOUS
  <2>2. t \in far \cup {n + 1} /\ \A k \in far \cup {n + 1} : t <= k
    <3>1. far \cup {n + 1} \subseteq Nat /\ far \cup {n + 1} # {}
      BY <1>11, <1>19
    <3> QED
      BY <2>1, <3>1, MinOf
  <2>3. t <= e /\ t \in Nat
    BY <1>11, <1>13, <2>2
  <2>4. t \in near
    BY <1>3, <1>11, <1>13, <2>2, <2>3
  <2> QED
    BY <1>13, <2>1, <2>3, <2>4, <1>11
<1>16. Extract(p, short) = {short[k] : k \in s .. e - 1}
  BY <1>2, <1>5, <1>6, <1>14 DEF Extract, near
<1>17. Extract(p, long) = {long[k] : k \in s .. e - 1}
  BY <1>3, <1>9, <1>10, <1>15 DEF Extract, far
<1>18. \A k \in s .. e - 1 : short[k] = long[k]
  <2>1. \A k \in s .. e - 1 : k \in 1 .. m
    BY <1>8, <1>13
  <2> QED
    BY <1>4, <2>1
<1>20. PICK span : span = s .. e - 1
  OBVIOUS
<1>21. {short[k] : k \in span} = {long[k] : k \in span}
  BY <1>18, <1>20
<1> QED
  BY <1>16, <1>17, <1>20, <1>21

\* An act with a fragment designated to the article has no heading of its text.
LEMMA DesignatedIsNotCut ==
    ASSUME NEW p \in Shapes, NEW n \in Nat, n <= Len(p), NEW m \in 0 .. n, NamedIn(p, n) # {}
    PROVE  Nexts(p, LinesOf(p, m)) = {}
<1>0. m \in Nat /\ m <= Len(p) /\ Len(p) \in Nat
  <2>1. Len(p) \in Nat
    BY LenProperties DEF Shapes
  <2> QED
    BY <2>1
<1>1. PICK f \in NamedIn(p, n) : TRUE
  OBVIOUS
<1>2. f \in Places /\ f[1] \in Nat /\ f[1] < n /\ f[2] \in DOMAIN p[f[1] + 1] /\ p[f[1] + 1][f[2]].segment = 1
  BY <1>1 DEF NamedIn, Places
<1>3. PICK u \in 0 .. Len(p) - 1 : u = f[1] /\ u + 1 \in 1 .. Len(p)
  BY <1>0, <1>2
<1>4. ASSUME p \in Seq(Seq(Written)) PROVE FALSE
  <2>1. p[u + 1] \in Seq(Written)
    BY <1>3, <1>4, ElementOfSeq
  <2>2. PICK page \in Seq(Written) : page = p[u + 1]
    BY <2>1
  <2>3. page[f[2]] \in Written
    BY <1>2, <1>3, <2>2
  <2> QED
    BY <1>2, <1>3, <2>2, <2>3 DEF Written
<1>5. p \in Seq(Seq(Designated))
  BY <1>4 DEF Shapes, ArticlePages
<1>6. ASSUME NEW at \in PlacesOf(p, m) PROVE LineAt(p, at) = 0
  <2>1. at \in Places /\ at[1] \in Nat /\ at[1] < m /\ at[2] \in DOMAIN p[at[1] + 1]
    BY DEF PlacesOf, Places
  <2>2. PICK v : v = at[1] + 1 /\ v \in 1 .. Len(p)
    BY <1>0, <2>1
  <2>3. PICK page \in Seq(Designated) : page = p[v]
    BY <1>5, <2>2, ElementOfSeq
  <2>4. page[at[2]] \in Designated
    BY <2>1, <2>2, <2>3
  <2> QED
    BY <2>2, <2>3, <2>4 DEF LineAt, Designated
<1>7. PICK lines \in Seq(PlacesOf(p, m)) : lines = LinesOf(p, m)
  BY <1>0, LinesAreTyped
<1>8. \A k \in DOMAIN lines : LineAt(p, lines[k]) = 0
  BY <1>6, <1>7
<1> QED
  BY <1>7, <1>8 DEF Nexts, Headings

-----------------------------------------------------------------------------
(* What is told of an article at the end.                                  *)
WholeOf(a) ==
    LET all == UNION {{u} \X DOMAIN a.pages[u + 1] : u \in 0 .. articlePages(a) - 1}
        named == {at \in all : Fragment(a, at).segment = a.label}
        first == CHOOSE at \in named : \A b \in named : at[1] < b[1] \/ (at[1] = b[1] /\ at[2] <= b[2])
        mine == {at \in named : Fragment(a, at).above = Fragment(a, first).above}
    IN  IF named = {} THEN articleText(a) = extractArticle(a, articlePages(a)).text
        ELSE /\ articleText(a) \subseteq mine
             /\ (\A u \in Min(pagesWith(mine)) .. Max(pagesWith(mine)) : u \in pagesWith(mine)) => articleText(a) = mine

WholeIf(text, named, mine, cut) ==
    IF named = {} THEN text = cut
    ELSE /\ text \subseteq mine
         /\ (\A u \in Min(pagesWith(mine)) .. Max(pagesWith(mine)) : u \in pagesWith(mine)) => text = mine

FirstOf(named) == CHOOSE at \in named : \A b \in named : NoLater(at, b)

LEMMA PagesReadAre ==
    ASSUME NEW p \in Shapes, NEW a \in ReadingOf(p)
    PROVE  articlePages(a) \in Nat /\ articlePages(a) <= Len(p)
<1>1. Len(p) \in Nat /\ ArticleCap \in Nat /\ a.pages = p
  BY SectionAssumption, LenProperties DEF Shapes, ReadingOf
<1>2. {Len(p), ArticleCap} \subseteq Nat /\ {Len(p), ArticleCap} # {}
  BY <1>1
<1>3. PICK n : n = Min({Len(p), ArticleCap})
  OBVIOUS
<1>4. n \in {Len(p), ArticleCap} /\ \A y \in {Len(p), ArticleCap} : n <= y
  BY <1>2, <1>3, MinOf
<1> QED
  BY <1>1, <1>3, <1>4 DEF articlePages

LEMMA WholeUnfolds ==
    ASSUME NEW p \in Shapes, NEW a \in ReadingOf(p), NEW n \in Nat, n = articlePages(a), n <= Len(p),
           NEW named, named = NamedIn(p, n), NEW first, first = FirstOf(named)
    PROVE  WholeOf(a) <=> WholeIf(articleText(a), named, {at \in named : p[at[1] + 1][at[2]].above = p[first[1] + 1][first[2]].above},
                                  Extract(p, LinesOf(p, n)))
<1> DEFINE all == UNION {{u} \X DOMAIN a.pages[u + 1] : u \in 0 .. articlePages(a) - 1}
           named0 == {at \in all : Fragment(a, at).segment = a.label}
           first0 == CHOOSE at \in named0 : \A b \in named0 : at[1] < b[1] \/ (at[1] = b[1] /\ at[2] <= b[2])
           mine0 == {at \in named0 : Fragment(a, at).above = Fragment(a, first0).above}
           mine == {at \in named : p[at[1] + 1][at[2]].above = p[first[1] + 1][first[2]].above}
<1>1. WholeOf(a) <=> WholeIf(articleText(a), named0, mine0, extractArticle(a, articlePages(a)).text)
  BY DEF WholeOf, WholeIf
<1>2. a.pages = p /\ a.label = 1
  BY DEF ReadingOf
<1>3. \A at : Fragment(a, at) = p[at[1] + 1][at[2]]
  BY <1>2 DEF Fragment
<1>4. all = PlacesOf(p, n)
  <2>1. ASSUME NEW at \in all PROVE at \in PlacesOf(p, n)
    <3>1. PICK u \in 0 .. n - 1 : at \in {u} \X DOMAIN p[u + 1]
      BY <1>2, <2>1
    <3>2. u \in Nat /\ u < n /\ u \in 0 .. Len(p) - 1
      <4>1. Len(p) \in Nat
        BY LenProperties DEF Shapes
      <4> QED
        BY <4>1
    <3>3. \A i \in DOMAIN p[u + 1] : i \in Nat
      BY <3>2, LinesAre
    <3>4. PICK i \in DOMAIN p[u + 1] : at = <<u, i>>
      BY <3>1
    <3> QED
      BY <3>2, <3>3, <3>4 DEF PlacesOf, Places
  <2>2. ASSUME NEW at \in PlacesOf(p, n) PROVE at \in all
    <3>1. at = <<at[1], at[2]>> /\ at[1] \in Nat /\ at[1] < n /\ at[2] \in DOMAIN p[at[1] + 1]
      BY DEF PlacesOf, Places
    <3>2. PICK u \in 0 .. n - 1 : u = at[1]
      BY <3>1
    <3>3. at \in {u} \X DOMAIN p[u + 1]
      BY <3>1, <3>2
    <3> QED
      BY <1>2, <3>3
  <2> HIDE DEF all
  <2> QED
    BY <2>1, <2>2
<1> HIDE DEF all
<1>5. named0 = named
  BY <1>2, <1>3, <1>4 DEF NamedIn, PlacesOf
<1> HIDE DEF named0
<1>6. first0 = first
  BY <1>5 DEF FirstOf, NoLater
<1> HIDE DEF first0
<1>7. mine0 = mine
  BY <1>3, <1>5, <1>6
<1> HIDE DEF mine0, mine
<1>8. extractArticle(a, articlePages(a)).text = Extract(p, LinesOf(p, n))
  BY <1>2, ExtractIs
<1> QED
  BY <1>1, <1>5, <1>7, <1>8 DEF mine

LEMMA FirstIsFirst ==
    ASSUME NEW p, NEW n, NEW f, FirstIn(p, n, f)
    PROVE  FirstOf(NamedIn(p, n)) = f
<1> DEFINE named == NamedIn(p, n)
<1>1. named \subseteq Places /\ f \in named /\ \A b \in named : NoLater(f, b)
  BY DEF NamedIn, FirstIn
<1> HIDE DEF named
<1>2. PICK g : g = FirstOf(named)
  OBVIOUS
<1>3. g \in named /\ \A b \in named : NoLater(g, b)
  BY <1>1, <1>2 DEF FirstOf
<1>4. NoLater(f, g) /\ NoLater(g, f) /\ f \in Places /\ g \in Places
  BY <1>1, <1>3
<1>5. f[1] = g[1] /\ f[2] = g[2]
  BY <1>4 DEF NoLater, Places
<1>6. f = <<f[1], f[2]>> /\ g = <<g[1], g[2]>>
  BY <1>4 DEF Places
<1>7. f = g
  BY <1>5, <1>6
<1> QED
  BY <1>2, <1>7 DEF named

-----------------------------------------------------------------------------
LEMMA NoneIsWhole ==
    ASSUME NEW p \in Shapes, NEW a \in ReadingOf(p), NEW n \in Nat, n = articlePages(a), n <= Len(p),
           NamedIn(p, n) = {}, articleText(a) = Extract(p, LinesOf(p, n))
    PROVE  WholeOf(a)
<1>1. PICK named : named = NamedIn(p, n)
  OBVIOUS
<1>2. PICK first : first = FirstOf(named)
  OBVIOUS
<1>3. PICK mine : mine = {at \in named : p[at[1] + 1][at[2]].above = p[first[1] + 1][first[2]].above}
  OBVIOUS
<1>4. WholeOf(a) <=> WholeIf(articleText(a), named, mine, Extract(p, LinesOf(p, n)))
  BY <1>1, <1>2, <1>3, WholeUnfolds
<1> QED
  BY <1>1, <1>4 DEF WholeIf

LEMMA SomeAreWhole ==
    ASSUME NEW p \in Shapes, NEW a \in ReadingOf(p), NEW n \in Nat, n = articlePages(a), n <= Len(p),
           NEW f, FirstIn(p, n, f), NEW u \in 0 .. n, f[1] < u, a.hits = PartIn(p, u, p[f[1] + 1][f[2]].above),
           u < n => \A b \in PartIn(p, n, p[f[1] + 1][f[2]].above) : b[1] # u
    PROVE  WholeOf(a)
<1>1. PICK named : named = NamedIn(p, n)
  OBVIOUS
<1>2. FirstOf(named) = f
  BY <1>1, FirstIsFirst
<1>3. PICK part : part = p[f[1] + 1][f[2]].above
  OBVIOUS
<1>4. PICK mine : mine = {at \in named : p[at[1] + 1][at[2]].above = part}
  OBVIOUS
<1>5. WholeOf(a) <=> WholeIf(articleText(a), named, mine, Extract(p, LinesOf(p, n)))
  BY <1>1, <1>2, <1>3, <1>4, WholeUnfolds
<1>6. f \in named /\ f \in Places /\ f[1] \in Nat /\ f[1] < n /\ f[2] \in DOMAIN p[f[1] + 1] /\ p[f[1] + 1][f[2]].segment = 1
  BY <1>1 DEF FirstIn, NamedIn, Places
<1>7. f \in mine /\ mine = PartIn(p, n, part)
  BY <1>1, <1>3, <1>4, <1>6 DEF PartIn
<1>8. a.hits = PartIn(p, u, part)
  BY <1>3
<1>9. f \in a.hits /\ a.hits \subseteq mine
  <2>1. u \in Nat /\ u <= n
    OBVIOUS
  <2>2. f \in NamedIn(p, u)
    BY <1>6 DEF NamedIn
  <2>3. \A at \in NamedIn(p, u) : at \in NamedIn(p, n)
    BY <2>1 DEF NamedIn, Places
  <2> QED
    BY <1>3, <1>7, <1>8, <2>2, <2>3 DEF PartIn
<1>10. articleText(a) = a.hits
  BY <1>9 DEF articleText
<1>11. \A at \in mine : at \in Places /\ at[1] \in Nat /\ at[1] < n
  BY <1>7 DEF PartIn, NamedIn, Places
<1>12. ASSUME \A v \in Min(pagesWith(mine)) .. Max(pagesWith(mine)) : v \in pagesWith(mine)
       PROVE  mine \subseteq a.hits
  <2>1. SUFFICES ASSUME NEW b \in mine, b \notin a.hits PROVE FALSE
    OBVIOUS
  <2>2. b[1] \in Nat /\ b[1] >= u /\ b[1] < n
    <3>1. b \in NamedIn(p, n) /\ p[b[1] + 1][b[2]].above = part
      BY <1>7 DEF PartIn
    <3>2. b[1] < u => b \in NamedIn(p, u)
      BY <3>1 DEF NamedIn
    <3> QED
      BY <1>8, <1>11, <2>1, <3>1, <3>2 DEF PartIn
  <2>3. u < n /\ b[1] # u
    BY <1>3, <1>7, <2>2
  <2>12. PICK with : with = pagesWith(mine)
    OBVIOUS
  <2>13. with = {at[1] : at \in mine}
    BY <2>12 DEF pagesWith
  <2>14. f[1] \in with /\ b[1] \in with
    BY <1>7, <2>13
  <2>15. \A y \in with : y \in Nat /\ y <= n
    BY <1>11, <2>13
  <2>4. with = pagesWith(mine) /\ with \subseteq Nat /\ f[1] \in with /\ b[1] \in with /\ \A y \in with : y <= n
    BY <2>12, <2>14, <2>15
  <2>5. PICK low : low = Min(with)
    OBVIOUS
  <2>6. PICK high : high = Max(with)
    OBVIOUS
  <2>7. low \in with /\ \A y \in with : low <= y
    BY <2>4, <2>5, MinOf
  <2>8. high \in with /\ \A y \in with : y <= high
    BY <2>4, <2>6, MaxOf
  <2>9. u \in low .. high
    BY <1>6, <2>2, <2>3, <2>4, <2>7, <2>8
  <2>10. u \in with
    BY <1>12, <2>4, <2>5, <2>6, <2>9
  <2>11. PICK at \in mine : at[1] = u
    BY <2>4, <2>10 DEF pagesWith
  <2> QED
    BY <1>3, <1>7, <2>3, <2>11
<1>13. ASSUME \A v \in Min(pagesWith(mine)) .. Max(pagesWith(mine)) : v \in pagesWith(mine)
       PROVE  articleText(a) = mine
  <2>1. mine \subseteq a.hits
    BY <1>12, <1>13
  <2> QED
    BY <1>9, <1>10, <2>1
<1>14. named # {} /\ articleText(a) \subseteq mine
  BY <1>6, <1>9, <1>10
<1>15. WholeIf(articleText(a), named, mine, Extract(p, LinesOf(p, n)))
  BY <1>13, <1>14 DEF WholeIf
<1> QED
  BY <1>5, <1>15

LEMMA ArticleEnds ==
    ASSUME NEW p \in Shapes, NEW a \in ReadingOf(p), NEW n \in Nat, n = articlePages(a), n <= Len(p)
    PROVE  /\ StoppedAt(p, n, a.hits) => WholeOf(a)
           /\ a.next = n /\ TakenUpTo(p, n, n, a.hits, a.above) => WholeOf(a)
           /\ a.next \in 0 .. n /\ a.hits = {} /\ extractArticle(a, a.next).closed => WholeOf(a)
<1>0. a.pages = p /\ a.label = 1
  BY DEF ReadingOf
<1>1. ASSUME StoppedAt(p, n, a.hits) PROVE WholeOf(a)
  <2>1. PICK f \in Places, u \in 0 .. n - 1 :
            /\ FirstIn(p, n, f) /\ f[1] < u
            /\ a.hits = PartIn(p, u, p[f[1] + 1][f[2]].above)
            /\ \A b \in PartIn(p, n, p[f[1] + 1][f[2]].above) : b[1] # u
    BY <1>1 DEF StoppedAt
  <2>2. u \in 0 .. n
    OBVIOUS
  <2> QED
    BY <2>1, <2>2, SomeAreWhole
<1>2. ASSUME a.next = n, TakenUpTo(p, n, n, a.hits, a.above) PROVE WholeOf(a)
  <2>1. CASE NamedIn(p, n) = {} /\ a.hits = {}
    <3>1. articleText(a) = Extract(p, LinesOf(p, n))
      BY <1>0, <1>2, <2>1, ExtractIs DEF articleText
    <3> QED
      BY <2>1, <3>1, NoneIsWhole
  <2>2. CASE \E f \in Places : /\ FirstIn(p, n, f) /\ f[1] < n /\ a.above = p[f[1] + 1][f[2]].above /\ a.above # "none"
                               /\ a.hits = PartIn(p, n, a.above)
    <3>1. PICK f \in Places : /\ FirstIn(p, n, f) /\ f[1] < n /\ a.above = p[f[1] + 1][f[2]].above
                              /\ a.hits = PartIn(p, n, a.above)
      BY <2>2
    <3>2. n \in 0 .. n /\ ~(n < n)
      OBVIOUS
    <3> QED
      BY <3>1, <3>2, SomeAreWhole
  <2> QED
    BY <1>2, <2>1, <2>2 DEF TakenUpTo
<1>3. ASSUME a.next \in 0 .. n, a.hits = {}, extractArticle(a, a.next).closed PROVE WholeOf(a)
  <2>1. PICK m \in 0 .. n : m = a.next /\ m \in Nat
    BY <1>3
  <2>2. Nexts(p, LinesOf(p, m)) # {}
    BY <1>0, <1>3, <2>1, ExtractIs
  <2>3. NamedIn(p, n) = {}
    BY <2>2, DesignatedIsNotCut
  <2>4. articleText(a) = Extract(p, LinesOf(p, m))
    BY <1>0, <1>3, <2>1, ExtractIs DEF articleText
  <2>5. PICK rest \in Seq(Places) : LinesOf(p, n) = LinesOf(p, m) \o rest
    BY LinesGrow
  <2>6. LinesOf(p, m) \in Seq(Places)
    <3>1. m <= Len(p)
      <4>1. Len(p) \in Nat
        BY LenProperties DEF Shapes
      <4> QED
        BY <4>1
    <3>2. PICK lines \in Seq(PlacesOf(p, m)) : lines = LinesOf(p, m)
      BY <2>1, <3>1, LinesAreTyped
    <3>3. PlacesOf(p, m) \subseteq Places
      BY DEF PlacesOf
    <3>4. lines \in Seq(Places)
      BY <3>3
    <3> QED
      BY <3>2, <3>4
  <2>7. Extract(p, LinesOf(p, n)) = Extract(p, LinesOf(p, m))
    <3>1. PICK short \in Seq(Places) : short = LinesOf(p, m)
      BY <2>6
    <3>2. PICK long : long = short \o rest
      OBVIOUS
    <3> QED
      BY <2>2, <2>5, <3>1, <3>2, ClosedStays
  <2> QED
    BY <2>3, <2>4, <2>7, NoneIsWhole
<1> QED
  BY <1>1, <1>2, <1>3

-----------------------------------------------------------------------------
(* getArticle holds, while it reads, what it is designated to of the pages *)
(* taken; at its end it is whole.                                          *)
ArticleInv ==
    \/ article.st \in {"idle", "failed"}
    \/ article.st = "done" /\ WholeOf(article)
    \/ /\ article.st = "reading" /\ article.pages \in Shapes /\ article \in ReadingOf(article.pages)
       /\ article.next \in 0 .. articlePages(article)
       /\ TakenUpTo(article.pages, articlePages(article), article.next, article.hits, article.above)

LEMMA ArticleStarts == SectionInit => ArticleInv
<1> SUFFICES ASSUME SectionInit PROVE ArticleInv
  OBVIOUS
<1>1. CASE article = NoArticle
  BY <1>1 DEF NoArticle, ArticleInv
<1>2. CASE \E pages \in ArticleActs : article = [NoArticle EXCEPT !.pages = pages, !.label = 1, !.st = "reading"]
  <2>1. PICK p \in ArticleActs : article = [NoArticle EXCEPT !.pages = p, !.label = 1, !.st = "reading"]
    BY <1>2
  <2>2. ArticlePages(p)
    BY ArticleActsAreOK
  <2>3. p \in Shapes
    <3>1. ASSUME NEW X, X \subseteq ArticleLines, p \in Seq(Seq(X)) PROVE p \in Seq(Seq(ArticleLines))
      <4>1. \A s \in Seq(X) : s \in Seq(ArticleLines)
        BY <3>1
      <4> QED
        BY <3>1, <4>1
    <3>2. Written \subseteq ArticleLines /\ Designated \subseteq ArticleLines
      BY DEF Written, Designated
    <3>3. p \in Seq(Seq(ArticleLines))
      BY <2>2, <3>1, <3>2 DEF ArticlePages
    <3> QED
      BY <2>2, <3>3 DEF Shapes
  <2>4. article = [pages |-> p, label |-> 1, st |-> "reading", next |-> 0, hits |-> {}, above |-> "none",
                   runsOn |-> FALSE, designated |-> FALSE, closed |-> FALSE]
    BY <2>1 DEF NoArticle
  <2>5. article \in ReadingOf(p)
    BY <2>4 DEF ReadingOf, Aboves
  <2>6. articlePages(article) \in Nat
    BY <2>3, <2>5, PagesReadAre
  <2>7. NamedIn(p, 0) = {}
    BY DEF NamedIn, Places
  <2> QED
    BY <2>3, <2>4, <2>5, <2>6, <2>7 DEF ArticleInv, TakenUpTo
<1> QED
  BY <1>1, <1>2 DEF SectionInit

LEMMA BatchIs ==
    ASSUME NEW a, a.next \in Nat, NEW n \in Nat, a.next <= n, NEW upto, upto = Min({n, a.next + batchSize(a)})
    PROVE  upto \in a.next .. n
<1>1. batchSize(a) \in Nat
  BY SectionAssumption DEF batchSize
<1>2. {n, a.next + batchSize(a)} \subseteq Nat /\ {n, a.next + batchSize(a)} # {}
  BY <1>1
<1>3. upto \in {n, a.next + batchSize(a)} /\ \A y \in {n, a.next + batchSize(a)} : upto <= y
  BY <1>2, MinOf
<1> QED
  BY <1>1, <1>3

LEMMA RoundIsKept ==
    ASSUME ArticleInv, ArticleReads
    PROVE  ArticleInv'
<1>1. /\ article.st = "reading" /\ article.pages \in Shapes /\ article \in ReadingOf(article.pages)
      /\ article.next \in 0 .. articlePages(article)
      /\ TakenUpTo(article.pages, articlePages(article), article.next, article.hits, article.above)
  BY DEF ArticleReads, ArticleInv
<1>2. PICK p \in Shapes : p = article.pages
  BY <1>1
<1>3. PICK n \in Nat : n = articlePages(article) /\ n <= Len(p)
  BY <1>1, <1>2, PagesReadAre
<1>4. PICK upto : upto = Min({n, article.next + batchSize(article)})
  OBVIOUS
<1>5. article.next \in Nat /\ article.next <= n /\ upto \in article.next .. n
  <2>1. article.next \in Nat /\ article.next <= n
    BY <1>1, <1>3
  <2> QED
    BY <1>4, <2>1, BatchIs
<1>6. PICK m \in Nat : m = upto - article.next /\ article.next + m = upto /\ upto \in Nat /\ upto <= n
  BY <1>5
<1>7. PICK read : read = FoldLeft(TakePage, article, [k \in 1 .. m |-> article.next + k - 1])
  OBVIOUS
<1>8. article' = RoundEnds([read EXCEPT !.next = upto])
  BY <1>3, <1>4, <1>6, <1>7 DEF ArticleReads
<1>9. read \in ReadingOf(p) /\ Kept(p, n, read, upto)
  <2>1. Kept(p, n, article, article.next)
    BY <1>1, <1>2, <1>3 DEF Kept
  <2>2. article \in ReadingOf(p) /\ article.next + m <= n
    BY <1>1, <1>2, <1>6
  <2>3. read \in ReadingOf(p) /\ Kept(p, n, read, article.next + m)
    BY <1>3, <1>7, <2>1, <2>2, RoundKeeps
  <2> QED
    BY <1>6, <2>3
<1>10. PICK b : b = [read EXCEPT !.next = upto]
  OBVIOUS
<1>11. /\ b \in ReadingOf(p) /\ b.next = upto /\ b.hits = read.hits /\ b.above = read.above /\ b.st = read.st
       /\ b.pages = p
  BY <1>6, <1>9, <1>10 DEF ReadingOf
<1>12. Kept(p, n, b, upto) /\ n = articlePages(b)
  BY <1>2, <1>3, <1>9, <1>11 DEF Kept, articlePages
<1>13. PICK c : c = RoundEnds(b)
  OBVIOUS
<1>14. CASE ~(b.next = n \/ closedInText(b))
  <2>1. c = b
    BY <1>12, <1>13, <1>14 DEF RoundEnds
  <2>2. CASE b.st = "reading" /\ TakenUpTo(p, n, upto, b.hits, b.above)
    <3>1. article' = b /\ upto \in 0 .. n
      BY <1>6, <1>8, <1>10, <1>13, <2>1
    <3> QED
      BY <1>11, <1>12, <2>2, <3>1 DEF ArticleInv, articlePages
  <2>3. CASE b.st = "done" /\ StoppedAt(p, n, b.hits)
    <3>1. WholeOf(b)
      BY <1>3, <1>11, <1>12, <2>3, ArticleEnds
    <3>2. article' = b
      BY <1>8, <1>10, <1>13, <2>1
    <3> QED
      BY <2>3, <3>1, <3>2 DEF ArticleInv
  <2> QED
    BY <1>12, <2>2, <2>3 DEF Kept
<1>15. CASE b.next = n \/ closedInText(b)
  <2>0. closedInText(b) \in BOOLEAN
    BY DEF closedInText
  <2>1. c = [b EXCEPT !.st = "done", !.closed = closedInText(b)]
    BY <1>12, <1>13, <1>15 DEF RoundEnds
  <2>2. c \in ReadingOf(p) /\ c.st = "done" /\ c.hits = b.hits /\ c.next = upto /\ c.pages = p /\ c.above = b.above /\ c.label = b.label
    BY <1>11, <2>0, <2>1 DEF ReadingOf
  <2>3. n = articlePages(c)
    BY <1>11, <1>12, <2>2 DEF articlePages
  <2>4. ASSUME StoppedAt(p, n, b.hits) PROVE WholeOf(c)
    BY <1>3, <2>2, <2>3, <2>4, ArticleEnds
  <2>5. ASSUME TakenUpTo(p, n, upto, b.hits, b.above) PROVE WholeOf(c)
    <3>1. CASE upto = n
      <4>1. c.next = n /\ TakenUpTo(p, n, n, c.hits, c.above)
        BY <2>2, <2>5, <3>1
      <4> QED
        BY <1>3, <2>2, <2>3, <4>1, ArticleEnds
    <3>2. CASE closedInText(b)
      <4>1. c.hits = {} /\ extractArticle(b, b.next).closed
        BY <2>2, <3>2 DEF closedInText
      <4>2. extractArticle(c, c.next).closed = extractArticle(b, b.next).closed
        BY <1>11, <2>2 DEF extractArticle, Fragment
      <4>3. c.next \in 0 .. n
        BY <1>6, <2>2
      <4> QED
        BY <1>3, <2>2, <2>3, <4>1, <4>2, <4>3, ArticleEnds
    <3> QED
      BY <1>11, <1>15, <3>1, <3>2
  <2>6. WholeOf(c)
    BY <1>12, <2>4, <2>5 DEF Kept
  <2>7. article' = c
    BY <1>8, <1>10, <1>13
  <2> QED
    BY <2>2, <2>6, <2>7 DEF ArticleInv
<1> QED
  BY <1>14, <1>15

LEMMA ArticleSteps ==
    ASSUME ArticleInv, [SectionNext]_sectionVars
    PROVE  ArticleInv'
<1>1. CASE ArticleReads
  BY <1>1, RoundIsKept
<1>2. CASE ArticleFails
  <2>1. article.st = "reading" /\ article' = [article EXCEPT !.st = "failed"]
    BY <1>2 DEF ArticleFails
  <2>2. article \in ReadingOf(article.pages)
    BY <2>1 DEF ArticleInv
  <2>3. article'.st = "failed"
    BY <2>1, <2>2 DEF ReadingOf
  <2> QED
    BY <2>3 DEF ArticleInv
<1>3. CASE article' = article
  BY <1>3 DEF ArticleInv
<1> QED
  BY <1>1, <1>2, <1>3 DEF SectionNext, ScanReads, ScanFails, SparqlAnswers, ServedBySparql, ServedByScan, NotServed, sectionVars

(* An article of a treaty-like act is what is designated to it in the      *)
(* first part that has one, never another part's, and without a gap all of *)
(* it; in an act without designations it is the text from its heading to   *)
(* the next: for any pages and any fragments on them.                      *)
THEOREM ArticlesAreWhole == SectionSpec => []ArticleIsWhole
<1>1. SectionInit => ArticleInv
  BY ArticleStarts
<1>2. ArticleInv /\ [SectionNext]_sectionVars => ArticleInv'
  BY ArticleSteps
<1>3. ArticleInv => ArticleIsWhole
  <2>1. ArticleIsWhole <=> (article.st = "done" => WholeOf(article))
    BY DEF ArticleIsWhole, WholeOf
  <2> QED
    BY <2>1 DEF ArticleInv
<1> QED
  BY <1>1, <1>2, <1>3, PTL DEF SectionSpec

-----------------------------------------------------------------------------
LEMMA MostOf ==
    ASSUME NEW S, S \subseteq Nat, NEW n \in Nat, \A y \in S : y <= n
    PROVE  Most(S) \in Nat /\ (\A y \in S : y <= Most(S)) /\ Most(S) <= n /\ (S # {} => Most(S) \in S)
<1>1. CASE S = {}
  BY <1>1 DEF Most
<1>2. CASE S # {}
  <2>1. S \in SUBSET (0 .. n)
    OBVIOUS
  <2> DEFINE R == {n - y : y \in S}
  <2>8. \A y \in S : n - y \in Nat
    BY <2>1
  <2>2. R \subseteq Nat /\ R # {} /\ \A y \in S : n - y \in R
    BY <1>2, <2>8
  <2>3. \A r \in R : \E y \in S : r = n - y
    OBVIOUS
  <2> HIDE DEF R
  <2>4. PICK r \in R : \A q \in R : r <= q
    BY <2>2, LeastOfNats
  <2>5. PICK x \in S : r = n - x
    BY <2>3
  <2>6. \A y \in S : y <= x
    BY <2>2, <2>4, <2>5
  <2>7. Most(S) \in S /\ \A y \in S : y <= Most(S)
    BY <1>2, <2>6 DEF Most
  <2> QED
    BY <2>1, <2>7
<1> QED
  BY <1>1, <1>2

-----------------------------------------------------------------------------
(* interleave, turn by turn.                                               *)
TurnTaken(lists, out, k) ==
    LET list == lists[(k % Len(lists)) + 1]
        rank == (k \div Len(lists)) + 1
    IN  IF rank > Len(list) \/ list[rank] \in Items(out) THEN out ELSE Append(out, list[rank])

Longest(lists) == Most({Len(lists[i]) : i \in 1..Len(lists)})
TurnsTaken(lists, m, X) == [q \in Seq(X) \X (1 .. m) |-> TurnTaken(lists, q[1], q[2] - 1)]

\* Turn k is of list i and rank r.
LEMMA TurnOf ==
    ASSUME NEW n \in Nat, n > 0, NEW m \in Nat, NEW k \in 1 .. m * n
    PROVE  ((k - 1) % n) + 1 \in 1 .. n /\ (k - 1) \div n + 1 \in 1 .. m
<1>1. PICK j \in Nat : j = k - 1 /\ j < m * n
  <2>1. m * n \in Nat
    OBVIOUS
  <2> QED
    BY <2>1
<1>2. PICK q \in Int : q = j \div n
  OBVIOUS
<1>3. j % n \in 0 .. n - 1 /\ j = q * n + (j % n)
  BY <1>2
<1>4. q * n <= j /\ j < q * n + n
  BY <1>3
<1>5. q >= 0
  <2>1. SUFFICES ASSUME q <= -1 PROVE FALSE
    BY <2>1
  <2>2. q * n + n <= 0
    BY <2>1
  <2> QED
    BY <1>4, <2>2
<1>6. q < m
  <2>1. SUFFICES ASSUME q >= m PROVE FALSE
    BY <2>1
  <2>2. q * n >= m * n
    BY <2>1
  <2> QED
    BY <1>1, <1>4, <2>2
<1> QED
  BY <1>1, <1>2, <1>3, <1>5, <1>6

IsTurnOf(k, n, m, i, r) == k \in 1 .. m * n /\ k <= r * n /\ ((k - 1) % n) + 1 = i /\ (k - 1) \div n + 1 = r

LEMMA OfTurn ==
    ASSUME NEW n \in Nat, NEW m \in Nat, NEW i \in 1 .. n, NEW r \in 1 .. m
    PROVE  \E k : IsTurnOf(k, n, m, i, r)
<1>1. PICK q \in Nat : q = r - 1 /\ q + 1 <= m
  OBVIOUS
<1>2. PICK j \in Nat : j = i - 1 /\ j < n
  OBVIOUS
<1>3. q * n \in Nat /\ q * n + n <= m * n
  BY <1>1
<1>4. (q * n + j) % n = j /\ (q * n + j) \div n = q
  BY <1>2, <1>3
<1>5. PICK k : k = (r - 1) * n + i
  OBVIOUS
<1>6. r * n = q * n + n
  BY <1>1
<1>7. k = q * n + i
  BY <1>1, <1>5
<1>8. IsTurnOf(k, n, m, i, r)
  BY <1>1, <1>2, <1>3, <1>4, <1>6, <1>7 DEF IsTurnOf
<1> QED
  BY <1>8

-----------------------------------------------------------------------------
LEMMA QuotientIsNat ==
    ASSUME NEW k \in Nat, NEW n \in Nat, n > 0
    PROVE  k \div n \in Nat
<1>1. PICK q \in Int : q = k \div n
  OBVIOUS
<1>2. k % n \in 0 .. n - 1 /\ k = q * n + (k % n)
  BY <1>1
<1>3. q >= 0
  <2>1. SUFFICES ASSUME q <= -1 PROVE FALSE
    BY <2>1
  <2>2. q * n + n <= 0
    BY <2>1
  <2>3. q * n + n > k
    BY <1>2
  <2> QED
    BY <2>2, <2>3
<1> QED
  BY <1>1, <1>3

LEMMA TurnIsTyped ==
    ASSUME NEW X, NEW lists \in Seq(Seq(X)), Len(lists) > 0, NEW out \in Seq(X), NEW k \in Nat
    PROVE  TurnTaken(lists, out, k) \in Seq(X)
<1>1. PICK n \in Nat : n = Len(lists) /\ n > 0
  BY LenProperties
<1>2. PICK i : i = (k % n) + 1 /\ i \in 1 .. n
  BY <1>1
<1>3. PICK rank \in Nat : rank = (k \div Len(lists)) + 1 /\ rank >= 1
  <2>1. k \div n \in Nat
    BY <1>1, QuotientIsNat
  <2>2. PICK q \in Nat : q = k \div n
    BY <2>1
  <2>3. q + 1 \in Nat /\ q + 1 >= 1 /\ q + 1 = (k \div Len(lists)) + 1
    BY <1>1, <2>2
  <2> QED
    BY <2>3
<1>4. PICK list \in Seq(X) : list = lists[i]
  BY <1>1, <1>2, ElementOfSeq
<1>5. TurnTaken(lists, out, k) = IF rank > Len(list) \/ list[rank] \in Items(out) THEN out ELSE Append(out, list[rank])
  BY <1>1, <1>2, <1>3, <1>4 DEF TurnTaken
<1>6. ~(rank > Len(list)) => list[rank] \in X
  BY <1>3, <1>4
<1> QED
  BY <1>5, <1>6

LEMMA MergeUnfolds ==
    ASSUME NEW X, NEW lists \in Seq(Seq(X)), Len(lists) > 0, NEW m \in Nat, m = Longest(lists) * Len(lists)
    PROVE  SweepEnds(interleave(lists), m, <<>>, TurnsTaken(lists, m, X), Seq(X))
<1> DEFINE V == Seq(X)
           F == TurnsTaken(lists, m, X)
           turns == [k \in 1 .. m |-> k - 1]
           Solves(g) == g = [s \in SUBSET DOMAIN turns |->
                                IF s = {} THEN <<>> ELSE TurnTaken(lists, g[s \ {Highest(s)}], turns[Highest(s)])]
<1>0. DOMAIN turns = 1 .. m /\ (\A k \in 1 .. m : turns[k] = k - 1 /\ turns[k] \in Nat) /\ Len(turns) = m
  <2>1. turns \in Seq(Nat)
    <3>1. turns \in [1 .. m -> Nat]
      OBVIOUS
    <3> QED
      BY <3>1, FunctionsAreSeqs
  <2> QED
    BY <2>1
<1>1. F \in [V \X (1 .. m) -> V]
  <2>1. ASSUME NEW v \in V, NEW k \in 1 .. m PROVE TurnTaken(lists, v, k - 1) \in V
    BY <1>0, TurnIsTyped
  <2> HIDE DEF V
  <2> QED
    BY <2>1 DEF TurnsTaken, V
<1>2. <<>> \in V
  OBVIOUS
<1>3. \A v \in V, k \in 1 .. m : F[<<v, k>>] = TurnTaken(lists, v, turns[k])
  BY <1>0 DEF TurnsTaken
<1>4. interleave(lists) = FoldLeft(LAMBDA out, k : TurnTaken(lists, out, k), <<>>, turns)
  BY DEF interleave, TurnTaken, Longest
<1> HIDE DEF V, F
<1>5. PICK g \in [SUBSET (1 .. m) -> V] : FoldsAlong(g, m, <<>>, F)
  BY <1>1, <1>2, FoldExists
<1> HIDE DEF turns
<1>6. ASSUME NEW s \in SUBSET (1 .. m)
      PROVE  g[s] = IF s = {} THEN <<>> ELSE TurnTaken(lists, g[s \ {Highest(s)}], turns[Highest(s)])
  <2>1. CASE s # {}
    <3>1. Highest(s) \in 1 .. m /\ g[s \ {Highest(s)}] \in V
      BY <1>5, <2>1, HighestOf
    <3>2. g[s] = F[<<g[s \ {Highest(s)}], Highest(s)>>]
      BY <1>5, <2>1 DEF FoldsAlong
    <3> QED
      BY <1>3, <2>1, <3>1, <3>2
  <2> QED
    BY <1>5, <2>1 DEF FoldsAlong
<1>7. Solves(g)
  BY <1>0, <1>5, <1>6
<1>8. Solves(CHOOSE x : Solves(x))
  <2>1. \E x : Solves(x)
    BY <1>7
  <2> HIDE DEF Solves
  <2> QED
    BY <2>1
<1>9. interleave(lists) = (CHOOSE x : Solves(x))[1 .. m]
  BY <1>0, <1>4 DEF FoldLeft, MapThenFoldSet, Highest, Max
<1>10. ASSUME NEW x, Solves(x), NEW k \in 1 .. m, x[1 .. k - 1] \in V PROVE x[1 .. k] = F[<<x[1 .. k - 1], k>>]
  <2>1. 1 .. k \in SUBSET (1 .. m) /\ 1 .. k # {} /\ Highest(1 .. k) = k /\ (1 .. k) \ {k} = 1 .. k - 1
    BY FoldOfInterval
  <2>0. \A s \in SUBSET (1 .. m) : x[s] = IF s = {} THEN <<>> ELSE TurnTaken(lists, x[s \ {Highest(s)}], turns[Highest(s)])
    BY <1>0, <1>10
  <2>2. x[1 .. k] = TurnTaken(lists, x[1 .. k - 1], turns[k])
    BY <2>0, <2>1
  <2> QED
    BY <1>3, <1>10, <2>2
<1>11. ASSUME NEW x, Solves(x) PROVE x[{}] = <<>>
  BY <1>11
<1> DEFINE w == CHOOSE x : Solves(x)
<1> HIDE DEF w
<1>12. Solves(w) /\ interleave(lists) = w[1 .. m]
  BY <1>8, <1>9 DEF w
<1> HIDE DEF Solves
<1>13. SweepEnds(interleave(lists), m, <<>>, F, V)
  <2>1. FoldStep(w, m, <<>>, F, V)
    BY <1>10, <1>11, <1>12 DEF FoldStep
  <2>2. PICK result : result = w[1 .. m]
    OBVIOUS
  <2>3. SweepEnds(result, m, <<>>, F, V)
    BY <1>1, <1>2, <2>1, <2>2, StepsOfFold
  <2> QED
    BY <1>12, <2>2, <2>3
<1> QED
  BY <1>13 DEF V, F

-----------------------------------------------------------------------------
MergedBy(lists, h, m, X) ==
    /\ m \in Nat /\ h \in [0 .. m -> Seq(X)] /\ h[0] = <<>>
    /\ \A k \in 1 .. m : h[k] = TurnTaken(lists, h[k - 1], k - 1)

LEMMA LongestIs ==
    ASSUME NEW X, NEW lists \in Seq(Seq(X))
    PROVE  /\ Longest(lists) \in Nat /\ \A i \in 1 .. Len(lists) : Len(lists[i]) \in Nat /\ Len(lists[i]) <= Longest(lists)
           /\ Len(lists) > 0 => \E i \in 1 .. Len(lists) : Len(lists[i]) = Longest(lists)
<1>1. PICK n \in Nat : n = Len(lists) /\ \A i \in 1 .. n : lists[i] \in Seq(X)
  BY LenProperties, ElementOfSeq
<1>2. \A i \in 1 .. n : Len(lists[i]) \in Nat
  BY <1>1, LenProperties
<1> DEFINE S == {Len(lists[i]) : i \in 1 .. n}
           G == {k \in 0 .. n : \E b \in Nat : \A i \in 1 .. k : Len(lists[i]) <= b}
<1>3. 0 \in G
  OBVIOUS
<1>4. ASSUME NEW k \in 1 .. n, k - 1 \in G PROVE k \in G
  <2>1. PICK b \in Nat : \A i \in 1 .. k - 1 : Len(lists[i]) <= b
    BY <1>4
  <2>2. PICK c \in Nat : c = Len(lists[k]) + b
    BY <1>2
  <2>3. \A i \in 1 .. k : Len(lists[i]) <= c
    BY <1>2, <2>1, <2>2
  <2>4. k \in 0 .. n
    OBVIOUS
  <2>5. \E d \in Nat : \A i \in 1 .. k : Len(lists[i]) <= d
    BY <2>2, <2>3
  <2> QED
    BY <2>4, <2>5
<1> HIDE DEF G
<1>5. \A k \in 0 .. n : k \in G
  BY <1>3, <1>4, UpTo
<1>6. S \subseteq Nat /\ \E b \in Nat : \A y \in S : y <= b
  <2>1. n \in G
    BY <1>5
  <2>2. PICK b \in Nat : \A i \in 1 .. n : Len(lists[i]) <= b
    BY <2>1 DEF G
  <2>3. \A y \in S : y \in Nat /\ y <= b
    BY <1>2, <2>2
  <2> QED
    BY <2>3
<1>7. \A i \in 1 .. n : Len(lists[i]) \in S
  OBVIOUS
<1>8. n > 0 => S # {}
  <2>1. n > 0 => 1 \in 1 .. n
    OBVIOUS
  <2> QED
    BY <1>7, <2>1
<1>9. \A y \in S : \E i \in 1 .. n : y = Len(lists[i])
  OBVIOUS
<1>10. S = {Len(lists[i]) : i \in 1 .. Len(lists)}
  BY <1>1
<1> HIDE DEF S
<1>11. PICK b \in Nat : \A y \in S : y <= b
  BY <1>6
<1>12. Most(S) \in Nat /\ (\A y \in S : y <= Most(S)) /\ (S # {} => Most(S) \in S)
  BY <1>6, <1>11, MostOf
<1>13. Longest(lists) = Most(S)
  BY <1>10 DEF Longest
<1> QED
  BY <1>1, <1>2, <1>7, <1>8, <1>9, <1>12, <1>13

LEMMA MergeSteps ==
    ASSUME NEW X, NEW lists \in Seq(Seq(X)), Len(lists) > 0
    PROVE  \E h : MergedBy(lists, h, Longest(lists) * Len(lists), X) /\ h[Longest(lists) * Len(lists)] = interleave(lists)
<1>1. PICK m \in Nat : m = Longest(lists) * Len(lists)
  BY LongestIs, LenProperties
<1>2. PICK h : SweepsTo(h, m, <<>>, TurnsTaken(lists, m, X), Seq(X)) /\ h[m] = interleave(lists)
  BY <1>1, MergeUnfolds DEF SweepEnds
<1>3. ASSUME NEW k \in 1 .. m PROVE h[k] = TurnTaken(lists, h[k - 1], k - 1)
  <2>1. h[k - 1] \in Seq(X) /\ h[k] = TurnsTaken(lists, m, X)[<<h[k - 1], k>>]
    BY <1>2 DEF SweepsTo
  <2> QED
    BY <2>1 DEF TurnsTaken
<1>4. MergedBy(lists, h, m, X)
  BY <1>2, <1>3 DEF MergedBy, SweepsTo
<1> QED
  BY <1>1, <1>2, <1>4

\* The merge only grows, and holds what its turns brought.
LEMMA MergeGrows ==
    ASSUME NEW X, NEW lists \in Seq(Seq(X)), Len(lists) > 0, NEW h, NEW m, MergedBy(lists, h, m, X), NEW k \in 0 .. m
    PROVE  /\ Len(h[k]) \in Nat /\ Len(h[m]) \in Nat /\ Len(h[k]) <= Len(h[m])
           /\ \A i \in 1 .. Len(h[k]) : h[m][i] = h[k][i]
<1>1. m \in Nat /\ h \in [0 .. m -> Seq(X)]
  BY DEF MergedBy
<1>2. ASSUME NEW j \in 1 .. m, NEW i \in DOMAIN h[j - 1] PROVE i \in DOMAIN h[j] /\ h[j][i] = h[j - 1][i]
  <2>1. PICK old \in Seq(X) : old = h[j - 1]
    BY <1>1
  <2>2. h[j] = TurnTaken(lists, old, j - 1)
    BY <2>1 DEF MergedBy
  <2>3. h[j] \in Seq(X)
    BY <1>1
  <2>4. h[j] = old \/ \E x : h[j] = Append(old, x)
    BY <2>2 DEF TurnTaken
  <2>5. ASSUME NEW x, h[j] = Append(old, x) PROVE i \in DOMAIN h[j] /\ h[j][i] = old[i]
    <3>1. PICK Y : Y = X \cup {x}
      OBVIOUS
    <3>2. old \in Seq(Y) /\ x \in Y
      BY <3>1
    <3> QED
      BY <1>2, <2>1, <2>5, <3>2, AppendProperties
  <2> QED
    BY <1>2, <2>1, <2>4, <2>5
<1>3. ASSUME NEW i \in DOMAIN h[k] PROVE i \in DOMAIN h[m] /\ h[m][i] = h[k][i]
  <2> DEFINE G == {j \in 0 .. m : k <= j => i \in DOMAIN h[j] /\ h[j][i] = h[k][i]}
  <2>1. 0 \in G
    BY <1>1, <1>3
  <2>2. ASSUME NEW j \in 1 .. m, j - 1 \in G PROVE j \in G
    <3>1. CASE k <= j - 1
      <4>1. i \in DOMAIN h[j - 1] /\ h[j - 1][i] = h[k][i]
        BY <2>2, <3>1
      <4> QED
        BY <1>2, <4>1
    <3>2. CASE ~(k <= j - 1)
      BY <1>3, <3>2
    <3> QED
      BY <3>1, <3>2
  <2> HIDE DEF G
  <2>3. \A j \in 0 .. m : j \in G
    BY <1>1, <2>1, <2>2, UpTo
  <2>4. m \in G /\ k <= m
    BY <1>1, <2>3
  <2> QED
    BY <2>4 DEF G
<1>4. /\ h[k] \in Seq(X) /\ h[m] \in Seq(X)
  BY <1>1
<1>5. Len(h[k]) \in Nat /\ Len(h[m]) \in Nat /\ DOMAIN h[k] = 1 .. Len(h[k]) /\ DOMAIN h[m] = 1 .. Len(h[m])
  BY <1>4, LenProperties
<1>6. Len(h[k]) <= Len(h[m])
  <2>1. CASE Len(h[k]) = 0
    BY <1>5, <2>1
  <2>2. CASE Len(h[k]) > 0
    <3>1. PICK i : i = Len(h[k]) /\ i \in DOMAIN h[k]
      BY <1>5, <2>2
    <3>2. i \in DOMAIN h[m]
      BY <1>3, <3>1
    <3> QED
      BY <1>5, <3>1, <3>2
  <2> QED
    BY <1>5, <2>1, <2>2
<1> QED
  BY <1>3, <1>5, <1>6

-----------------------------------------------------------------------------
(* Lists read as far as a page needs.                                      *)
Cut(lists, rows) == [i \in DOMAIN lists |-> Slice(lists[i], 0, rows)]

\* What Array.slice gives within a list.
IsSliceOf(t, s, from, to, X) ==
    t \in Seq(X) /\ Len(t) = to - from /\ \A i \in 1 .. to - from : t[i] = s[from + i]

LEMMA SliceOf ==
    ASSUME NEW X, NEW s \in Seq(X), NEW from \in Nat, NEW to \in Nat, from <= to, to <= Len(s)
    PROVE  IsSliceOf(Slice(s, from, to), s, from, to, X)
<1>1. PICK n \in Nat : n = Len(s)
  BY LenProperties
<1>2. Lower(to, Len(s)) = to
  BY <1>1 DEF Lower
<1>3. Slice(s, from, to) = SubSeq(s, from + 1, to)
  BY <1>2 DEF Slice
<1>4. from + 1 \in 1 .. Len(s) + 1 /\ to \in (from + 1) - 1 .. Len(s)
  BY <1>1
<1>5. PICK low : low = from + 1
  OBVIOUS
<1>6. /\ SubSeq(s, low, to) \in Seq(X) /\ Len(SubSeq(s, low, to)) = to - low + 1
      /\ \A i \in 1 .. to - low + 1 : SubSeq(s, low, to)[i] = s[low + i - 1]
  BY <1>4, <1>5, SubSeqProperties
<1>7. to - low + 1 = to - from
  BY <1>5
<1>8. \A i \in 1 .. to - from : low + i - 1 = from + i
  BY <1>5
<1> QED
  BY <1>3, <1>5, <1>6, <1>7, <1>8 DEF IsSliceOf

\* The first rows of a list, or all of it.
IsHead(t, s, rows, X) ==
    LET low == Lower(rows, Len(s))
    IN  /\ t \in Seq(X) /\ Len(t) = low /\ low \in Nat /\ low <= rows /\ low <= Len(s)
        /\ Len(s) <= rows => t = s
        /\ \A i \in 1 .. low : t[i] = s[i]

LEMMA HeadOf ==
    ASSUME NEW X, NEW s \in Seq(X), NEW rows \in Nat
    PROVE  IsHead(Slice(s, 0, rows), s, rows, X)
<1>1. PICK n \in Nat : n = Len(s)
  BY LenProperties
<1>2. PICK to \in Nat : to = Lower(rows, Len(s)) /\ to <= rows /\ to <= n /\ (n <= rows => to = n)
  BY <1>1 DEF Lower
<1>3. Slice(s, 0, rows) = Slice(s, 0, to)
  BY <1>1, <1>2 DEF Slice, Lower
<1>4. PICK t : t = Slice(s, 0, to)
  OBVIOUS
<1>5. t \in Seq(X) /\ Len(t) = to /\ \A i \in 1 .. to : t[i] = s[i]
  <2>1. PICK from \in Nat : from = 0
    OBVIOUS
  <2>2. from <= to /\ to <= Len(s)
    BY <1>1, <1>2, <2>1
  <2>3. IsSliceOf(Slice(s, from, to), s, from, to, X)
    BY <2>2, SliceOf
  <2>4. \A i \in 1 .. to - from : t[i] = s[from + i]
    BY <1>4, <2>1, <2>3 DEF IsSliceOf
  <2> QED
    BY <1>4, <2>1, <2>3, <2>4 DEF IsSliceOf
<1>6. n <= rows => t = s
  BY <1>1, <1>2, <1>5, SeqEqual
<1> QED
  BY <1>1, <1>2, <1>3, <1>4, <1>5, <1>6 DEF IsHead

LEMMA CutIs ==
    ASSUME NEW X, NEW lists \in Seq(Seq(X)), NEW rows \in Nat
    PROVE  /\ Cut(lists, rows) \in Seq(Seq(X)) /\ Len(Cut(lists, rows)) = Len(lists)
           /\ \A i \in 1 .. Len(lists) : Cut(lists, rows)[i] = Slice(lists[i], 0, rows)
           /\ (\A i \in 1 .. Len(lists) : Len(lists[i]) <= rows) => Cut(lists, rows) = lists
<1>1. PICK n \in Nat : n = Len(lists) /\ DOMAIN lists = 1 .. n /\ \A i \in 1 .. n : lists[i] \in Seq(X)
  BY LenProperties, ElementOfSeq
<1>2. PICK c : c = Cut(lists, rows)
  OBVIOUS
<1>3. c = [i \in 1 .. n |-> Slice(lists[i], 0, rows)]
  BY <1>1, <1>2 DEF Cut
<1>4. \A i \in 1 .. n : Slice(lists[i], 0, rows) \in Seq(X) /\ (Len(lists[i]) <= rows => Slice(lists[i], 0, rows) = lists[i])
  BY <1>1, HeadOf DEF IsHead
<1>5. PICK W : W = Seq(X)
  OBVIOUS
<1>6. c \in [1 .. n -> W]
  BY <1>3, <1>4, <1>5
<1>7. c \in Seq(W) /\ Len(c) = n
  BY <1>6, FunctionsAreSeqs
<1>8. ASSUME \A i \in 1 .. n : Len(lists[i]) <= rows PROVE c = lists
  <2>1. \A i \in 1 .. n : c[i] = lists[i]
    BY <1>3, <1>4, <1>8
  <2>2. lists \in Seq(W)
    BY <1>5
  <2> QED
    BY <1>1, <1>7, <2>1, <2>2, SeqEqual
<1> QED
  BY <1>1, <1>2, <1>3, <1>5, <1>7, <1>8

-----------------------------------------------------------------------------
\* The merge of what was read is the beginning of the merge of it all.
LEMMA CutMergesFirst ==
    ASSUME NEW X, NEW lists \in Seq(Seq(X)), Len(lists) > 0, NEW rows \in Nat,
           NEW cut, cut = Cut(lists, rows), NEW h, NEW m, MergedBy(lists, h, m, X), m = Longest(lists) * Len(lists),
           NEW g, NEW l, MergedBy(cut, g, l, X), l = Longest(cut) * Len(cut)
    PROVE  l \in 0 .. m /\ g[l] = h[l]
<1>1. PICK n \in Nat : n = Len(lists) /\ n > 0 /\ \A i \in 1 .. n : lists[i] \in Seq(X)
  BY LenProperties, ElementOfSeq
<1>2. cut \in Seq(Seq(X)) /\ Len(cut) = n /\ \A i \in 1 .. n : cut[i] = Slice(lists[i], 0, rows)
  BY <1>1, CutIs
<1>3. ASSUME NEW i \in 1 .. n
      PROVE  /\ Len(cut[i]) \in Nat /\ Len(lists[i]) \in Nat /\ Len(cut[i]) <= rows /\ Len(cut[i]) <= Len(lists[i])
             /\ Len(cut[i]) = Lower(rows, Len(lists[i]))
             /\ \A r \in 1 .. Len(cut[i]) : cut[i][r] = lists[i][r]
  <2>1. PICK s \in Seq(X) : s = lists[i]
    BY <1>1
  <2>2. PICK t : t = Slice(s, 0, rows) /\ t = cut[i]
    BY <1>2, <2>1
  <2>3. /\ Len(t) = Lower(rows, Len(s)) /\ Len(t) \in Nat /\ Len(t) <= rows /\ Len(t) <= Len(s)
        /\ \A r \in 1 .. Len(t) : t[r] = s[r]
    <3>1. /\ Len(t) = Lower(rows, Len(s)) /\ Lower(rows, Len(s)) \in Nat /\ Lower(rows, Len(s)) <= rows
          /\ Lower(rows, Len(s)) <= Len(s) /\ \A r \in 1 .. Lower(rows, Len(s)) : t[r] = s[r]
      <4>1. IsHead(t, s, rows, X)
        BY <2>2, HeadOf
      <4> QED
        BY <4>1 DEF IsHead
    <3>2. PICK low : low = Lower(rows, Len(s))
      OBVIOUS
    <3> QED
      BY <3>1, <3>2
  <2> QED
    BY <2>1, <2>2, <2>3, LenProperties
<1>4. PICK a \in Nat : a = Longest(lists) /\ \A i \in 1 .. n : Len(lists[i]) <= a
  BY <1>1, LongestIs
<1>5. PICK b \in Nat : b = Longest(cut) /\ b <= a /\ b <= rows
  <2>1. Longest(cut) \in Nat /\ \E i \in 1 .. n : Len(cut[i]) = Longest(cut)
    BY <1>1, <1>2, LongestIs
  <2>2. PICK i \in 1 .. n : Len(cut[i]) = Longest(cut)
    BY <2>1
  <2>3. Len(cut[i]) \in Nat /\ Len(lists[i]) \in Nat /\ Len(cut[i]) <= rows /\ Len(cut[i]) <= Len(lists[i]) /\ Len(lists[i]) <= a
    BY <1>3, <1>4, <2>2
  <2> QED
    BY <2>1, <2>2, <2>3
<1>6. m = a * n /\ l = b * n /\ m \in Nat /\ l \in Nat /\ l <= m
  <2>1. b * n <= a * n
    BY <1>5
  <2>2. a * n \in Nat /\ b * n \in Nat
    OBVIOUS
  <2>3. m = a * n /\ l = b * n
    BY <1>1, <1>2, <1>4, <1>5, Zenon
  <2> QED
    BY <2>1, <2>2, <2>3, Zenon
<1>7. ASSUME NEW k \in 1 .. l, NEW out PROVE TurnTaken(cut, out, k - 1) = TurnTaken(lists, out, k - 1)
  <2>1. PICK i \in 1 .. n : i = ((k - 1) % n) + 1
    BY <1>1, <1>6, TurnOf
  <2>2. PICK rank \in 1 .. b : rank = (k - 1) \div n + 1
    BY <1>1, <1>6, TurnOf
  <2>3. PICK s : s = lists[i]
    OBVIOUS
  <2>4. PICK t : t = cut[i]
    OBVIOUS
  <2>5. Len(t) = Lower(rows, Len(s)) /\ Len(t) \in Nat /\ Len(s) \in Nat /\ \A r \in 1 .. Len(t) : t[r] = s[r]
    BY <1>3, <2>3, <2>4
  <2>6. rank > Len(t) <=> rank > Len(s)
    BY <1>5, <2>5 DEF Lower
  <2>7. rank <= Len(t) => t[rank] = s[rank]
    BY <2>5
  <2>8. TurnTaken(cut, out, k - 1) = IF rank > Len(t) \/ t[rank] \in Items(out) THEN out ELSE Append(out, t[rank])
    BY <1>2, <2>1, <2>2, <2>4 DEF TurnTaken
  <2>9. TurnTaken(lists, out, k - 1) = IF rank > Len(s) \/ s[rank] \in Items(out) THEN out ELSE Append(out, s[rank])
    BY <1>1, <2>1, <2>2, <2>3 DEF TurnTaken
  <2>10. rank > Len(s) \/ t[rank] = s[rank]
    BY <2>5, <2>6, <2>7
  <2> QED
    BY <2>6, <2>8, <2>9, <2>10
<1> DEFINE G == {k \in 0 .. l : g[k] = h[k]}
<1>8. 0 \in G
  BY <1>6 DEF MergedBy
<1>9. ASSUME NEW k \in 1 .. l, k - 1 \in G PROVE k \in G
  <2>1. k \in 1 .. m /\ g[k - 1] = h[k - 1]
    BY <1>6, <1>9
  <2>2. g[k] = TurnTaken(cut, g[k - 1], k - 1) /\ h[k] = TurnTaken(lists, h[k - 1], k - 1)
    BY <2>1 DEF MergedBy
  <2>3. g[k] = h[k]
    BY <1>7, <2>1, <2>2
  <2> QED
    BY <2>3
<1> HIDE DEF G
<1>10. \A k \in 0 .. l : k \in G
  BY <1>6, <1>8, <1>9, UpTo
<1>11. l \in G
  BY <1>6, <1>10
<1> QED
  BY <1>6, <1>11 DEF G

-----------------------------------------------------------------------------
\* A turn adds at most one item, and none that is there.
Distinct(s) == \A i, j \in DOMAIN s : s[i] = s[j] => i = j

LEMMA MergeIsLean ==
    ASSUME NEW X, NEW lists \in Seq(Seq(X)), Len(lists) > 0, NEW h, NEW m, MergedBy(lists, h, m, X), NEW k \in 0 .. m
    PROVE  Len(h[k]) \in Nat /\ Len(h[k]) <= k /\ Distinct(h[k])
<1> DEFINE G == {j \in 0 .. m : Len(h[j]) <= j /\ Distinct(h[j])}
<1>1. m \in Nat /\ h[0] = <<>> /\ \A j \in 0 .. m : h[j] \in Seq(X)
  BY DEF MergedBy
<1>2. 0 \in G
  BY <1>1 DEF Distinct
<1>3. ASSUME NEW j \in 1 .. m, j - 1 \in G PROVE j \in G
  <2>1. PICK old \in Seq(X) : old = h[j - 1] /\ Len(old) <= j - 1 /\ Distinct(old)
    BY <1>1, <1>3
  <2>2. h[j] = TurnTaken(lists, old, j - 1) /\ h[j] \in Seq(X)
    BY <1>1, <2>1 DEF MergedBy
  <2>3. h[j] = old \/ \E x : h[j] = Append(old, x) /\ x \notin Items(old)
    BY <2>2 DEF TurnTaken
  <2>4. CASE h[j] = old
    BY <2>1, <2>4, LenProperties
  <2>5. ASSUME NEW x, h[j] = Append(old, x), x \notin Items(old) PROVE j \in G
    <3>1. PICK Y : Y = X \cup {x}
      OBVIOUS
    <3>2. old \in Seq(Y) /\ x \in Y
      BY <3>1
    <3>3. PICK new \in Seq(Y) : new = Append(old, x)
      BY <3>2, AppendProperties
    <3>4. PICK n \in Nat : n = Len(old) /\ n <= j - 1 /\ DOMAIN old = 1 .. n
      BY <2>1, LenProperties
    <3>5. Len(new) = n + 1 /\ DOMAIN new = 1 .. n + 1 /\ new[n + 1] = x /\ \A i \in 1 .. n : new[i] = old[i]
      BY <3>2, <3>3, <3>4, AppendProperties, LenProperties
    <3>6. \A i \in 1 .. n : old[i] # x
      BY <2>5, <3>4 DEF Items
    <3>7. ASSUME NEW i \in 1 .. n + 1, NEW l \in 1 .. n + 1, new[i] = new[l] PROVE i = l
      <4>0. \A e, o \in 1 .. n : old[e] = old[o] => e = o
        BY <2>1, <3>4 DEF Distinct
      <4>1. CASE i \in 1 .. n /\ l \in 1 .. n
        <5>1. old[i] = old[l]
          BY <3>5, <3>7, <4>1
        <5> QED
          BY <4>0, <4>1, <5>1
      <4>2. CASE i = n + 1 /\ l \in 1 .. n
        <5>1. old[l] = x
          BY <3>5, <3>7, <4>2
        <5> QED
          BY <3>6, <4>2, <5>1
      <4>3. CASE l = n + 1 /\ i \in 1 .. n
        <5>1. old[i] = x
          BY <3>5, <3>7, <4>3
        <5> QED
          BY <3>6, <4>3, <5>1
      <4>4. i \in 1 .. n \/ i = n + 1
        BY ONLY n \in Nat, i \in 1 .. n + 1
      <4>5. l \in 1 .. n \/ l = n + 1
        BY ONLY n \in Nat, l \in 1 .. n + 1
      <4>6. i = n + 1 /\ l = n + 1 => i = l
        OBVIOUS
      <4> QED
        BY ONLY <4>1, <4>2, <4>3, <4>4, <4>5, <4>6
    <3>8. Distinct(new)
      BY <3>5, <3>7 DEF Distinct
    <3>9. Len(new) <= j /\ h[j] = new /\ j \in 0 .. m
      BY <1>1, <2>5, <3>3, <3>4, <3>5
    <3> QED
      BY <3>8, <3>9
  <2> QED
    BY <2>3, <2>4, <2>5
<1> HIDE DEF G
<1>4. \A j \in 0 .. m : j \in G
  BY <1>1, <1>2, <1>3, UpTo
<1> QED
  BY <1>1, <1>4, LenProperties DEF G

StandsEarly(merge, lists, i, r) ==
    \E p \in 1 .. Len(merge) : p <= r * Len(lists) /\ merge[p] = lists[i][r]

\* An item of rank r is among the first n * r of the merge of n lists.
LEMMA MergeBrings ==
    ASSUME NEW X, NEW lists \in Seq(Seq(X)), Len(lists) > 0, NEW h, NEW m, MergedBy(lists, h, m, X),
           m = Longest(lists) * Len(lists), NEW i \in 1 .. Len(lists), NEW r \in 1 .. Len(lists[i])
    PROVE  StandsEarly(h[m], lists, i, r)
<1>1. PICK n \in Nat : n = Len(lists) /\ n > 0 /\ i \in 1 .. n
  BY LenProperties
<1>2. PICK s \in Seq(X) : s = lists[i]
  BY ElementOfSeq
<1>3. PICK a \in Nat : a = Longest(lists) /\ Len(s) <= a /\ Len(s) \in Nat
  BY <1>2, LongestIs, LenProperties
<1>4. r \in 1 .. a /\ r \in 1 .. Len(s)
  BY <1>2, <1>3
<1>5. PICK k : k \in 1 .. a * n /\ k <= r * n /\ ((k - 1) % n) + 1 = i /\ (k - 1) \div n + 1 = r
  <2>1. n \in Nat /\ a \in Nat /\ i \in 1 .. n /\ r \in 1 .. a
    BY <1>1, <1>4
  <2>2. PICK k : IsTurnOf(k, n, a, i, r)
    BY <2>1, OfTurn
  <2> QED
    BY <2>2 DEF IsTurnOf
<1>6. k \in 1 .. m /\ m \in Nat /\ k \in 0 .. m /\ k - 1 \in 0 .. m
  <2>1. PICK b \in Nat : b = a * n
    BY <1>1
  <2>2. m = b /\ k \in 1 .. b
    BY <1>1, <1>3, <1>5, <2>1
  <2> QED
    BY <2>1, <2>2
<1>7. PICK old \in Seq(X) : old = h[k - 1]
  BY <1>6 DEF MergedBy
<1>8. h[k] = TurnTaken(lists, old, k - 1)
  BY <1>6, <1>7 DEF MergedBy
<1>9. h[k] = IF r > Len(s) \/ s[r] \in Items(old) THEN old ELSE Append(old, s[r])
  BY <1>1, <1>2, <1>5, <1>8 DEF TurnTaken
<1>10. PICK new \in Seq(X) : new = h[k]
  BY <1>6 DEF MergedBy
<1>11. \E p \in 1 .. Len(new) : new[p] = s[r]
  <2>1. CASE s[r] \in Items(old)
    <3>1. new = old
      BY <1>4, <1>9, <1>10, <2>1
    <3>2. PICK p \in DOMAIN old : old[p] = s[r]
      BY <2>1 DEF Items
    <3>3. DOMAIN old = 1 .. Len(old)
      BY LenProperties
    <3> QED
      BY <3>1, <3>2, <3>3
  <2>2. CASE s[r] \notin Items(old)
    <3>1. new = Append(old, s[r]) /\ s[r] \in X
      <4>1. ~(r > Len(s)) /\ s[r] \in X
        BY <1>3, <1>4, ElementOfSeq
      <4> QED
        BY <1>9, <1>10, <2>2, <4>1, Zenon
    <3>2. Len(new) = Len(old) + 1 /\ new[Len(old) + 1] = s[r] /\ Len(old) \in Nat
      BY <3>1, AppendProperties, LenProperties
    <3>3. Len(old) + 1 \in 1 .. Len(new)
      BY <3>2
    <3> QED
      BY <3>2, <3>3
  <2> QED
    BY <2>1, <2>2
<1>12. PICK p \in 1 .. Len(new) : new[p] = s[r]
  BY <1>11
<1>13. h[m] \in Seq(X) /\ Len(h[m]) \in Nat /\ Len(new) \in Nat /\ Len(new) <= Len(h[m]) /\ h[m][p] = new[p]
  <2>1. h[m] \in Seq(X)
    BY <1>6 DEF MergedBy
  <2> QED
    BY <1>6, <1>10, <2>1, MergeGrows
<1>14. Len(new) <= k /\ k \in Nat
  BY <1>6, <1>10, MergeIsLean
<1>15. p <= r * n /\ p \in 1 .. Len(h[m])
  <2>1. PICK b : b = r * n
    OBVIOUS
  <2>2. b \in Nat
    BY <1>1, <1>4, <2>1
  <2>3. k <= b
    BY <1>5, <2>1
  <2> QED
    BY <1>13, <1>14, <2>1, <2>2, <2>3
<1> QED
  BY <1>1, <1>2, <1>12, <1>13, <1>15 DEF StandsEarly

-----------------------------------------------------------------------------
\* What stands in a list is at most as many, and as many when nothing stands twice.
LEMMA ItemsCount ==
    ASSUME NEW X, NEW s \in Seq(X)
    PROVE  /\ IsFiniteSet(Items(s)) /\ Cardinality(Items(s)) \in Nat /\ Cardinality(Items(s)) <= Len(s)
           /\ Distinct(s) => Cardinality(Items(s)) = Len(s)
<1>1. PICK n \in Nat : n = Len(s) /\ DOMAIN s = 1 .. n /\ s = [i \in 1 .. n |-> s[i]]
  BY LenProperties
<1>2. IsFiniteSet(1 .. n) /\ Cardinality(1 .. n) = n
  BY UpToCounts
<1>3. PICK D : D = 1 .. n
  OBVIOUS
<1>4. PICK f : f = s
  OBVIOUS
<1>5. IsFiniteSet(D) /\ Cardinality(D) = n /\ DOMAIN f = D /\ f = [i \in D |-> f[i]]
  BY <1>1, <1>2, <1>3, <1>4
<1>6. /\ IsFiniteSet({f[i] : i \in D}) /\ Cardinality({f[i] : i \in D}) \in Nat
      /\ Cardinality({f[i] : i \in D}) <= Cardinality(D)
      /\ (\A x, y \in D : f[x] = f[y] => x = y) => Cardinality({f[i] : i \in D}) = Cardinality(D)
  BY ONLY <1>5, ImageCounts, SMTT(60)
<1>7. Items(s) = {f[i] : i \in D}
  BY <1>1, <1>3, <1>4 DEF Items
<1>8. Distinct(s) => \A x, y \in D : f[x] = f[y] => x = y
  BY <1>1, <1>3, <1>4 DEF Distinct
<1> QED
  BY <1>1, <1>5, <1>6, <1>7, <1>8

LEMMA DistinctFits ==
    ASSUME NEW X, NEW s \in Seq(X), NEW t \in Seq(X), Distinct(s), Items(s) \subseteq Items(t)
    PROVE  Len(s) <= Len(t)
<1>1. IsFiniteSet(Items(t)) /\ Cardinality(Items(t)) \in Nat /\ Cardinality(Items(t)) <= Len(t)
  BY ItemsCount
<1>2. Cardinality(Items(s)) = Len(s) /\ Cardinality(Items(s)) \in Nat
  BY ItemsCount
<1>3. Cardinality(Items(s)) <= Cardinality(Items(t))
  BY <1>1, FS_Subset
<1> QED
  BY <1>1, <1>2, <1>3, LenProperties

GoesOn(lists, rows, end) ==
    \/ Len(interleave(Cut(lists, rows))) > end
    \/ \E i \in 1 .. Len(lists) : Len(lists[i]) > Len(Cut(lists, rows)[i])

IsPageOf(lists, rows, start, end) ==
    /\ Slice(interleave(Cut(lists, rows)), start, end) = Slice(interleave(lists), start, end)
    /\ Len(interleave(lists)) \in Nat /\ Len(interleave(Cut(lists, rows))) \in Nat
    /\ GoesOn(lists, rows, end) <=> Len(interleave(lists)) > end

\* A page of the merge of what was read is the page of the merge of it all, and there is
\* more behind it exactly when the merge says so or a list was not read to its end.
LEMMA PageOfTheMerge ==
    ASSUME NEW X, NEW lists \in Seq(Seq(X)), Len(lists) > 0, \A i \in 1 .. Len(lists) : Distinct(lists[i]),
           NEW rows \in Nat, NEW start \in Nat, NEW end \in Nat, start <= end, end <= rows
    PROVE  IsPageOf(lists, rows, start, end)
<1>1. PICK n \in Nat : n = Len(lists) /\ n > 0 /\ \A i \in 1 .. n : lists[i] \in Seq(X)
  BY LenProperties, ElementOfSeq
<1>2. PICK cut \in Seq(Seq(X)) : /\ cut = Cut(lists, rows) /\ Len(cut) = n
                                 /\ \A i \in 1 .. n : cut[i] = Slice(lists[i], 0, rows)
                                 /\ (\A i \in 1 .. n : Len(lists[i]) <= rows) => cut = lists
  BY <1>1, CutIs
<1>3. PICK h, m : MergedBy(lists, h, m, X) /\ m = Longest(lists) * Len(lists) /\ h[m] = interleave(lists)
  BY <1>1, MergeSteps
<1>4. PICK g, l : MergedBy(cut, g, l, X) /\ l = Longest(cut) * Len(cut) /\ g[l] = interleave(cut)
  BY <1>1, <1>2, MergeSteps
<1>5. l \in 0 .. m /\ g[l] = h[l]
  BY <1>1, <1>2, <1>3, <1>4, CutMergesFirst
<1>6. PICK M \in Seq(X) : M = interleave(lists) /\ M = h[m]
  BY <1>3, <1>5 DEF MergedBy
<1>7. PICK P \in Seq(X) : P = interleave(cut) /\ P = h[l]
  BY <1>3, <1>4, <1>5 DEF MergedBy
<1>8. Len(P) \in Nat /\ Len(M) \in Nat /\ Len(P) <= Len(M) /\ \A i \in 1 .. Len(P) : M[i] = P[i]
  BY <1>1, <1>3, <1>5, <1>6, <1>7, MergeGrows
<1>9. ASSUME NEW i \in 1 .. n
      PROVE  /\ Len(cut[i]) \in Nat /\ Len(lists[i]) \in Nat /\ Len(cut[i]) = Lower(rows, Len(lists[i]))
             /\ Distinct(cut[i]) /\ Items(cut[i]) \subseteq Items(P) /\ Len(cut[i]) <= Len(P)
             /\ Len(lists[i]) <= Len(M)
  <2>1. PICK s \in Seq(X) : s = lists[i] /\ Distinct(s)
    BY <1>1
  <2>2. PICK t \in Seq(X) : t = cut[i] /\ IsHead(t, s, rows, X)
    <3>1. IsHead(Slice(s, 0, rows), s, rows, X)
      BY <2>1, HeadOf
    <3> QED
      BY <1>2, <2>1, <3>1 DEF IsHead
  <2>3. /\ Len(t) = Lower(rows, Len(s)) /\ Len(t) \in Nat /\ Len(t) <= rows /\ Len(t) <= Len(s)
        /\ \A r \in 1 .. Len(t) : t[r] = s[r]
    <3>1. PICK low : low = Lower(rows, Len(s))
      OBVIOUS
    <3> QED
      BY <2>2, <3>1 DEF IsHead
  <2>4. Len(s) \in Nat /\ DOMAIN s = 1 .. Len(s) /\ DOMAIN t = 1 .. Len(t)
    BY LenProperties
  <2>5. Distinct(t)
    <3>1. \A a, b \in 1 .. Len(s) : s[a] = s[b] => a = b
      BY <2>1, <2>4 DEF Distinct
    <3>2. \A a, b \in 1 .. Len(t) : t[a] = t[b] => a = b
      BY <2>3, <2>4, <3>1
    <3> QED
      BY <2>4, <3>2 DEF Distinct
  <2>6. Items(t) \subseteq Items(P)
    <3>1. ASSUME NEW r \in 1 .. Len(t) PROVE t[r] \in Items(P)
      <4>1. StandsEarly(g[l], cut, i, r)
        BY <1>1, <1>2, <1>4, <2>2, <3>1, MergeBrings
      <4>2. PICK p \in 1 .. Len(P) : P[p] = t[r]
        BY <1>5, <1>7, <2>2, <4>1 DEF StandsEarly
      <4>3. DOMAIN P = 1 .. Len(P)
        BY LenProperties
      <4> QED
        BY <4>2, <4>3 DEF Items
    <3> QED
      BY <2>4, <3>1 DEF Items
  <2>7. Items(s) \subseteq Items(M)
    <3>1. ASSUME NEW r \in 1 .. Len(s) PROVE s[r] \in Items(M)
      <4>1. StandsEarly(h[m], lists, i, r)
        BY <1>1, <1>3, <2>1, <3>1, MergeBrings
      <4>2. PICK p \in 1 .. Len(M) : M[p] = s[r]
        BY <1>6, <2>1, <4>1 DEF StandsEarly
      <4>3. DOMAIN M = 1 .. Len(M)
        BY LenProperties
      <4> QED
        BY <4>2, <4>3 DEF Items
    <3> QED
      BY <2>4, <3>1 DEF Items
  <2>8. Len(t) <= Len(P) /\ Len(s) <= Len(M)
    BY <2>1, <2>5, <2>6, <2>7, DistinctFits
  <2> QED
    BY <2>1, <2>2, <2>3, <2>4, <2>5, <2>6, <2>8
<1>10. CASE \A i \in 1 .. n : Len(lists[i]) <= rows
  <2>1. cut = lists /\ P = M
    BY <1>2, <1>6, <1>7, <1>10
  <2>2. \A i \in 1 .. n : ~(Len(lists[i]) > Len(cut[i]))
    BY <1>9, <2>1
  <2> QED
    BY <1>1, <1>2, <1>6, <1>7, <1>8, <2>1, <2>2 DEF IsPageOf, GoesOn
<1>11. CASE \E i \in 1 .. n : ~(Len(lists[i]) <= rows)
  <2>1. PICK i \in 1 .. n : ~(Len(lists[i]) <= rows)
    BY <1>11
  <2>2. Len(cut[i]) = rows /\ rows <= Len(P) /\ Len(lists[i]) > Len(cut[i]) /\ Len(M) > rows
    <3>1. PICK some \in Nat : some = Len(cut[i])
      BY <1>9, <2>1
    <3>2. PICK all \in Nat : all = Len(lists[i])
      BY <1>9, <2>1
    <3>3. some = Lower(rows, all) /\ some <= Len(P) /\ all <= Len(M)
      BY <1>9, <2>1, <3>1, <3>2
    <3>4. rows < all
      BY <2>1, <3>2
    <3>5. some = rows
      BY <3>3, <3>4 DEF Lower
    <3> QED
      BY <1>8, <3>1, <3>2, <3>3, <3>4, <3>5
  <2>3. Slice(P, start, end) = Slice(M, start, end)
    <3>1. IsSliceOf(Slice(P, start, end), P, start, end, X)
      BY <1>8, <2>2, SliceOf
    <3>2. IsSliceOf(Slice(M, start, end), M, start, end, X)
      BY <1>8, <2>2, SliceOf
    <3>3. \A j \in 1 .. end - start : M[start + j] = P[start + j]
      <4>1. \A j \in 1 .. end - start : start + j \in 1 .. Len(P)
        BY <1>8, <2>2
      <4> QED
        BY <1>8, <4>1
    <3> QED
      <4>1. PICK a : a = Slice(P, start, end)
        OBVIOUS
      <4>2. PICK b : b = Slice(M, start, end)
        OBVIOUS
      <4>3. a \in Seq(X) /\ b \in Seq(X) /\ Len(a) = Len(b) /\ \A j \in 1 .. Len(a) : a[j] = b[j]
        BY <3>1, <3>2, <3>3, <4>1, <4>2 DEF IsSliceOf
      <4> QED
        BY <4>1, <4>2, <4>3, SeqEqual
  <2>4. Len(M) > end
    BY <1>8, <2>2
  <2> QED
    BY <1>1, <1>2, <1>6, <1>7, <1>8, <2>1, <2>2, <2>3, <2>4 DEF IsPageOf, GoesOn
<1> QED
  BY <1>10, <1>11

-----------------------------------------------------------------------------
(* The merge of lists (interleave, of the search tools over the public     *)
(* sources) has every item of every list and nothing else, each once, and  *)
(* an item of rank r of one of n lists among its first n * r: whatever the *)
(* lists are, and however many.                                            *)
THEOREM MergeIsWhole ==
    ASSUME NEW X, NEW lists \in Seq(Seq(X)), Len(lists) > 0
    PROVE  /\ Distinct(interleave(lists))
           /\ Items(interleave(lists)) = UNION {Items(lists[i]) : i \in 1 .. Len(lists)}
           /\ \A i \in 1 .. Len(lists) : \A r \in 1 .. Len(lists[i]) :
                 lists[i][r] \in Items(Slice(interleave(lists), 0, r * Len(lists)))
<1>1. PICK n \in Nat : n = Len(lists) /\ n > 0 /\ DOMAIN lists = 1 .. n /\ \A i \in 1 .. n : lists[i] \in Seq(X)
  BY LenProperties, ElementOfSeq
<1>2. PICK Y : Y = UNION {Items(lists[i]) : i \in 1 .. n}
  OBVIOUS
<1>3. lists \in Seq(Seq(Y))
  <2>1. ASSUME NEW i \in 1 .. n PROVE lists[i] \in Seq(Y)
    <3>1. PICK s \in Seq(X) : s = lists[i]
      BY <1>1
    <3>2. PICK l \in Nat : l = Len(s) /\ DOMAIN s = 1 .. l /\ s = [r \in 1 .. l |-> s[r]]
      BY <3>1, LenProperties
    <3>3. \A r \in 1 .. l : s[r] \in Y
      BY <1>2, <3>1, <3>2 DEF Items
    <3>4. s \in [1 .. l -> Y]
      BY <3>2, <3>3
    <3> QED
      BY <3>1, <3>4, FunctionsAreSeqs
  <2>2. PICK W : W = Seq(Y)
    OBVIOUS
  <2>3. lists \in [1 .. n -> W]
    <3>1. lists = [i \in 1 .. n |-> lists[i]]
      BY <1>1
    <3> QED
      BY <2>1, <2>2, <3>1
  <2> QED
    BY <2>2, <2>3, FunctionsAreSeqs
<1>4. PICK h, m : MergedBy(lists, h, m, Y) /\ m = Longest(lists) * Len(lists) /\ h[m] = interleave(lists)
  BY <1>1, <1>3, MergeSteps
<1>5. PICK M \in Seq(Y) : M = h[m] /\ Distinct(M) /\ M = interleave(lists)
  <2>1. m \in 0 .. m /\ h[m] \in Seq(Y)
    BY <1>4 DEF MergedBy
  <2> QED
    BY <1>1, <1>3, <1>4, <2>1, MergeIsLean
<1>6. ASSUME NEW i \in 1 .. n, NEW r \in 1 .. Len(lists[i])
      PROVE  lists[i][r] \in Items(M) /\ lists[i][r] \in Items(Slice(M, 0, r * n))
  <2>1. StandsEarly(M, lists, i, r)
    BY <1>1, <1>3, <1>4, <1>5, MergeBrings
  <2>2. PICK p \in 1 .. Len(M) : p <= r * n /\ M[p] = lists[i][r]
    BY <1>1, <2>1 DEF StandsEarly
  <2>3. r \in Nat /\ n \in Nat
    BY <1>1, <1>6, LenProperties
  <2>4. PICK b \in Nat : b = r * n
    BY <2>3
  <2>5. IsHead(Slice(M, 0, b), M, b, Y)
    BY HeadOf
  <2>6. PICK t : t = Slice(M, 0, b)
    OBVIOUS
  <2>7. PICK low : low = Lower(b, Len(M))
    OBVIOUS
  <2>8. t \in Seq(Y) /\ Len(t) = low /\ low \in Nat /\ \A j \in 1 .. low : t[j] = M[j]
    BY <2>5, <2>6, <2>7 DEF IsHead
  <2>9. Len(M) \in Nat /\ DOMAIN M = 1 .. Len(M) /\ DOMAIN t = 1 .. Len(t)
    BY <2>8, LenProperties
  <2>10. p \in 1 .. low
    <3>1. p <= b /\ p \in 1 .. Len(M)
      BY <2>2, <2>4
    <3>2. PICK l \in Nat : l = Len(M)
      BY <2>9
    <3>3. low = IF b < l THEN b ELSE l
      BY <2>7, <3>2 DEF Lower
    <3>4. p \in Nat /\ 1 <= p /\ p <= l
      BY <3>1, <3>2
    <3>5. low \in Nat /\ p <= low
      BY <2>4, <3>1, <3>3, <3>4
    <3> QED
      BY <3>4, <3>5
  <2>11. p \in DOMAIN t /\ t[p] = lists[i][r] /\ p \in DOMAIN M
    BY <2>2, <2>8, <2>9, <2>10
  <2> QED
    BY <2>2, <2>4, <2>6, <2>11 DEF Items
<1>7. Items(M) = Y
  <2>1. Items(M) \subseteq Y
    BY LenProperties, ElementOfSeq DEF Items
  <2>2. ASSUME NEW x \in Y PROVE x \in Items(M)
    <3>1. PICK i \in 1 .. n : x \in Items(lists[i])
      BY <1>2
    <3>2. PICK s \in Seq(X) : s = lists[i]
      BY <1>1
    <3>3. PICK r \in 1 .. Len(s) : x = s[r]
      BY <3>1, <3>2, LenProperties DEF Items
    <3> QED
      BY <1>6, <3>2, <3>3
  <2> QED
    BY <2>1, <2>2
<1> QED
  BY <1>1, <1>2, <1>5, <1>6, <1>7

-----------------------------------------------------------------------------
\* The most hits a variant lists.
LEMMA MaxTotalIs ==
    ASSUME NEW X, NEW s, ListsOf(s) \in Seq(Seq(X))
    PROVE  maxTotal(s) \in Nat
<1>1. PICK lists : lists = ListsOf(s)
  OBVIOUS
<1>2. DOMAIN lists = 1 .. Len(lists)
  BY <1>1, LenProperties
<1>3. {Len(list) : list \in Items(lists)} = {Len(lists[i]) : i \in 1 .. Len(lists)}
  BY <1>2 DEF Items
<1>4. maxTotal(s) = Longest(lists)
  BY <1>1, <1>3 DEF maxTotal, Longest
<1> QED
  BY <1>1, <1>4, LongestIs

\* The rows of a variant that a page of us_search reads.
RowsFor(page) == IF page + 1 <= 2 THEN page + 1 ELSE 4 * CeilDiv(page + 1, 4)

IsCutFor(s, lists, page, rows) ==
    /\ rows \in Nat /\ page + 1 <= rows
    /\ [i \in DOMAIN lists |-> variantRows(s, lists[i], page)] = Cut(lists, rows)

LEMMA VariantsAreCut ==
    ASSUME NEW X, NEW s, NEW lists \in Seq(Seq(X)), NEW page \in Nat
    PROVE  \E rows : IsCutFor(s, lists, page, rows)
<1>1. PICK rows \in Nat : rows = RowsFor(page) /\ page + 1 <= rows
  BY DEF RowsFor, CeilDiv
<1>2. ASSUME NEW i \in DOMAIN lists PROVE variantRows(s, lists[i], page) = Slice(lists[i], 0, rows)
  <2>1. PICK list \in Seq(X) : list = lists[i]
    BY LenProperties, ElementOfSeq
  <2>2. PICK n \in Nat : n = Len(list)
    BY LenProperties
  <2>3. CASE s.known /\ n < page + 1
    <3>1. PICK need \in Nat : need = (IF n <= 2 THEN n ELSE 4 * CeilDiv(n, 4)) /\ n <= need
      BY DEF CeilDiv
    <3>2. variantRows(s, list, page) = Slice(list, 0, need)
      BY <2>2, <2>3, <3>1 DEF variantRows, Lower
    <3>3. n <= rows
      BY <1>1, <2>3
    <3>4. Slice(list, 0, need) = list /\ Slice(list, 0, rows) = list
      BY <2>2, <3>1, <3>3, HeadOf DEF IsHead
    <3> QED
      BY <2>1, <3>2, <3>4
  <2>4. CASE ~(s.known /\ n < page + 1)
    <3>1. (IF s.known THEN Lower(page + 1, Len(list)) ELSE page + 1) = page + 1
      BY <2>2, <2>4 DEF Lower
    <3> QED
      BY <1>1, <2>1, <3>1 DEF variantRows, RowsFor
  <2> QED
    BY <2>3, <2>4
<1> QED
  BY <1>1, <1>2 DEF Cut, IsCutFor

-----------------------------------------------------------------------------
(* Whoever pages through a search of several variants pages through one    *)
(* list, although every page merges longer lists than the one before: a    *)
(* page of us_search and of nss_search is the slice of the merge of all    *)
(* that the variants list, and says that there is more exactly when the    *)
(* merge goes on; a page of ns_search is the slice of the merge of what    *)
(* its window reaches.                                                     *)
THEOREM PagesAreOfOneMerge ==
    ASSUME NEW X, NEW s, Multi(s), ListsOf(s) \in Seq(Seq(X)), Len(ListsOf(s)) > 0,
           \A i \in 1 .. Len(ListsOf(s)) : Distinct(ListsOf(s)[i]), NEW page \in Nat
    PROVE  LET merge == interleave(ListsOf(s))
               end == IF page = 1 THEN 2 ELSE page + 1
           IN  /\ NalusPage(s, page).hits = Slice(merge, page, page + 1)
               /\ NalusPage(s, page).more <=> Len(merge) > page + 1
               /\ page > 0 =>
                     /\ NssPage(s, page).hits = Slice(merge, IF page = 1 THEN 0 ELSE page, end)
                     /\ NssPage(s, page).more <=> Len(merge) > end
               /\ NsWindow \in Nat /\ s.limit \in Nat =>
                     NsPage(s, page).hits = Slice(interleave(Cut(ListsOf(s), NsWindow)),
                                                  page * s.limit, page * s.limit + s.limit)
<1>1. PICK lists \in Seq(Seq(X)) : lists = ListsOf(s) /\ Len(lists) > 0 /\ \A i \in 1 .. Len(lists) : Distinct(lists[i])
  OBVIOUS
<1>2. PICK n \in Nat : n = Len(lists) /\ DOMAIN lists = 1 .. n
  BY LenProperties
<1>3. maxTotal(s) \in Nat
  BY MaxTotalIs
<1>4. PICK merge : merge = interleave(lists)
  OBVIOUS
<1>5. /\ NalusPage(s, page).hits = Slice(merge, page, page + 1)
      /\ NalusPage(s, page).more <=> Len(merge) > page + 1
  <2>1. PICK rows : IsCutFor(s, lists, page, rows)
    BY VariantsAreCut
  <2>2. PICK end \in Nat : end = page + 1 /\ page <= end
    OBVIOUS
  <2>3. PICK read : read = Cut(lists, rows)
    OBVIOUS
  <2>4. PICK shown : shown = Slice(interleave(read), page, page + 1)
    OBVIOUS
  <2>5. PICK more : more = (Len(interleave(read)) > page + 1 \/ \E i \in DOMAIN lists : Len(lists[i]) > Len(read[i]))
    OBVIOUS
  <2>6. PICK listed : listed = Len(interleave(read))
    OBVIOUS
  <2>7. [i \in DOMAIN lists |-> variantRows(s, lists[i], page)] = read
    BY <2>1, <2>3 DEF IsCutFor
  <2>8. NalusPage(s, page) =
          CASE shown # <<>> -> ToolPage(shown, more, "hits", 0)
            [] shown = <<>> /\ maxTotal(s) = 0 -> ToolPage(shown, more, "nothing", 0)
            [] shown = <<>> /\ maxTotal(s) > 0 -> ToolPage(shown, more, "past the end", IF listed = 0 THEN 0 ELSE listed - 1)
    BY <1>1, <2>4, <2>5, <2>6, <2>7, Zenon DEF NalusPage
  <2>9. NalusPage(s, page).hits = shown /\ NalusPage(s, page).more = more
    <3>0. maxTotal(s) = 0 \/ maxTotal(s) > 0
      BY <1>3
    <3>1. \E says, last : NalusPage(s, page) = ToolPage(shown, more, says, last)
      BY <2>8, <3>0
    <3> QED
      BY <3>1 DEF ToolPage
  <2>10. IsPageOf(lists, rows, page, end)
    <3>1. rows \in Nat /\ end <= rows
      BY <2>1, <2>2 DEF IsCutFor
    <3> QED
      BY <1>1, <2>2, <3>1, PageOfTheMerge
  <2>11. shown = Slice(merge, page, end) /\ (GoesOn(lists, rows, end) <=> Len(merge) > end)
    BY <1>4, <2>2, <2>3, <2>4, <2>10 DEF IsPageOf
  <2>12. more <=> GoesOn(lists, rows, end)
    BY <1>2, <2>2, <2>3, <2>5 DEF GoesOn
  <2> QED
    BY <2>2, <2>9, <2>11, <2>12
<1>6. ASSUME page > 0, NEW start, start = (IF page = 1 THEN 0 ELSE page), NEW end, end = (IF page = 1 THEN 2 ELSE page + 1)
      PROVE  /\ NssPage(s, page).hits = Slice(merge, start, end)
             /\ NssPage(s, page).more <=> Len(merge) > end
  <2>1. start \in Nat /\ end \in Nat /\ start <= end /\ end <= end
    BY <1>6
  <2>2. PICK read : read = Cut(lists, end)
    OBVIOUS
  <2>3. PICK shown : shown = Slice(interleave(read), start, end)
    OBVIOUS
  <2>4. PICK more : more = (Len(interleave(read)) > end \/ \E i \in DOMAIN lists : Len(lists[i]) > Len(read[i]))
    OBVIOUS
  <2>5. PICK listed : listed = Len(interleave(read))
    OBVIOUS
  <2>6. PICK from : from = IF page = 1 THEN 0 ELSE 2 + (page - 2)
    OBVIOUS
  <2>7. PICK to : to = IF page = 1 THEN 2 ELSE from + 1
    OBVIOUS
  <2>8. from = start /\ to = end
    BY <1>6, <2>6, <2>7
  <2>9. NssPage(s, page) =
          CASE shown # <<>> -> ToolPage(shown, more, "hits", 0)
            [] shown = <<>> /\ (page = 1 \/ listed = 0) -> ToolPage(shown, more, "nothing", 0)
            [] shown = <<>> /\ page > 1 /\ listed > 0 -> ToolPage(shown, more, "past the end", lastPage(s, listed))
    BY <1>1, <2>2, <2>3, <2>4, <2>5, <2>6, <2>7, <2>8, Zenon DEF NssPage, Cut
  <2>10. IsPageOf(lists, end, start, end)
    BY <1>1, <2>1, PageOfTheMerge
  <2>11. shown = Slice(merge, start, end) /\ (GoesOn(lists, end, end) <=> Len(merge) > end) /\ listed \in Nat
    BY <1>4, <2>2, <2>3, <2>5, <2>10 DEF IsPageOf
  <2>12. more <=> GoesOn(lists, end, end)
    BY <1>2, <2>2, <2>4 DEF GoesOn
  <2>13. NssPage(s, page).hits = shown /\ NssPage(s, page).more = more
    <3>1. page = 1 \/ page > 1
      BY <1>6
    <3>2. listed = 0 \/ listed > 0
      BY <2>11
    <3>3. \E says, last : NssPage(s, page) = ToolPage(shown, more, says, last)
      BY <2>9, <3>1, <3>2
    <3> QED
      BY <3>3 DEF ToolPage
  <2> QED
    BY <2>11, <2>12, <2>13
<1>7. ASSUME NsWindow \in Nat, s.limit \in Nat
      PROVE  NsPage(s, page).hits = Slice(interleave(Cut(lists, NsWindow)), page * s.limit, page * s.limit + s.limit)
  <2>1. PICK from \in Nat : from = page * s.limit
    BY <1>7
  <2>2. PICK to \in Nat : to = from + s.limit /\ from <= to
    <3>1. PICK limit \in Nat : limit = s.limit
      BY <1>7
    <3>2. from + limit \in Nat /\ from <= from + limit
      OBVIOUS
    <3> QED
      BY <3>1, <3>2
  <2>3. PICK window : window = Lower(to, NsWindow)
    OBVIOUS
  <2>4. NsPage(s, page).hits = Slice(interleave(Cut(lists, window)), from, to)
    BY <1>1, <2>1, <2>2, <2>3 DEF NsPage, ToolPage, Cut
  <2>5. CASE to < NsWindow
    <3>1. window = to
      BY <2>3, <2>5 DEF Lower
    <3>2. IsPageOf(lists, to, from, to)
      BY <1>1, <2>1, <2>2, PageOfTheMerge
    <3>3. to <= NsWindow
      BY <1>7, <2>2, <2>5
    <3>4. IsPageOf(lists, NsWindow, from, to)
      BY <1>1, <1>7, <2>1, <2>2, <3>3, PageOfTheMerge
    <3> QED
      BY <2>1, <2>2, <2>4, <3>1, <3>2, <3>4 DEF IsPageOf
  <2>6. CASE ~(to < NsWindow)
    <3>1. window = NsWindow
      BY <2>3, <2>6 DEF Lower
    <3> QED
      BY <2>1, <2>2, <2>4, <3>1
  <2> QED
    BY <2>5, <2>6
<1> QED
  BY <1>1, <1>4, <1>5, <1>6, <1>7
=============================================================================
