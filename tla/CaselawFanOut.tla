---------------------------- MODULE CaselawFanOut ----------------------------
(***************************************************************************)
(* cz_caselaw_search (src/mcp/tools/cz-caselaw.ts): two variants of a      *)
(* query in several courts at once, each court a lane with its own         *)
(* deadline, and previews of the leading hits, the first of which are read *)
(* before the slowest court has answered.                                  *)
(*                                                                         *)
(* A hit is named by its lane and a number; time is in steps of ten        *)
(* seconds, counted from the handler's start.                              *)
(***************************************************************************)
EXTENDS Naturals, FiniteSets, Sequences, SequencesExt

CONSTANTS
    FanLanes,          \* the courts searched, in the order of SOURCES
    SourceLimit,       \* per_source_limit
    NssDeadline, LaneDeadline, PreviewTime, FanBudget

\* At least one court, one hit per court; NSS has 30 s, the others 20, the call 51.
ASSUME FanAssumption ==
    /\ FanLanes \in Seq({"nss", "ns", "us", "sdeu"}) /\ FanLanes # <<>>
    /\ SourceLimit \in Nat \ {0} /\ PreviewTime \in Nat
    /\ LaneDeadline \in Nat /\ NssDeadline \in Nat /\ FanBudget \in Nat
    /\ LaneDeadline <= NssDeadline /\ NssDeadline <= FanBudget

VARIABLES
    fanCall,     \* what was asked for, and how much of the call's time is gone
    fanClock,
    lanes,       \* what each lane's search came to
    fetches,     \* previewFetches
    fanAnswer

fanVars == <<fanCall, fanClock, lanes, fetches, fanAnswer>>

Lanes == DOMAIN FanLanes
VariantAnswers == {[ok |-> FALSE, hits |-> <<>>]} \cup [ok : {TRUE}, hits : {<<>>, <<1, 2>>, <<2>>}]
Searching == [state |-> "searching", values |-> <<>>, hits |-> <<>>]
NoFetch == [state |-> "none", until |-> 0]
NoFanAnswer == [says |-> "nothing yet", items |-> <<>>, targets |-> {}]
FanHits == Lanes \X {1, 2}

Earlier(a, b) == IF a <= b THEN a ELSE b
Leading(list, n) == SubSeq(list, 1, Earlier(n, Len(list)))

Deadline(i) == IF FanLanes[i] = "nss" THEN NssDeadline ELSE LaneDeadline
\* The route ends the call by its arrival, and the handler may have started late.
CallEnd == FanBudget - fanCall.late
previewable(hit) == FanLanes[hit[1]] # "sdeu" \/ hit[2] # 2
PreviewEnd_ownTime(now) == now + PreviewTime
PreviewEnd(now) == Earlier(now + PreviewTime, CallEnd)

FanInit ==
    /\ fanCall \in [readTop : {1, 3}, late : {0, FanBudget - NssDeadline}]
    /\ fanClock = 0
    /\ lanes = [i \in Lanes |-> Searching]
    /\ fetches = [h \in FanHits |-> NoFetch]
    /\ fanAnswer = NoFanAnswer

\* Rank by rank over the variants, the first occurrence of a hit, as interleave does.
RoundRobin(a, b) ==
    LET ranks == FoldLeft(LAMBDA out, r : out \o SubSeq(a, r, Earlier(r, Len(a))) \o SubSeq(b, r, Earlier(r, Len(b))),
                          <<>>, <<1, 2>>)
    IN  FoldLeft(LAMBDA out, h : IF h \in ToSet(out) THEN out ELSE Append(out, h), <<>>, ranks)

previewText(hits, started) ==
    [h \in FanHits |->
        IF h \in hits /\ started[h] = NoFetch THEN [state |-> "reading", until |-> PreviewEnd(fanClock)]
        ELSE started[h]]

(* A lane's variants have all answered, failed or run out of time. Its     *)
(* leading hit is read at once where it can only become a target.          *)
LeadingHit_always(i, hits) == {<<i, hits[k]>> : k \in {n \in DOMAIN hits : n = 1 /\ previewable(<<i, hits[1]>>)}}
LeadingHit(i, hits) ==
    {<<i, hits[k]>> : k \in {n \in DOMAIN hits : n = 1 /\ i - 1 < fanCall.readTop /\ previewable(<<i, hits[1]>>)}}

LaneSettles(i) ==
    /\ lanes[i].state = "searching"
    /\ \E a \in {v \in VariantAnswers : v.hits # <<2>>}, b \in {v \in VariantAnswers : Len(v.hits) < 2} :
          LET hits == Leading(RoundRobin(a.hits, b.hits), SourceLimit)
          IN  /\ lanes' = [lanes EXCEPT ![i] =
                     [state |-> IF a.ok \/ b.ok THEN "ok" ELSE "failed", values |-> <<a, b>>, hits |-> hits]]
              /\ fetches' = previewText(LeadingHit(i, hits), fetches)
    /\ UNCHANGED <<fanCall, fanClock, fanAnswer>>

\* A preview arrives or fails, at the latest at its deadline; a failed one is left out.
PreviewEnds(h) ==
    /\ fetches[h].state = "reading"
    /\ fetches' = [fetches EXCEPT ![h] = [state |-> "over", until |-> 0]]
    /\ UNCHANGED <<fanCall, fanClock, lanes, fanAnswer>>

\* One hit per court in rotation.
Rotation(perLane) ==
    FoldLeft(LAMBDA out, k :
                LET i == ((k - 1) % Len(FanLanes)) + 1
                    rank == ((k - 1) \div Len(FanLanes)) + 1
                IN  IF rank <= Len(perLane[i]) THEN Append(out, <<i, perLane[i][rank]>>) ELSE out,
             <<>>, [k \in 1..(SourceLimit * Len(FanLanes)) |-> k])

EmptyLine_failedOnly(items) ==
    IF items # <<>> THEN "hits"
    ELSE IF \A i \in Lanes : lanes[i].state = "failed" THEN "no court answered"
    ELSE IF \E i \in Lanes : lanes[i].state = "failed" THEN "may still be there"
    ELSE "no hits in any court"
EmptyLine(items) ==
    IF items # <<>> THEN "hits"
    ELSE IF \A i \in Lanes : lanes[i].state = "failed" THEN "no court answered"
    ELSE IF \E i \in Lanes : \E v \in ToSet(lanes[i].values) : ~v.ok THEN "may still be there"
    ELSE "no hits in any court"

(* Every lane is done: the hits are merged and what is not being read yet  *)
(* of the leading ones is asked for.                                       *)
AllSettle ==
    /\ fanAnswer = NoFanAnswer
    /\ \A i \in Lanes : lanes[i].state # "searching"
    /\ LET items == Rotation([i \in Lanes |-> lanes[i].hits])
           targets == {h \in ToSet(Leading(items, fanCall.readTop)) : previewable(h)}
       IN  /\ fanAnswer' = [says |-> EmptyLine(items), items |-> items, targets |-> targets]
           /\ fetches' = previewText(targets, fetches)
    /\ UNCHANGED <<fanCall, fanClock, lanes>>

FanDone == fanAnswer # NoFanAnswer /\ \A h \in fanAnswer.targets : fetches[h].state # "reading"

(* Time passes while nothing is at its deadline.                           *)
FanTick ==
    /\ ~FanDone
    /\ \A i \in Lanes : lanes[i].state = "searching" => fanClock < Deadline(i)
    /\ \A h \in FanHits : fetches[h].state = "reading" => fanClock < fetches[h].until
    /\ \E i \in Lanes : lanes[i].state = "searching" \/ \E h \in FanHits : fetches[h].state = "reading"
    /\ fanClock' = fanClock + 1
    /\ UNCHANGED <<fanCall, lanes, fetches, fanAnswer>>

FanNext ==
    \/ \E i \in Lanes : LaneSettles(i)
    \/ \E h \in FanHits : PreviewEnds(h)
    \/ AllSettle
    \/ FanTick
-----------------------------------------------------------------------------
(* A decision that is read before the courts have all answered turns out   *)
(* to be among the leading hits: no text is fetched that is not shown.     *)
EarlyReadsAreTargets ==
    fanAnswer # NoFanAnswer => \A h \in FanHits : fetches[h] # NoFetch => h \in fanAnswer.targets

(* "No hits in any court" is said only if every variant of every court     *)
(* answered and found nothing, an error only if no court answered; and     *)
(* what a variant that answered ranks first is in the list (where as many  *)
(* hits of a court are shown as there are variants), each court's first    *)
(* hit among the first ones.                                               *)
CourtsAreReported ==
    fanAnswer # NoFanAnswer =>
        /\ fanAnswer.says = "no hits in any court" =>
              \A i \in Lanes : \A v \in ToSet(lanes[i].values) : v.ok /\ v.hits = <<>>
        /\ fanAnswer.says = "no court answered" => \A i \in Lanes : \A v \in ToSet(lanes[i].values) : ~v.ok
        /\ \A i \in Lanes : \A v \in ToSet(lanes[i].values) :
              SourceLimit >= 2 /\ v.hits # <<>> => <<i, v.hits[1]>> \in ToSet(fanAnswer.items)
        /\ \A i \in Lanes : lanes[i].hits # <<>> =>
              <<i, lanes[i].hits[1]>> \in ToSet(Leading(fanAnswer.items, Len(FanLanes)))

(* The answer, previews included, is there before the route gives up.      *)
AnswersInTime == ~FanDone => fanClock <= CallEnd

FanOutIsHonest == EarlyReadsAreTargets /\ CourtsAreReported /\ AnswersInTime
=============================================================================
