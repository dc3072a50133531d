-------------------------------- MODULE NsGate --------------------------------
(***************************************************************************)
(* The line in front of the Supreme Court's server (src/sources/ns.ts):    *)
(* nsGate lets NS_CONCURRENCY requests of an instance out at a time, a     *)
(* freed slot passes straight to the next in line, a request leaves the    *)
(* line shortly before its call's deadline, and nsFetch sends a refused    *)
(* request once more after a pause outside the gate.                       *)
(*                                                                         *)
(* A request is late once its call has less than NS_MIN_ATTEMPT_MS left;   *)
(* that happens at any moment and for good.                                *)
(***************************************************************************)
EXTENDS Naturals, Sequences, FiniteSets, SequencesExt

CONSTANTS
    Requests,
    NsConcurrency

ASSUME GateAssumption == NsConcurrency \in Nat \ {0}

VARIABLES
    nsInFlight,   \* slots taken
    nsWaiting,    \* the line
    requests,     \* request -> idle, queued, admitted (with a slot), sent, pausing, or its end; which attempt
    late          \* the requests whose call has no time left

gateVars == <<nsInFlight, nsWaiting, requests, late>>

GateInit ==
    /\ nsInFlight = 0
    /\ nsWaiting = <<>>
    /\ requests = [r \in Requests |-> [st |-> "idle", attempt |-> 1]]
    /\ late = {}

-----------------------------------------------------------------------------

\* nsGate, as far as the slot or the line.
Enters(r) ==
    /\ requests[r].st \in {"idle", "pausing"}
    /\ LET n == IF requests[r].st = "idle" THEN 1 ELSE 2 IN
       IF nsInFlight < NsConcurrency
       THEN /\ nsInFlight' = nsInFlight + 1
            /\ requests' = [requests EXCEPT ![r] = [st |-> "admitted", attempt |-> n]]
            /\ UNCHANGED nsWaiting
       ELSE /\ nsWaiting' = Append(nsWaiting, r)
            /\ requests' = [requests EXCEPT ![r] = [st |-> "queued", attempt |-> n]]
            /\ UNCHANGED nsInFlight
    /\ UNCHANGED late

\* A slot is given up: the next in line has it, else it is free.
Release(r, st) ==
    LET ended == [requests EXCEPT ![r].st = st] IN
    IF nsWaiting # <<>>
    THEN /\ nsWaiting' = Tail(nsWaiting)
         /\ requests' = [ended EXCEPT ![Head(nsWaiting)].st = "admitted"]
         /\ UNCHANGED nsInFlight
    ELSE /\ nsInFlight' = nsInFlight - 1
         /\ requests' = ended
         /\ UNCHANGED nsWaiting

Released_leftTheLine(r) == nsWaiting

\* The line without a request whose timer fired.
Released(r) == RemoveAt(nsWaiting, CHOOSE i \in DOMAIN nsWaiting : nsWaiting[i] = r)

\* The timer of nsQueue.
LeavesLine(r) ==
    /\ requests[r].st = "queued" /\ r \in late
    /\ nsWaiting' = Released(r)
    /\ requests' = [requests EXCEPT ![r].st = "failed"]
    /\ UNCHANGED <<nsInFlight, late>>

\* With its slot a request is sent, unless its time has run out meanwhile.
RequestSent(r) ==
    /\ requests[r].st = "admitted" /\ r \notin late
    /\ requests' = [requests EXCEPT ![r].st = "sent"]
    /\ UNCHANGED <<nsInFlight, nsWaiting, late>>

TooLate_keepsSlot(r) ==
    /\ requests' = [requests EXCEPT ![r].st = "failed"]
    /\ UNCHANGED <<nsInFlight, nsWaiting>>

\* It is given back unused when there is no time left to send.
TooLate(r) == Release(r, "failed")

GivesSlotBack(r) ==
    /\ requests[r].st = "admitted" /\ r \in late
    /\ TooLate(r)
    /\ UNCHANGED late

\* An answer; a refusal for good; a refusal that leaves time for one more attempt.
RequestEnds(r) ==
    /\ requests[r].st = "sent"
    /\ \/ Release(r, "answered")
       \/ Release(r, "failed")
       \/ requests[r].attempt = 1 /\ r \notin late /\ Release(r, "pausing")
    /\ UNCHANGED late

\* A call that has ended makes room for another.
NextCall(r) ==
    /\ requests[r].st \in {"answered", "failed"}
    /\ requests' = [requests EXCEPT ![r] = [st |-> "idle", attempt |-> 1]]
    /\ late' = late \ {r}
    /\ UNCHANGED <<nsInFlight, nsWaiting>>

TimePasses(r) ==
    /\ r \notin late /\ requests[r].st \in {"queued", "admitted", "sent", "pausing"}
    /\ late' = late \cup {r}
    /\ UNCHANGED <<nsInFlight, nsWaiting, requests>>

GateNext ==
    \E r \in Requests : Enters(r) \/ LeavesLine(r) \/ RequestSent(r) \/ GivesSlotBack(r) \/ RequestEnds(r) \/ NextCall(r) \/ TimePasses(r)

GateSpec == GateInit /\ [][GateNext]_gateVars

-----------------------------------------------------------------------------
(* Properties.                                                             *)

WithSlot == {r \in Requests : requests[r].st \in {"admitted", "sent"}}

\* Never more than NS_CONCURRENCY requests are out, no slot is lost however a
\* request ends or leaves the line, and none is idle while somebody waits.
SlotsNeverLeak ==
    /\ nsInFlight = Cardinality(WithSlot) /\ nsInFlight <= NsConcurrency
    /\ nsWaiting # <<>> => nsInFlight = NsConcurrency
    /\ ToSet(nsWaiting) = {r \in Requests : requests[r].st = "queued"}

=============================================================================
