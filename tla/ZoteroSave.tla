------------------------------ MODULE ZoteroSave ------------------------------
(***************************************************************************)
(* One call of zotero_save (src/mcp/tools/zotero.ts): the gate and its     *)
(* refusals, the body under the same time budget, createItem's request     *)
(* under one Zotero-Write-Token and its single repetition (zoteroFetch),   *)
(* and the answer.  zotero.org may apply a request whenever it likes       *)
(* after it was sent, whether or not its answer arrives.                   *)
(*                                                                         *)
(* What the key may do and whether the item is valid do not change during  *)
(* the call.  The slots, pauses and the breaker's own state are ZoteroHttp;*)
(* the connection record is ZoteroConnection; the item's fields and the    *)
(* texts are left out.                                                     *)
(***************************************************************************)
EXTENDS Naturals, FiniteSets

CONSTANTS Attempts   \* how often zoteroFetch sends a request: 2

ASSUME SaveAssumption == Attempts \in Nat \ {0}

VARIABLES
    account,     \* what the gate finds, and what zotero.org will find
    saveStage,   \* where the call stands
    early,       \* the connection is read while the access is
    attempt,
    sent,        \* the requests under way at zotero.org: attempt -> token
    applied,     \* the tokens zotero.org has applied
    items,       \* how many items it has created
    said         \* the answer

saveVars == <<account, saveStage, early, attempt, sent, applied, items, said>>

Accounts ==
    [configured : BOOLEAN, access : {"ok", "signIn", "noPro", "fails"}, cached : BOOLEAN, limited : BOOLEAN,
     paused : BOOLEAN, connection : {"none", "revoked", "read", "write", "fails"}, savesLeft : BOOLEAN,
     valid : BOOLEAN, mayWrite : BOOLEAN]

SaveInitOf(a) ==
    /\ account = a
    /\ saveStage = "gate" /\ early = FALSE
    /\ attempt = 0 /\ sent = [n \in {} |-> 0] /\ applied = {} /\ items = 0
    /\ said = "nothing yet"

\* At most two of the things that can be wrong are.
SaveInit ==
    \E a \in Accounts :
        /\ Cardinality({x \in {"configured", "savesLeft", "valid", "mayWrite"} : ~a[x]}
               \cup {x \in {"limited", "paused"} : a[x]} \cup {x \in {"access"} : a[x] # "ok"}
               \cup {x \in {"connection"} : a[x] # "write"}) <= 2
        /\ SaveInitOf(a)

Says(reply) == saveStage' = "over" /\ said' = reply

-----------------------------------------------------------------------------
(* zoteroGate.                                                             *)

\* The connection is read early only if the access is not answered at once.
GateStarts ==
    /\ saveStage = "gate"
    /\ IF ~account.configured THEN Says("unavailable") /\ UNCHANGED early
       ELSE saveStage' = "access" /\ early' = ~account.cached /\ UNCHANGED said
    /\ UNCHANGED <<account, attempt, sent, applied, items>>

\* The steps in their order; an early connection is looked at last.
Refusal ==
    CASE account.access = "fails" -> "access"
      [] account.access # "ok" -> account.access
      [] account.limited -> "rateLimited"
      [] account.paused -> "paused"
      [] account.connection = "fails" -> "access"
      [] account.connection \in {"none", "revoked"} -> account.connection
      [] OTHER -> "none"

GateEnds ==
    /\ saveStage = "access"
    /\ IF Refusal # "none" THEN Says(Refusal) ELSE saveStage' = "body" /\ UNCHANGED said
    /\ UNCHANGED <<account, early, attempt, sent, applied, items>>

\* The budget runs out while the gate waits for Clerk; a late gate changes nothing.
GateExpires ==
    /\ saveStage = "access"
    /\ Says("access")
    /\ UNCHANGED <<account, early, attempt, sent, applied, items>>

-----------------------------------------------------------------------------
(* The save.  Variants with a plausible bug are named <definition>_<bug>.   *)

\* A connection for reading only and a user's bucket of saves stop the call.
BodyStarts ==
    /\ saveStage = "body"
    /\ IF account.connection = "read" THEN Says("readOnly")
       ELSE IF ~account.savesLeft THEN Says("tooManySaves")
       ELSE saveStage' = "send" /\ UNCHANGED said
    /\ UNCHANGED <<account, early, attempt, sent, applied, items>>

TokenOf_eachAttempt(n) == n

\* One token per call: a repetition carries the first attempt's.
TokenOf(n) == 1

Sends ==
    /\ saveStage = "send"
    /\ attempt' = attempt + 1
    /\ sent' = [n \in DOMAIN sent \cup {attempt + 1} |-> IF n = attempt + 1 THEN TokenOf(n) ELSE sent[n]]
    /\ saveStage' = "waiting"
    /\ UNCHANGED <<account, early, applied, items, said>>

\* zotero.org applies a request it has received: a token creates one item.
Applicable(n) == n \in DOMAIN sent /\ account.mayWrite /\ account.valid /\ sent[n] \notin applied
ZoteroApplies(n) ==
    /\ Applicable(n)
    /\ applied' = applied \cup {sent[n]} /\ items' = items + 1
    /\ UNCHANGED <<account, saveStage, early, attempt, sent, said>>

\* What zotero.org may answer to the current attempt.  A 429 or 503 says nothing
\* of whether the request was, or still will be, applied.
Statuses ==
    {"overloaded", "error", "timeout"} \cup
    (IF ~account.mayWrite THEN {"403"}
     ELSE IF ~account.valid THEN {"failed"}
     ELSE IF sent[attempt] \in applied THEN {"200", "412"} ELSE {})

AnswerTo_412asRefused(status) ==
    CASE status = "200" -> "saved"
      [] status \in {"403", "failed", "412"} -> "nothing saved"
      [] OTHER -> "failed"

\* What the tool says of an answer: a 412 means that an earlier attempt may have
\* gone through.
AnswerTo(status) ==
    CASE status = "200" -> "saved"
      [] status \in {"403", "failed"} -> "nothing saved"
      [] status = "412" -> "maybe saved"
      [] OTHER -> "failed"

\* Only a short 429 or 503 is repeated, once; 200 is the answer to the attempt
\* that was applied, 412 to a repetition of it.
Answered ==
    /\ saveStage = "waiting"
    /\ \E status \in Statuses :
          /\ status = "412" => attempt > 1
          /\ IF status = "overloaded" /\ attempt < Attempts
             THEN saveStage' \in {"send", "over"} /\ said' = IF saveStage' = "over" THEN "failed" ELSE said
             ELSE Says(AnswerTo(status))
    /\ UNCHANGED <<account, early, attempt, sent, applied, items>>

\* The budget ends the call wherever the request stands; zotero.org may still apply it.
BodyExpires ==
    /\ saveStage \in {"send", "waiting"}
    /\ Says("failed")
    /\ UNCHANGED <<account, early, attempt, sent, applied, items>>

SaveNext ==
    \/ GateStarts \/ GateEnds \/ GateExpires
    \/ BodyStarts \/ Sends \/ Answered \/ BodyExpires
    \/ \E n \in 1 .. Attempts : ZoteroApplies(n)

SaveSpec == SaveInit /\ [][SaveNext]_saveVars

-----------------------------------------------------------------------------
(* Properties.                                                             *)

\* Every refusal whose text, or its Czech line, says that nothing was saved.
Denies == {"unavailable", "signIn", "noPro", "rateLimited", "paused", "none", "revoked", "readOnly",
           "access", "tooManySaves", "nothing saved"}

\* A call creates at most one item, however often its request is sent and
\* however late zotero.org gets to it; and what it says of that is true: "saved"
\* of an item that is there, "nothing saved" only if there is none and no
\* request of the call can still create one.
OneItemHonestly ==
    /\ items <= 1
    /\ said = "saved" => items = 1
    /\ said \in Denies => items = 0 /\ \A n \in DOMAIN sent : ~Applicable(n)

=============================================================================
