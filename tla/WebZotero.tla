------------------------------ MODULE WebZotero ------------------------------
(***************************************************************************)
(* What the page shows of the Zotero connection: the Zotero modal          *)
(* (app/_zdroje/zotero-modal.tsx) and the row of the home page             *)
(* (own-sources.tsx over zotero-status.ts), each with its own request of   *)
(* the status, and Odpojit in the modal, which makes both ask again.       *)
(* Connecting leaves the page, so it is the start of another behaviour.    *)
(***************************************************************************)
EXTENDS Naturals

CONSTANT MaxAsks   \* bound: requests of the status

ASSUME WebZoteroAssumption == MaxAsks \in Nat

Views == {"modal", "row"}

(* What the status route answers, and how a view shows it (the branches of *)
(* ZoteroModal and ZoteroRow, in their order).                             *)
ServerStates == [connection : BOOLEAN, configured : BOOLEAN, pro : BOOLEAN, left : {"none", "revoked", "unreadable"}]
Panel(s) ==
    CASE s.connection                        -> IF s.configured /\ s.pro THEN "connected" ELSE "connected, of no use"
      [] ~s.connection /\ ~s.configured      -> "not here"
      [] ~s.connection /\ s.configured /\ ~s.pro -> "pro only"
      [] ~s.connection /\ s.configured /\ s.pro  -> IF s.left = "none" THEN "connect" ELSE "reconnect"
ConnectionShown == {"connected", "connected, of no use"}

VARIABLES
    zotero,        \* at the server
    panel,         \* per view: what it shows, "loading" or "error"
    request,       \* per view: none, asked, or the panel of the answer under way
    disconnecting, \* Odpojit: "idle", "sent", or "done" at the server
    gone,          \* the page heard that the connection is gone
    asks

webZoteroVars == <<zotero, panel, request, disconnecting, gone, asks>>

WebZoteroInit ==
    /\ zotero \in {s \in ServerStates : s.connection => s.left = "none"}
    /\ panel = [v \in Views |-> "loading"]
    /\ request = [v \in Views |-> "asked"]
    /\ disconnecting = "idle" /\ gone = FALSE /\ asks = 0

StatusReads(v) ==
    /\ request[v] = "asked"
    /\ request' = [request EXCEPT ![v] = Panel(zotero)]
    /\ UNCHANGED <<zotero, panel, disconnecting, gone, asks>>

StatusArrives(v) ==
    /\ request[v] \notin {"none", "asked"}
    /\ panel' = [panel EXCEPT ![v] = request[v]]
    /\ request' = [request EXCEPT ![v] = "none"]
    /\ UNCHANGED <<zotero, disconnecting, gone, asks>>

(* The network or the server fails, or the answer is not a status. The     *)
(* modal keeps the status it has and adds the error; the row forgets it.   *)
StatusFails(v) ==
    /\ request[v] # "none"
    /\ request' = [request EXCEPT ![v] = "none"]
    /\ panel' = [panel EXCEPT ![v] = IF v = "modal" /\ @ # "loading" THEN @ ELSE "error"]
    /\ UNCHANGED <<zotero, disconnecting, gone, asks>>

\* Zkusit znovu of the modal without a status.
RetryStatus ==
    /\ panel["modal"] = "error" /\ request["modal"] = "none" /\ asks < MaxAsks
    /\ panel' = [panel EXCEPT !["modal"] = "loading"]
    /\ request' = [request EXCEPT !["modal"] = "asked"]
    /\ asks' = asks + 1
    /\ UNCHANGED <<zotero, disconnecting, gone>>

PressesOdpojit ==
    /\ panel["modal"] \in ConnectionShown /\ disconnecting = "idle"
    /\ disconnecting' = "sent"
    /\ UNCHANGED <<zotero, panel, request, gone, asks>>

ServerDisconnects ==
    /\ disconnecting = "sent"
    /\ disconnecting' = "done"
    /\ zotero' = [zotero EXCEPT !.connection = FALSE, !.left = "none"]
    /\ UNCHANGED <<panel, request, gone, asks>>

Changed_keepsStatus ==
    /\ request' = [v \in Views |-> "asked"]
    /\ UNCHANGED panel

(* changed(): the status is forgotten at once, both views ask again and    *)
(* drop the requests they had under way.                                   *)
Changed ==
    /\ request' = [v \in Views |-> "asked"]
    /\ panel' = [panel EXCEPT !["modal"] = "loading"]

DisconnectArrives ==
    /\ disconnecting = "done"
    /\ Changed
    /\ disconnecting' = "idle" /\ gone' = TRUE
    /\ UNCHANGED <<zotero, asks>>

DisconnectFails ==
    /\ disconnecting # "idle"
    /\ disconnecting' = "idle"
    /\ UNCHANGED <<zotero, panel, request, gone, asks>>

WebZoteroNext ==
    \/ \E v \in Views : StatusReads(v) \/ StatusArrives(v) \/ StatusFails(v)
    \/ RetryStatus \/ PressesOdpojit
    \/ ServerDisconnects \/ DisconnectArrives \/ DisconnectFails

WebZoteroSpec == WebZoteroInit /\ [][WebZoteroNext]_webZoteroVars
-----------------------------------------------------------------------------
(* Once the page heard that the connection is gone, the modal never shows  *)
(* it again, whichever answers fail or come late, and neither does the row *)
(* when nothing is under way (zotero-modal.tsx:112 "never show \"Připojeno *)
(* jako\" again, not even when the reload fails").                         *)
GoneIsNotShown ==
    gone => /\ panel["modal"] \notin ConnectionShown
            /\ request["row"] = "none" => panel["row"] \notin ConnectionShown
=============================================================================
