-------------------------- MODULE ZoteroConnection --------------------------
(***************************************************************************)
(* One user's Zotero connection: the record in Clerk's metadata, the       *)
(* micro-cache and the shared read each server instance keeps of it        *)
(* (src/zotero/store.ts), and the handlers that read and write it: the     *)
(* OAuth callback, the disconnect (src/zotero/web.ts) and a zotero_* tool  *)
(* or the status, whose key zotero.org may reject.  Clerk has no           *)
(* conditional write: a handler reads, decides and writes in three steps.  *)
(*                                                                         *)
(* A key is a number given out by zotero.org; its sealing, its             *)
(* fingerprint, the permissions it carries and the texts of the answers    *)
(* are left out.  A cached state may expire at any moment, which covers    *)
(* every length of CACHE_TTL_MS.connection.                                *)
(***************************************************************************)
EXTENDS Naturals, FiniteSets

CONSTANTS
    ConnInstances,   \* the server instances
    ConnTasks,       \* the requests, each served once
    NoTask,
    ConnKinds,       \* what a request may be: callback, disconnect, tool
    Unreliable       \* whether zotero.org or Clerk may fail, or lose an answer, once

ASSUME ConnAssumption ==
    /\ NoTask \notin ConnTasks
    /\ ConnKinds \subseteq {"callback", "disconnect", "tool"}
    /\ Unreliable \in BOOLEAN

VARIABLES
    clerk,       \* the stored record: a state and the number of the write it is of
    live,        \* the keys zotero.org accepts
    issued,      \* how many keys it has given out
    connCache,   \* instance -> the state kept for CACHE_TTL_MS.connection
    inflight,    \* instance -> the request whose read the others join
    task         \* request -> where its handler stands

\* History, kept for the properties only.
VARIABLES
    ownWrite,    \* instance -> the number of its last write that has ended
    lost,        \* an answer of zotero.org or Clerk has failed
    raced        \* a handler has overwritten a record other than the one it read

connVars == <<clerk, live, issued, connCache, inflight, task, ownWrite, lost, raced>>
connHistory == <<ownWrite, lost, raced>>

Keys == 1 .. Cardinality(ConnTasks)
NoConnection == [st |-> "none", key |-> 0]
Ok(k) == [st |-> "ok", key |-> k]
Revoked == [st |-> "revoked", key |-> 0]
States == {NoConnection, Revoked} \cup {Ok(k) : k \in Keys}
Stored(state, n) == [state |-> state, ver |-> n]
NoEntry == Stored(NoConnection, 0)        \* version 0: nothing is kept; Clerk's record starts at 1

ConnTypeOK ==
    /\ clerk.state \in States /\ clerk.ver \in Nat \ {0}
    /\ live \subseteq Keys /\ issued \in 0 .. Cardinality(ConnTasks)
    /\ \A i \in ConnInstances : connCache[i].state \in States /\ connCache[i].ver \in Nat
    /\ inflight \in [ConnInstances -> ConnTasks \cup {NoTask}]
    /\ \A t \in ConnTasks : task[t].on \in ConnInstances \cup {NoTask} /\ task[t].mine \in 0 .. issued

Idle == [kind |-> "tool", on |-> NoTask, pc |-> "idle", seen |-> NoEntry, lead |-> NoTask,
         mine |-> 0, since |-> 0, ok |-> TRUE]

ConnInit ==
    /\ clerk = Stored(NoConnection, 1) /\ live = {} /\ issued = 0
    /\ connCache = [i \in ConnInstances |-> NoEntry]
    /\ inflight = [i \in ConnInstances |-> NoTask]
    /\ task = [t \in ConnTasks |-> Idle]
    /\ ownWrite = [i \in ConnInstances |-> 0] /\ lost = FALSE /\ raced = FALSE

MayFail == Unreliable /\ ~lost
Turns(t, row) == task' = [task EXCEPT ![t] = row]
Goto(t, pc) == Turns(t, [task[t] EXCEPT !.pc = pc])

\* The handler answers, and nothing of its variables matters any more.
Finished == [Idle EXCEPT !.pc = "done"]
Finish(t) == Turns(t, Finished)

-----------------------------------------------------------------------------
(* The store: a read shared by the callers of one instance, and a write.   *)

\* loadConnection: the cache, else the read under way, else a read of its own.
Load(t) ==
    LET i == task[t].on
        from == [task[t] EXCEPT !.since = ownWrite[i]] IN
    /\ task[t].pc = "load"
    /\ \/ /\ connCache[i] # NoEntry
          /\ Turns(t, [from EXCEPT !.seen = connCache[i], !.pc = "loaded"])
          /\ UNCHANGED inflight
       \/ /\ connCache[i] = NoEntry /\ inflight[i] # NoTask
          /\ Turns(t, [from EXCEPT !.lead = inflight[i], !.pc = "joined"])
          /\ UNCHANGED inflight
       \/ /\ connCache[i] = NoEntry /\ inflight[i] = NoTask
          /\ inflight' = [inflight EXCEPT ![i] = t]
          /\ Turns(t, [from EXCEPT !.pc = "reading"])
    /\ UNCHANGED <<clerk, live, issued, connCache, connHistory>>

\* readRaw: the moment Clerk reads the record it will answer with.
ReadRaw(t) ==
    /\ \/ /\ task[t].pc = "reading"
          /\ Turns(t, [task[t] EXCEPT !.seen = clerk, !.pc = "answered"])
          /\ UNCHANGED lost
       \/ /\ task[t].pc = "marking"
          /\ Turns(t, [task[t] EXCEPT !.seen = clerk, !.pc = "marked"])
          /\ UNCHANGED lost
       \/ /\ task[t].pc = "marking" /\ MayFail
          /\ Finish(t) /\ lost' = TRUE
    /\ UNCHANGED <<clerk, live, issued, connCache, inflight, ownWrite, raced>>

\* Variants with a plausible bug are named <definition>_<bug>; each breaks a
\* property that the definition it stands before keeps.
Current_afterWrites(t) == TRUE

\* current(): no write has detached the read from inflight.
Current(t) == inflight[task[t].on] = t

\* The answer of a read reaches its instance (readShared): kept only while no
\* write has detached the read, and handed to every caller that joined it.
ReadShared(t) ==
    LET i == task[t].on
        current == Current(t)
        joined == {u \in ConnTasks : task[u].lead = t /\ task[u].pc = "joined"} IN
    /\ task[t].pc = "answered"
    /\ \E ok \in IF MayFail THEN BOOLEAN ELSE {TRUE} :
          /\ connCache' = IF ok /\ current THEN [connCache EXCEPT ![i] = task[t].seen] ELSE connCache
          /\ inflight' = IF current THEN [inflight EXCEPT ![i] = NoTask] ELSE inflight
          /\ task' = [u \in ConnTasks |->
                        IF u \in joined \cup {t}
                        THEN [task[u] EXCEPT !.seen = task[t].seen, !.lead = NoTask, !.ok = ok, !.pc = "loaded"]
                        ELSE task[u]]
          /\ lost' = (lost \/ ~ok)
    /\ UNCHANGED <<clerk, live, issued, ownWrite, raced>>

\* CACHE_TTL_MS.connection has passed.
Expire(i) ==
    /\ connCache[i] # NoEntry
    /\ connCache' = [connCache EXCEPT ![i] = NoEntry]
    /\ UNCHANGED <<clerk, live, issued, inflight, task, connHistory>>

\* forget: the cached state is dropped and the read under way detached.
Forget(i) ==
    /\ connCache' = [connCache EXCEPT ![i] = NoEntry]
    /\ inflight' = [inflight EXCEPT ![i] = NoTask]

\* What the handler at its write is writing.
Written(t) ==
    CASE task[t].kind = "callback" -> Ok(task[t].mine)
      [] task[t].kind = "disconnect" -> NoConnection
      [] OTHER -> Revoked

\* Clerk applies the update, or not, and answers, or not.
WriteApply(t) ==
    /\ task[t].pc = "writing"
    /\ \E applied \in BOOLEAN, ok \in BOOLEAN :
          /\ ~applied => ~ok
          /\ ~MayFail => ok
          /\ clerk' = IF applied THEN Stored(Written(t), clerk.ver + 1) ELSE clerk
          /\ Turns(t, [task[t] EXCEPT !.pc = "wrote", !.ok = ok])
          /\ lost' = (lost \/ ~ok)
          /\ raced' = (raced \/ (applied /\ task[t].seen.ver # clerk.ver))
    /\ UNCHANGED <<live, issued, connCache, inflight, ownWrite>>

-----------------------------------------------------------------------------
(* The handlers.                                                           *)

\* A disconnect, a status or a tool's gate starts by loading; a callback, sent
\* back by zotero.org with the token its cookie holds, by exchanging it.
Begin(t) ==
    /\ task[t].pc = "idle"
    /\ \E i \in ConnInstances, kind \in ConnKinds :
          Turns(t, [Idle EXCEPT !.kind = kind, !.on = i,
                                !.pc = IF kind = "callback" THEN "exchange" ELSE "load"])
    /\ UNCHANGED <<clerk, live, issued, connCache, inflight, connHistory>>

\* getKeyInfo's verdict: a key of this account with its library, or to be refused.
Verdict == {"load", "refuse"}

\* accessToken: a new key.  (An exchange that fails leaves none, and ends it.)
AccessToken(t) ==
    /\ task[t].pc = "exchange"
    /\ issued' = issued + 1 /\ live' = live \cup {issued + 1}
    /\ \E pc \in Verdict : Turns(t, [task[t] EXCEPT !.mine = issued + 1, !.pc = pc])
    /\ UNCHANGED <<clerk, connCache, inflight, connHistory>>

\* The write begins by forgetting: what started earlier may be neither joined
\* nor kept.
WriteBegin(t) == Forget(task[t].on) /\ Goto(t, "writing")

\* The callback knows the connection it replaces, and saves its own; when that
\* could not be loaded, it refuses the new key.
CallbackLoaded(t) ==
    /\ task[t].kind = "callback" /\ task[t].pc = "loaded"
    /\ IF task[t].ok THEN WriteBegin(t)
       ELSE Goto(t, "refuse") /\ UNCHANGED <<connCache, inflight>>
    /\ UNCHANGED <<clerk, live, issued, connHistory>>

\* The disconnect revokes the key while it is at hand, and writes in every
\* state; when the connection could not be loaded, it fails.
DisconnectLoaded(t) ==
    /\ task[t].kind = "disconnect" /\ task[t].pc = "loaded"
    /\ \/ ~task[t].ok /\ Finish(t) /\ UNCHANGED <<connCache, inflight>>
       \/ task[t].ok /\ task[t].seen.state.st = "ok" /\ Goto(t, "revoke") /\ UNCHANGED <<connCache, inflight>>
       \/ task[t].ok /\ task[t].seen.state.st # "ok" /\ WriteBegin(t)
    /\ UNCHANGED <<clerk, live, issued, connHistory>>

\* The gate lets a tool through with a connection that is neither missing nor
\* revoked.
ToolLoaded(t) ==
    /\ task[t].kind = "tool" /\ task[t].pc = "loaded"
    /\ IF task[t].ok /\ task[t].seen.state.st = "ok" THEN Goto(t, "use") ELSE Finish(t)
    /\ UNCHANGED <<clerk, live, issued, connCache, inflight, connHistory>>

\* The tool sends the key: accepted, or rejected because it was revoked, here
\* or by the user at zotero.org, and then to be marked (zoteroFailure, statusFor).
Use(t) ==
    LET k == task[t].seen.state.key IN
    /\ task[t].pc = "use"
    /\ \/ k \in live /\ Finish(t) /\ UNCHANGED live
       \/ /\ live' = live \ {k}
          /\ Turns(t, [task[t] EXCEPT !.mine = k, !.pc = "marking"])
    /\ UNCHANGED <<clerk, issued, connCache, inflight, connHistory>>

MarkRevoked_whateverIsStored(t) ==
    /\ task[t].pc = "marked"
    /\ WriteBegin(t)
    /\ UNCHANGED <<clerk, live, issued, connHistory>>

\* markRevoked writes only when the record read from Clerk holds the rejected key.
MarkRevoked(t) ==
    /\ task[t].pc = "marked"
    /\ \/ /\ task[t].seen.state = Ok(task[t].mine)
          /\ WriteBegin(t)
       \/ /\ task[t].seen.state # Ok(task[t].mine)
          /\ Finish(t) /\ UNCHANGED <<connCache, inflight>>
    /\ UNCHANGED <<clerk, live, issued, connHistory>>


\* After the write: the callback revokes the key it replaced, or, when the
\* save failed, refuses its own.
AfterSave(t, ok) ==
    LET previous == task[t].seen.state IN
    IF task[t].kind # "callback" THEN Finished
    ELSE IF ~ok THEN [task[t] EXCEPT !.pc = "refuse"]
    ELSE IF previous.st = "ok" /\ previous.key # task[t].mine
         THEN [task[t] EXCEPT !.pc = "revoke"]
    ELSE Finished

\* write's finally: a read that started meanwhile may have seen the old record.
WriteEnd(t) ==
    /\ task[t].pc = "wrote" /\ Forget(task[t].on)
    /\ Turns(t, AfterSave(t, task[t].ok))
    /\ ownWrite' = [ownWrite EXCEPT ![task[t].on] = clerk.ver]
    /\ UNCHANGED <<clerk, live, issued, lost, raced>>

\* revokeQuietly, best effort: the key the callback refuses, the one it
\* replaced, or the one being disconnected.
RevokeQuietly(t) ==
    LET k == IF task[t].pc = "refuse" THEN task[t].mine ELSE task[t].seen.state.key IN
    /\ task[t].pc \in {"refuse", "revoke"}
    /\ \/ live' = live \ {k} /\ UNCHANGED lost
       \/ MayFail /\ lost' = TRUE /\ UNCHANGED live
    /\ IF task[t].kind = "callback"
       THEN Finish(t) /\ UNCHANGED <<connCache, inflight>>
       ELSE WriteBegin(t)
    /\ UNCHANGED <<clerk, issued, ownWrite, raced>>

ConnNext ==
    \/ \E t \in ConnTasks :
          \/ Load(t) \/ ReadRaw(t) \/ ReadShared(t)
          \/ Begin(t) \/ AccessToken(t)
          \/ CallbackLoaded(t) \/ DisconnectLoaded(t) \/ ToolLoaded(t) \/ Use(t) \/ MarkRevoked(t)
          \/ WriteApply(t) \/ WriteEnd(t) \/ RevokeQuietly(t)
    \/ \E i \in ConnInstances : Expire(i)

ConnSpec == ConnInit /\ [][ConnNext]_connVars

-----------------------------------------------------------------------------
(* Properties.                                                             *)

\* A handler that begins to load after a write of its instance has ended is
\* never given what Clerk held before it, out of the cache or from a read
\* that was already under way (forget before and after the write).
ReadsOwnWrites ==
    \A t \in ConnTasks : task[t].pc = "loaded" /\ task[t].ok => task[t].seen.ver >= task[t].since

\* When every answer arrived and nobody overwrote a record it had not read,
\* no key is left at zotero.org that is not the stored one: the refused, the
\* replaced and the disconnected are all revoked (callbackFlow, disconnect).
NothingLeftBehind ==
    (\A t \in ConnTasks : task[t].pc \in {"idle", "done"}) /\ ~lost /\ ~raced
        => live \subseteq {clerk.state.key}

\* A rejection clears only the key it is about: a key stored in the meantime
\* stays, unless it was stored between markRevoked's read and its write.
RejectionClearsOnlyItsKey ==
    [][clerk' # clerk => \A t \in ConnTasks :
          task[t].kind = "tool" /\ task[t].pc = "writing" /\ task'[t].pc = "wrote" /\ clerk.state.st = "ok"
            => clerk.state.key = task[t].mine \/ clerk.ver # task[t].seen.ver]_connVars
-----------------------------------------------------------------------------
(* A claim of the comments that the code does not keep.                    *)

\* web.ts:32-33 "stored sealed with its effective mode (...); the key it
\* replaces is revoked": when every answer arrived, no key but the stored one
\* is left.  The callback revokes what it loaded, which an instance may have
\* kept since before another handler's write.
ReplacedIsRevoked ==
    (\A t \in ConnTasks : task[t].pc \in {"idle", "done"}) /\ ~lost
        => live \subseteq {clerk.state.key}
=============================================================================
