------------------------------ MODULE SourceCache ------------------------------
(***************************************************************************)
(* One key of TtlCache (src/sources/shared/cache.ts): the value kept, the  *)
(* load its callers share and delete() for a value found dead.  The value  *)
(* is one the source may stop honouring, as the guest token of             *)
(* src/sources/primo.ts is: a caller that is refused with it deletes it.   *)
(*                                                                         *)
(* A value is the source's generation at the moment it answered the load.  *)
(* Age is an expiry at any moment; eviction by size is one too.            *)
(***************************************************************************)
EXTENDS Naturals

CONSTANTS
    Callers,
    NoCacheLoad,
    MaxGeneration   \* bound: how often the source changes what it honours

ASSUME CacheAssumption == NoCacheLoad \notin Callers /\ MaxGeneration \in Nat

VARIABLES
    generation,   \* what the source honours now
    store,        \* the value kept, 0 for none
    pending,      \* the load under way, by the caller that started it
    loads,        \* caller -> the load it started: "none", "asked" or the value answered
    callers,      \* caller -> idle, waiting for a load, or using a value
    foundDead     \* history: the values some caller was refused with

cacheVars == <<generation, store, pending, loads, callers, foundDead>>

IdleCaller == [st |-> "idle", on |-> NoCacheLoad, value |-> 0]
NotAsked == [st |-> "none", value |-> 0]
Using(v) == [st |-> "using", on |-> NoCacheLoad, value |-> v]
WaitingFor(l) == [st |-> "waiting", on |-> l, value |-> 0]

CacheInit ==
    /\ generation = 1 /\ store = 0 /\ pending = NoCacheLoad
    /\ loads = [c \in Callers |-> NotAsked]
    /\ callers = [c \in Callers |-> IdleCaller]
    /\ foundDead = {}

-----------------------------------------------------------------------------

\* through: a hit, the load under way, or a load of its own.
Through(c) ==
    /\ callers[c].st = "idle" /\ loads[c].st = "none"
    /\ \/ /\ store # 0
          /\ callers' = [callers EXCEPT ![c] = Using(store)]
          /\ UNCHANGED <<pending, loads>>
       \/ /\ store = 0 /\ pending # NoCacheLoad
          /\ callers' = [callers EXCEPT ![c] = WaitingFor(pending)]
          /\ UNCHANGED <<pending, loads>>
       \/ /\ store = 0 /\ pending = NoCacheLoad
          /\ callers' = [callers EXCEPT ![c] = WaitingFor(c)]
          /\ pending' = c
          /\ loads' = [loads EXCEPT ![c] = [st |-> "asked", value |-> 0]]
    /\ UNCHANGED <<generation, store, foundDead>>

\* The source answers a load; the answer is on its way.
SourceAnswers(c) ==
    /\ loads[c].st = "asked"
    /\ loads' = [loads EXCEPT ![c] = [st |-> "answered", value |-> generation]]
    /\ UNCHANGED <<generation, store, pending, callers, foundDead>>

CurrentLoad_any(c) == TRUE

\* A load stores its value only while it is still the current one.
CurrentLoad(c) == pending = c

\* The load lands: whoever waited on it has its value.
Lands(c) ==
    /\ loads[c].st = "answered"
    /\ store' = IF CurrentLoad(c) THEN loads[c].value ELSE store
    /\ pending' = IF pending = c THEN NoCacheLoad ELSE pending
    /\ callers' = [k \in Callers |-> IF callers[k] = WaitingFor(c) THEN Using(loads[c].value) ELSE callers[k]]
    /\ loads' = [loads EXCEPT ![c] = NotAsked]
    /\ UNCHANGED <<generation, foundDead>>

\* A rejection is never cached.
SharedLoadFails(c) ==
    /\ loads[c].st # "none"
    /\ pending' = IF pending = c THEN NoCacheLoad ELSE pending
    /\ callers' = [k \in Callers |-> IF callers[k] = WaitingFor(c) THEN IdleCaller ELSE callers[k]]
    /\ loads' = [loads EXCEPT ![c] = NotAsked]
    /\ UNCHANGED <<generation, store, foundDead>>

\* The value is honoured, or it is dead and deleted together with the load under way.
Uses(c) ==
    /\ callers[c].st = "using"
    /\ callers' = [callers EXCEPT ![c] = IdleCaller]
    /\ IF callers[c].value = generation THEN UNCHANGED <<store, pending, foundDead>>
       ELSE /\ store' = 0 /\ pending' = NoCacheLoad
            /\ foundDead' = foundDead \cup {callers[c].value}
    /\ UNCHANGED <<generation, loads>>

SourceMovesOn ==
    /\ generation < MaxGeneration
    /\ generation' = generation + 1
    /\ UNCHANGED <<store, pending, loads, callers, foundDead>>

EntryExpires ==
    /\ store # 0
    /\ store' = 0
    /\ UNCHANGED <<generation, pending, loads, callers, foundDead>>

CacheNext ==
    \/ \E c \in Callers : Through(c) \/ SourceAnswers(c) \/ Lands(c) \/ SharedLoadFails(c) \/ Uses(c)
    \/ SourceMovesOn \/ EntryExpires

CacheSpec == CacheInit /\ [][CacheNext]_cacheVars

-----------------------------------------------------------------------------
(* Properties.                                                             *)

\* A value some caller has found dead is never kept again: a load that was
\* under way when it was deleted does not bring it back ("a delete(key) in the
\* meantime must not be undone by it").
DeadStaysOut == store \notin foundDead

=============================================================================
