------------------------- MODULE MCStoreTransactions -------------------------
(***************************************************************************)
(* Small instances of StoreTransactions for TLC, and the libraries over    *)
(* the days, with a cron whose runs may fail (LibraryLifecycle).  The two  *)
(* share no state here: a behaviour follows one of them, chosen at the     *)
(* start, and the variables of the other stay as they are.                 *)
(***************************************************************************)
EXTENDS StoreTransactions, LibraryLifecycle

CONSTANTS
    d1, d2, d3, t1, t2, t3,
    LibraryParts       \* what a behaviour may follow: transactions, days

VARIABLE part

(* Two texts of library 1 and one of library 2. *)
MCLibraryOf == [d \in Document |-> IF d = d3 THEN 2 ELSE 1]
MCPages == [d \in Document |-> IF d = d1 THEN 2 ELSE 1]

(* Library 1 has room for d1 or d2, not for both; all libraries together   *)
(* for d2 and d3, not for d1 and d3.                                       *)
MCQuotaPages == [l \in Library |-> 2]

MCSymmetry == Permutations(Transaction)

LibrariesInit ==
    /\ part \in LibraryParts
    /\ Init
    /\ part = "days" => \A l \in Library : drift[l] = 0
    /\ LifecycleInit

LibrariesNext ==
    \/ part = "transactions" /\ Next /\ UNCHANGED <<part, lifecycleVars>>
    \/ part = "days" /\ LifecycleNext /\ UNCHANGED <<part, vars>>

librariesVars == <<part, vars, lifecycleVars>>
LibrariesSpec == LibrariesInit /\ [][LibrariesNext]_librariesVars
-----------------------------------------------------------------------------
(* Whatever transactions run side by side and roll back, the committed     *)
(* counters are what the committed rows add up to (after a recount, where  *)
(* they started off), no cap is passed and a purged library is empty.      *)
CommittedIsSound == CountersExact /\ CapsHeld /\ PurgedIsEmpty
=============================================================================
