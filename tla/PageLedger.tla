----------------------------- MODULE PageLedger -----------------------------
(***************************************************************************)
(* What the page quotas promise (the accounting of libraries.ts), without  *)
(* counters, leases or runs: every document of a library is charged to it  *)
(* once, first as a reservation and then as stored pages; a new document   *)
(* is accepted only when the documents charged so far leave room under     *)
(* both caps; a charge ends when the document fails, is deleted or its     *)
(* library is purged.                                                      *)
(***************************************************************************)
EXTENDS Sums

CONSTANTS Library, Document, QuotaPages, GlobalPages

VARIABLES
    reserved,   \* reserved[l]: the documents charged to l as a reservation
    stored,     \* stored[l]: the documents charged to l as stored pages
    size        \* size[d]: the pages d is charged with, 0 when it is not

ledger == <<reserved, stored, size>>

Charged(l) == reserved[l] \cup stored[l]
AllCharged == UNION {Charged(l) : l \in Library}

LedgerInit ==
    /\ reserved = [l \in Library |-> {}]
    /\ stored = [l \in Library |-> {}]
    /\ size = [d \in Document |-> 0]

Reserve(l, d, n) ==
    /\ d \notin AllCharged
    /\ n > 0
    /\ Total(Charged(l), size) + n <= QuotaPages[l]
    /\ Total(AllCharged, size) + n <= GlobalPages
    /\ reserved' = [reserved EXCEPT ![l] = @ \cup {d}]
    /\ size' = [size EXCEPT ![d] = n]
    /\ UNCHANGED stored

Settle(l, d) ==
    /\ d \in reserved[l]
    /\ reserved' = [reserved EXCEPT ![l] = @ \ {d}]
    /\ stored' = [stored EXCEPT ![l] = @ \cup {d}]
    /\ UNCHANGED size

(* The charges of some documents of one library end; {d} for a failure or  *)
(* a delete, all of them for a purge.                                      *)
Drop(l, D) ==
    /\ D \subseteq Charged(l)
    /\ reserved' = [reserved EXCEPT ![l] = @ \ D]
    /\ stored' = [stored EXCEPT ![l] = @ \ D]
    /\ size' = [d \in Document |-> IF d \in D THEN 0 ELSE size[d]]

LedgerNext ==
    \E l \in Library :
        \/ \E d \in Document, n \in 1 .. GlobalPages : Reserve(l, d, n)
        \/ \E d \in Document : Settle(l, d)
        \/ \E D \in SUBSET Charged(l) : Drop(l, D)

LedgerSpec == LedgerInit /\ [][LedgerNext]_ledger
=============================================================================
