---------------------------- MODULE MCFilesStore ----------------------------
(* Small instances of FilesStore for TLC. *)
EXTENDS FilesStore, Functions, TLC

CONSTANTS l1, l2, c1, c2

MCLibrary == {l1, l2}
MCContent == {c1, c2}

(* A short text and a longer one. *)
MCPages == (c1 :> 1) @@ (c2 :> 2)

(* One library can be full while the other is not; the global cap is below *)
(* the sum of the quotas, so either cap can be the one that refuses.       *)
MCQuotaPages == [l \in Library |-> IF l = l1 THEN 3 ELSE 2]

MCSymmetry == Permutations(Document) \cup Permutations(Run)

(* Total agrees with the fold over the values it sums. *)
ASSUME TotalIsTheSum ==
    \A f \in [{"x", "y", "z"} -> 0 .. 3] :
        Total(DOMAIN f, f) = FoldFunction(LAMBDA n, m : n + m, 0, f)
=============================================================================
