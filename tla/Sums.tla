-------------------------------- MODULE Sums --------------------------------
(***************************************************************************)
(* Sums of page counts, as SQL computes them with sum(...) over rows.      *)
(*                                                                         *)
(* The sum of f over S is the number of elements of the disjoint union of  *)
(* the intervals 1..f[x], one per x \in S.  Written this way a sum is a     *)
(* cardinality, so its laws follow from the library's theorems on finite   *)
(* sets (DataTheorems) and need no induction on S.                         *)
(***************************************************************************)
EXTENDS Naturals, FiniteSets

(* The units of x: n copies, numbered. *)
Units(x, n) == {x} \X (1 .. n)

(* All units of the members of S. *)
AllUnits(S, f) == UNION {Units(x, f[x]) : x \in S}

(* sum of f[x] for x in S; coalesce(sum(f), 0) in the migrations. *)
Total(S, f) == Cardinality(AllUnits(S, f))
=============================================================================
