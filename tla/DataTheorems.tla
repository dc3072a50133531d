---------------------------- MODULE DataTheorems ----------------------------
(***************************************************************************)
(* Lemmas about the data the models count, order and queue with.           *)
(*                                                                         *)
(* Sums: what adding, removing or changing one term does to a Total, and   *)
(* that a sum over fewer rows is not larger.  Total is a cardinality, and  *)
(* each law is a fact about unions of disjoint finite sets.  That the      *)
(* units are finitely many is a hypothesis here and part of the inductive  *)
(* invariants of the users.                                                *)
(*                                                                         *)
(* Steps: what holds of 0, and of n + 1 when it holds of n, holds of every *)
(* number.  The library's own theorem takes the property as a parameter;   *)
(* UpTo states it of the set of the numbers that have it.  From it: what   *)
(* a fold over a finite set yields, the size of an interval, of an image   *)
(* and of what stands in a sequence.                                       *)
(*                                                                         *)
(* Orders: every element of a finite set in a strict order has a place of  *)
(* its own, and a LIMIT takes the first of them.                           *)
(*                                                                         *)
(* Lines: who stands in a queue after one has joined it, come to its head  *)
(* or left it (the calls waiting for Zotero, the requests waiting for NS). *)
(***************************************************************************)
EXTENDS Sums, Sequences, Functions, FiniteSetTheorems, FunctionTheorems, SequenceTheorems, TLAPS

-----------------------------------------------------------------------------
(* Of finite sets, one contains no other; of numbers, one is the least     *)
(* (ORDER BY id LIMIT 1).                                                  *)
LEMMA MinimalOfFinite ==
    ASSUME NEW F, F # {}, \A A \in F : IsFiniteSet(A)
    PROVE  \E A \in F : \A B \in F : B \subseteq A => B = A
<1> DEFINE S == UNION F
<1>1. F \subseteq FiniteSubsetsOf(S) /\ \A A \in F : A \subseteq S
  BY DEF FiniteSubsetsOf
<1> HIDE DEF S
<1>2. \E A \in F : \A B \in F : ~(<<B, A>> \in StrictSubsetOrdering(S))
  BY <1>1, FS_StrictSubsetOrderingWellFounded, WFMin
<1> QED
  BY <1>1, <1>2 DEF StrictSubsetOrdering

LEMMA LeastOfNats ==
    ASSUME NEW S, S \subseteq Nat, S # {}
    PROVE  \E x \in S : \A y \in S : x <= y
<1> DEFINE Below == [x \in S |-> {y \in S : y < x}]
           F == {Below[x] : x \in S}
<1>0. \A y \in S : y \in Nat
  OBVIOUS
<1>1. ASSUME NEW x \in S PROVE Below[x] \subseteq Nat /\ IsFiniteSet(Below[x])
  <2>1. Below[x] = {y \in S : y < x} /\ x \in Nat
    OBVIOUS
  <2> HIDE DEF Below
  <2>2. Below[x] \in SUBSET Nat
    BY <2>1
  <2>3. ASSUME NEW y \in Below[x] PROVE y <= x
    <3>1. y \in S /\ y < x
      BY <2>1
    <3>2. y \in Nat
      BY <1>0, <3>1
    <3> QED
      BY <2>1, <3>1, <3>2
  <2> QED
    BY <2>1, <2>2, <2>3, FS_BoundedSetOfNaturals
<1>2. \A x, y \in S : y \in Below[x] <=> y < x
  OBVIOUS
<1>3. \A x \in S : Below[x] \subseteq S
  OBVIOUS
<1> HIDE DEF Below
<1>4. F # {} /\ \A A \in F : A \subseteq Nat /\ IsFiniteSet(A)
  BY <1>1
<1> HIDE DEF F
<1>5. \E A \in F : \A B \in F : B \subseteq A => B = A
  BY <1>4, MinimalOfFinite
<1>6. PICK x \in S : \A y \in S : Below[y] \subseteq Below[x] => Below[y] = Below[x]
  BY <1>5 DEF F
<1>7. ASSUME NEW y \in S, y < x PROVE FALSE
  <2>1. \A z \in S : z < y => z < x
    BY <1>7
  <2>2. y \in Below[x] /\ y \notin Below[y]
    BY <1>0, <1>2, <1>7
  <2>3. Below[y] \subseteq Below[x]
    BY <1>2, <1>3, <2>1
  <2> QED
    BY <1>6, <2>2, <2>3
<1> QED
  BY <1>7

(* Induction from 0 to n, for a set in place of a predicate. *)
LEMMA UpTo ==
    ASSUME NEW n \in Nat, NEW G, 0 \in G, \A k \in 1 .. n : k - 1 \in G => k \in G
    PROVE  \A k \in 0 .. n : k \in G
<1> DEFINE Bad == {m \in Nat : m <= n /\ m \notin G}
<1> SUFFICES ASSUME Bad # {} PROVE FALSE
  OBVIOUS
<1>1. PICK m \in Bad : \A i \in Bad : m <= i
  <2>1. Bad \subseteq Nat
    OBVIOUS
  <2> HIDE DEF Bad
  <2> QED
    BY <2>1, LeastOfNats
<1>2. m \in Nat /\ m <= n /\ m \notin G /\ m # 0
  BY <1>1
<1>3. m - 1 \in Nat /\ m - 1 <= n /\ ~(m <= m - 1) /\ m \in 1 .. n
  BY <1>2
<1>4. m - 1 \in G
  BY <1>1, <1>3
<1> QED
  BY <1>2, <1>3, <1>4

-----------------------------------------------------------------------------
(* Sums.                                                                   *)

(* One row contributes as many units as its number says (billable_pages    *)
(* of one document in the sums of files_recount_libraries).                *)
LEMMA UnitsCount ==
    ASSUME NEW x, NEW n \in Nat
    PROVE  /\ IsFiniteSet(Units(x, n))
           /\ Cardinality(Units(x, n)) = n
<1> DEFINE F == [i \in 1 .. n |-> <<x, i>>]
<1>1. F \in Bijection(1 .. n, Units(x, n))
  <2>1. F \in [1 .. n -> Units(x, n)]
    BY DEF Units
  <2>2. \A i, j \in 1 .. n : F[i] = F[j] => i = j
    OBVIOUS
  <2>3. \A u \in Units(x, n) : \E i \in 1 .. n : F[i] = u
    BY DEF Units
  <2> QED
    BY <2>1, <2>2, <2>3, Fun_IsBij
<1>2. ExistsBijection(1 .. n, Units(x, n))
  BY <1>1 DEF ExistsBijection
<1>3. IsFiniteSet(1 .. n) /\ Cardinality(1 .. n) = n
  BY FS_Interval
<1> QED
  BY <1>2, <1>3, FS_Bijection

(* The sum over no rows is 0 (coalesce(sum(...), 0)).                      *)
LEMMA TotalEmpty ==
    ASSUME NEW f
    PROVE  /\ IsFiniteSet(AllUnits({}, f))
           /\ Total({}, f) = 0
<1>1. AllUnits({}, f) = {}
  BY DEF AllUnits
<1> QED
  BY <1>1, FS_EmptySet DEF Total

(* Sums of rows that carry the same numbers are the same.                  *)
LEMMA TotalCongruence ==
    ASSUME NEW S, NEW f, NEW g, \A x \in S : f[x] = g[x]
    PROVE  /\ AllUnits(S, f) = AllUnits(S, g)
           /\ Total(S, f) = Total(S, g)
<1>1. {Units(x, f[x]) : x \in S} = {Units(x, g[x]) : x \in S}
  OBVIOUS
<1> QED
  BY <1>1 DEF AllUnits, Total

(* Rows that contribute nothing can be left out (the purged libraries in   *)
(* the global sum of files_reserve_pages).                                 *)
LEMMA TotalSkipsZeros ==
    ASSUME NEW S, NEW T, T \subseteq S, NEW f, \A x \in S \ T : f[x] = 0
    PROVE  /\ AllUnits(S, f) = AllUnits(T, f)
           /\ Total(S, f) = Total(T, f)
<1>1. \A x \in S \ T : Units(x, f[x]) = {}
  BY DEF Units
<1>2. AllUnits(S, f) = AllUnits(T, f)
  BY <1>1 DEF AllUnits
<1> QED
  BY <1>2 DEF Total

(* A sum is a natural number.                                              *)
LEMMA TotalType ==
    ASSUME NEW S, NEW f, IsFiniteSet(AllUnits(S, f))
    PROVE  Total(S, f) \in Nat
BY FS_CardinalityType DEF Total

(* A sum over fewer rows is not larger.                                    *)
LEMMA TotalSubset ==
    ASSUME NEW S, NEW T, T \subseteq S, NEW f, IsFiniteSet(AllUnits(S, f))
    PROVE  /\ IsFiniteSet(AllUnits(T, f))
           /\ Total(T, f) <= Total(S, f)
<1>1. AllUnits(T, f) \in SUBSET AllUnits(S, f)
  BY DEF AllUnits
<1> QED
  BY <1>1, FS_Subset DEF Total

(* The sum over two disjoint sets of rows.                                 *)
LEMMA TotalUnion ==
    ASSUME NEW S, NEW T, S \cap T = {}, NEW f,
           IsFiniteSet(AllUnits(S, f)), IsFiniteSet(AllUnits(T, f))
    PROVE  /\ IsFiniteSet(AllUnits(S \cup T, f))
           /\ Total(S \cup T, f) = Total(S, f) + Total(T, f)
<1> DEFINE A == AllUnits(S, f)
           B == AllUnits(T, f)
<1>1. AllUnits(S \cup T, f) = A \cup B
  BY DEF AllUnits
<1>2. A \cap B = {}
  BY DEF AllUnits, Units
<1>3. /\ IsFiniteSet(A \cup B)
      /\ Cardinality(A \cup B) = Cardinality(A) + Cardinality(B) - Cardinality(A \cap B)
  BY FS_Union
<1>4. Cardinality(A \cap B) = 0
  BY <1>2, FS_EmptySet
<1>5. Cardinality(A) \in Nat /\ Cardinality(B) \in Nat
  BY FS_CardinalityType
<1> HIDE DEF A, B
<1>6. Cardinality(A \cup B) = Cardinality(A) + Cardinality(B)
  BY <1>3, <1>4, <1>5
<1> USE DEF A, B
<1> QED
  BY <1>1, <1>3, <1>6 DEF Total

(* One more row.                                                           *)
LEMMA TotalAdd ==
    ASSUME NEW S, NEW x, x \notin S, NEW f, f[x] \in Nat,
           IsFiniteSet(AllUnits(S, f))
    PROVE  /\ IsFiniteSet(AllUnits(S \cup {x}, f))
           /\ Total(S \cup {x}, f) = Total(S, f) + f[x]
<1>1. AllUnits({x}, f) = Units(x, f[x])
  BY DEF AllUnits
<1>2. IsFiniteSet(AllUnits({x}, f)) /\ Total({x}, f) = f[x]
  BY <1>1, UnitsCount DEF Total
<1>3. S \cap {x} = {}
  OBVIOUS
<1> QED
  BY <1>2, <1>3, TotalUnion

(* One row less.                                                           *)
LEMMA TotalRemove ==
    ASSUME NEW S, NEW x \in S, NEW f, f[x] \in Nat,
           IsFiniteSet(AllUnits(S, f))
    PROVE  /\ IsFiniteSet(AllUnits(S \ {x}, f))
           /\ Total(S, f) = Total(S \ {x}, f) + f[x]
<1>1. IsFiniteSet(AllUnits(S \ {x}, f))
  BY TotalSubset
<1>2. x \notin S \ {x} /\ (S \ {x}) \cup {x} = S
  OBVIOUS
<1>3. Total((S \ {x}) \cup {x}, f) = Total(S \ {x}, f) + f[x]
  BY <1>1, <1>2, TotalAdd
<1> QED
  BY <1>1, <1>2, <1>3

(* One row changes its number.                                             *)
LEMMA TotalUpdate ==
    ASSUME NEW S, NEW x \in S, NEW f, NEW g, f[x] \in Nat, g[x] \in Nat,
           \A y \in S \ {x} : g[y] = f[y],
           IsFiniteSet(AllUnits(S, f))
    PROVE  /\ IsFiniteSet(AllUnits(S, g))
           /\ Total(S, g) = Total(S \ {x}, f) + g[x]
           /\ Total(S, f) = Total(S \ {x}, f) + f[x]
           /\ Total(S \ {x}, f) \in Nat
<1>1. /\ IsFiniteSet(AllUnits(S \ {x}, f))
      /\ Total(S, f) = Total(S \ {x}, f) + f[x]
  BY TotalRemove
<1>2. /\ AllUnits(S \ {x}, f) = AllUnits(S \ {x}, g)
      /\ Total(S \ {x}, f) = Total(S \ {x}, g)
  BY TotalCongruence
<1>3. x \notin S \ {x} /\ (S \ {x}) \cup {x} = S
  OBVIOUS
<1>4. /\ IsFiniteSet(AllUnits((S \ {x}) \cup {x}, g))
      /\ Total((S \ {x}) \cup {x}, g) = Total(S \ {x}, g) + g[x]
  BY <1>1, <1>2, <1>3, TotalAdd
<1> QED
  BY <1>1, <1>2, <1>3, <1>4, TotalType

(* All members of the groups P[x]. *)
AllParts(S, P) == UNION {P[x] : x \in S}

(* A sum of sums: when the groups P[x] do not overlap and g[x] is the sum  *)
(* of f over P[x], the sum of g is the sum of f over all groups (the       *)
(* counters of the libraries against the pages of the documents).          *)
LEMMA TotalOfTotals ==
    ASSUME NEW S, NEW P, NEW f, NEW g,
           \A x \in S : IsFiniteSet(AllUnits(P[x], f)) /\ g[x] = Total(P[x], f),
           \A x, y \in S : x # y => P[x] \cap P[y] = {},
           IsFiniteSet(AllUnits(AllParts(S, P), f))
    PROVE  /\ IsFiniteSet(AllUnits(S, g))
           /\ Total(S, g) = Total(AllParts(S, P), f)
<1> DEFINE All == AllParts(S, P)
<1>0. \A d : d \in All <=> \E x \in S : d \in P[x]
  BY DEF AllParts
<1> HIDE DEF All
<1> DEFINE B == [x \in S |-> CHOOSE b : b \in Bijection(1 .. g[x], AllUnits(P[x], f))]
           F == [u \in AllUnits(S, g) |-> B[u[1]][u[2]]]
<1>1. ASSUME NEW x \in S
      PROVE  B[x] \in Bijection(1 .. g[x], AllUnits(P[x], f))
  <2>1. ExistsBijection(1 .. g[x], AllUnits(P[x], f))
    BY FS_CardinalityType DEF Total
  <2> QED
    BY <2>1 DEF ExistsBijection
<1> HIDE DEF B
<1>2. \A u \in AllUnits(S, g) : /\ u[1] \in S /\ u[2] \in 1 .. g[u[1]]
                              /\ u = <<u[1], u[2]>>
  BY DEF AllUnits, Units
<1>3. ASSUME NEW x \in S
      PROVE  /\ B[x] \in [1 .. g[x] -> AllUnits(P[x], f)]
             /\ \A i, j \in 1 .. g[x] : B[x][i] = B[x][j] => i = j
             /\ \A v \in AllUnits(P[x], f) : \E i \in 1 .. g[x] : B[x][i] = v
  <2>1. /\ B[x] \in Injection(1 .. g[x], AllUnits(P[x], f))
        /\ B[x] \in Surjection(1 .. g[x], AllUnits(P[x], f))
    BY <1>1 DEF Bijection
  <2>2. B[x] \in [1 .. g[x] -> AllUnits(P[x], f)] /\ IsInjective(B[x])
    BY <2>1 DEF Injection
  <2>3. \A v \in AllUnits(P[x], f) : \E i \in 1 .. g[x] : B[x][i] = v
    BY <2>1 DEF Surjection
  <2>4. DOMAIN B[x] = 1 .. g[x]
    BY <2>2
  <2>5. \A i, j \in 1 .. g[x] : B[x][i] = B[x][j] => i = j
    BY <2>2, <2>4 DEF IsInjective
  <2> QED
    BY <2>2, <2>3, <2>5
<1>4. \A x \in S : AllUnits(P[x], f) \subseteq AllUnits(All, f)
  BY <1>0 DEF AllUnits
<1>5. ASSUME NEW u \in AllUnits(S, g)
      PROVE  F[u] = B[u[1]][u[2]] /\ F[u] \in AllUnits(P[u[1]], f)
  <2>1. u[1] \in S /\ u[2] \in 1 .. g[u[1]]
    BY <1>2
  <2>2. B[u[1]] \in [1 .. g[u[1]] -> AllUnits(P[u[1]], f)]
    BY <1>3, <2>1
  <2>3. B[u[1]][u[2]] \in AllUnits(P[u[1]], f)
    BY <2>1, <2>2
  <2> QED
    BY <2>3
<1>6. F \in [AllUnits(S, g) -> AllUnits(All, f)]
  BY <1>2, <1>4, <1>5
<1>7. ASSUME NEW u \in AllUnits(S, g), NEW v \in AllUnits(S, g), F[u] = F[v]
      PROVE  u = v
  <2>1. F[u] \in AllUnits(P[u[1]], f) /\ F[v] \in AllUnits(P[v[1]], f)
    BY <1>5
  <2>2. \A x \in S : \A w \in AllUnits(P[x], f) : w[1] \in P[x]
    BY DEF AllUnits, Units
  <2>3. u[1] \in S /\ v[1] \in S
    BY <1>2
  <2>4. F[u][1] \in P[u[1]] /\ F[u][1] \in P[v[1]]
    BY <1>7, <2>1, <2>2, <2>3
  <2>5. u[1] = v[1]
    BY <2>3, <2>4
  <2>6. B[u[1]][u[2]] = B[u[1]][v[2]]
    BY <1>7, <2>5
  <2>7. u[2] = v[2]
    BY <1>2, <1>3, <2>3, <2>5, <2>6
  <2> QED
    BY <1>2, <2>5, <2>7
<1>8. ASSUME NEW v \in AllUnits(All, f)
      PROVE  \E u \in AllUnits(S, g) : F[u] = v
  <2>1. PICK x \in S : v \in AllUnits(P[x], f)
    BY <1>0 DEF AllUnits
  <2>2. PICK i \in 1 .. g[x] : B[x][i] = v
    BY <1>3, <2>1
  <2>3. <<x, i>> \in AllUnits(S, g)
    BY DEF AllUnits, Units
  <2>4. F[<<x, i>>] = v
    BY <2>2, <2>3
  <2> QED
    BY <2>3, <2>4
<1>9. F \in Injection(AllUnits(S, g), AllUnits(All, f))
  BY <1>6, <1>7, Fun_IsInj
<1>10. F \in Surjection(AllUnits(S, g), AllUnits(All, f))
  BY <1>6, <1>8, Fun_IsSurj
<1> QED
  BY <1>9, <1>10, FS_Injection DEF Total, All

(* Finitely many rows have finitely many units. *)
LEMMA UnitsFinite ==
    ASSUME NEW S, IsFiniteSet(S), NEW f, \A x \in S : f[x] \in Nat
    PROVE  IsFiniteSet(AllUnits(S, f))
<1> DEFINE All == {Units(x, f[x]) : x \in S}
           F == [x \in S |-> Units(x, f[x])]
<1>1. F \in Surjection(S, All)
  BY Fun_IsSurj
<1>2. IsFiniteSet(All)
  BY <1>1, FS_Surjection
<1>3. \A U \in All : IsFiniteSet(U)
  BY UnitsCount
<1> QED
  BY <1>2, <1>3, FS_UNION DEF AllUnits

\* f[x] added up for x in S, as a fold.
SumOver(f, S) == FoldFunctionOnSet(+, 0, f, S)

(* The fold of + over a finite set, whose elements it takes in an order    *)
(* nobody knows, is the sum.  No function but the sum solves the recursive *)
(* equation: where another one differs from it, it differs on a subset     *)
(* that contains no smaller one.                                           *)
LEMMA FoldIsTotal ==
    ASSUME NEW S, IsFiniteSet(S), NEW f, \A x \in S : f[x] \in Nat
    PROVE  SumOver(f, S) = Total(S, f)
<1> DEFINE T == [s \in SUBSET S |-> Total(s, f)]
           pick(s) == CHOOSE x \in s : TRUE
           IsFold(g) == g = [s \in SUBSET S |-> IF s = {} THEN 0 ELSE f[pick(s)] + g[s \ {pick(s)}]]
<1>1. ASSUME NEW s \in SUBSET S
      PROVE  IsFiniteSet(s) /\ IsFiniteSet(AllUnits(s, f)) /\ Total(s, f) \in Nat
  BY FS_Subset, UnitsFinite, TotalType
<1>2. ASSUME NEW s \in SUBSET S, s # {}
      PROVE  /\ pick(s) \in s /\ s \ {pick(s)} \in SUBSET S
             /\ Total(s, f) = f[pick(s)] + Total(s \ {pick(s)}, f)
  <2>1. pick(s) \in s
    BY <1>2
  <2> HIDE DEF pick
  <2>2. Total(s, f) = Total(s \ {pick(s)}, f) + f[pick(s)] /\ f[pick(s)] \in Nat
    BY <1>1, <2>1, TotalRemove
  <2> QED
    BY <1>1, <2>1, <2>2
<1>3. IsFold(T)
  BY <1>2, TotalEmpty
<1>4. ASSUME NEW g, IsFold(g) PROVE g[S] = Total(S, f)
  <2> DEFINE Differ == {s \in SUBSET S : g[s] # Total(s, f)}
  <2> SUFFICES ASSUME Differ # {} PROVE FALSE
    OBVIOUS
  <2>0. \A s \in Differ : IsFiniteSet(s)
    BY <1>1
  <2> HIDE DEF Differ
  <2>1. PICK s \in Differ : \A t \in Differ : t \subseteq s => t = s
    BY <2>0, MinimalOfFinite
  <2> USE DEF Differ
  <2>2. s # {}
    BY <1>4, <2>1, TotalEmpty
  <2>3. pick(s) \in s /\ s \ {pick(s)} \in SUBSET S
    BY <1>2, <2>2
  <2>4. g[s] = f[pick(s)] + g[s \ {pick(s)}]
    BY <1>4, <2>2
  <2> HIDE DEF pick
  <2>5. s \ {pick(s)} \notin Differ
    BY <2>1, <2>3
  <2> QED
    BY <1>2, <2>1, <2>2, <2>3, <2>4, <2>5
<1>5. SumOver(f, S) = (CHOOSE g : IsFold(g))[S]
  BY DEF SumOver, FoldFunctionOnSet, MapThenFoldSet
<1>6. IsFold(CHOOSE g : IsFold(g))
  BY <1>3
<1> QED
  BY <1>4, <1>5, <1>6

(* The sum over a prefix: one more term at the end. *)
LEMMA FoldOfPrefix ==
    ASSUME NEW n \in Nat, NEW f, \A k \in 1 .. n : f[k] \in Nat
    PROVE  /\ SumOver(f, 1 .. n) \in Nat
           /\ n = 0 => SumOver(f, 1 .. n) = 0
           /\ n > 0 => SumOver(f, 1 .. n) = SumOver(f, 1 .. n - 1) + f[n]
<1>0. IsFiniteSet(1 .. n)
  BY FS_Interval
<1>1. IsFiniteSet(1 .. n) /\ SumOver(f, 1 .. n) = Total(1 .. n, f)
  BY <1>0, FoldIsTotal
<1>2. IsFiniteSet(AllUnits(1 .. n, f)) /\ Total(1 .. n, f) \in Nat
  BY <1>1, UnitsFinite, TotalType
<1>3. ASSUME n = 0 PROVE Total(1 .. n, f) = 0
  BY <1>3, TotalEmpty
<1>4. ASSUME n > 0 PROVE Total(1 .. n, f) = SumOver(f, 1 .. n - 1) + f[n]
  <2>1. (1 .. n) \ {n} = 1 .. n - 1 /\ n \in 1 .. n /\ IsFiniteSet(1 .. n - 1)
    BY <1>4, FS_Interval
  <2>2. Total(1 .. n, f) = Total(1 .. n - 1, f) + f[n]
    BY <1>2, <2>1, TotalRemove
  <2>3. SumOver(f, 1 .. n - 1) = Total(1 .. n - 1, f)
    BY <2>1, FoldIsTotal
  <2> QED
    BY <2>2, <2>3
<1> QED
  BY <1>1, <1>2, <1>3, <1>4

-----------------------------------------------------------------------------
(* Folds along a sequence (SequencesExt!FoldLeft), by their step F.        *)

Highest(s) == CHOOSE x \in s : \A y \in s : x >= y

FoldsAlong(g, n, base, F) ==
    \A s \in SUBSET (1 .. n) :
        g[s] = IF s = {} THEN base ELSE F[<<g[s \ {Highest(s)}], Highest(s)>>]

LEMMA HighestOf ==
    ASSUME NEW n \in Nat, NEW s \in SUBSET (1 .. n), s # {}
    PROVE  Highest(s) \in s /\ Highest(s) \in 1 .. n /\ \A y \in s : Highest(s) >= y
<1> DEFINE R == {n - x : x \in s}
<1>0. \A x \in s : x \in Nat /\ x <= n
  OBVIOUS
<1>1. R \subseteq Nat /\ R # {} /\ \A x \in s : n - x \in R
  <2>1. \A x \in s : n - x \in Nat
    BY <1>0
  <2>2. R \subseteq Nat
    BY <2>1
  <2>3. \A x \in s : n - x \in R
    OBVIOUS
  <2>4. R # {}
    BY <2>3
  <2> QED
    BY <2>2, <2>3, <2>4
<1>2. PICK r \in R : \A y \in R : r <= y
  <2> HIDE DEF R
  <2> QED
    BY <1>1, LeastOfNats
<1>3. PICK x \in s : r = n - x
  BY <1>2
<1>4. ASSUME NEW y \in s PROVE x >= y
  <2>1. n - x <= n - y
    BY <1>1, <1>2, <1>3
  <2> QED
    BY <1>0, <2>1
<1> QED
  BY <1>4 DEF Highest

(* A fold along a sequence exists: a step more extends it.                 *)
LEMMA FoldExists ==
    ASSUME NEW n \in Nat, NEW V, NEW base \in V, NEW F \in [V \X (1 .. n) -> V]
    PROVE  \E g \in [SUBSET (1 .. n) -> V] : FoldsAlong(g, n, base, F)
<1> DEFINE Good(m) == \E g \in [SUBSET (1 .. m) -> V] : FoldsAlong(g, m, base, F)
           G == {m \in 0 .. n : Good(m)}
<1>1. Good(0)
  <2> DEFINE g == [s \in SUBSET (1 .. 0) |-> base]
  <2>1. \A s \in SUBSET (1 .. 0) : s = {}
    OBVIOUS
  <2>2. g \in [SUBSET (1 .. 0) -> V] /\ FoldsAlong(g, 0, base, F)
    BY <2>1 DEF FoldsAlong
  <2> QED
    BY <2>2
<1>2. SUFFICES ASSUME NEW m \in 1 .. n, Good(m - 1) PROVE Good(m)
  <2> HIDE DEF Good
  <2>1. 0 \in G /\ \A k \in 1 .. n : k - 1 \in G => k \in G
    BY <1>1, <1>2
  <2> HIDE DEF G
  <2>2. \A k \in 0 .. n : k \in G
    BY <2>1, UpTo
  <2>3. Good(n)
    BY <2>2 DEF G
  <2> QED
    BY <2>3 DEF Good
<1>3. m \in Nat /\ m > 0 /\ m <= n
  OBVIOUS
<1>4. PICK g \in [SUBSET (1 .. m - 1) -> V] : FoldsAlong(g, m - 1, base, F)
  BY <1>2
<1> DEFINE h == [s \in SUBSET (1 .. m) |-> IF m \in s THEN F[<<g[s \ {m}], m>>] ELSE g[s]]
<1>5. ASSUME NEW s \in SUBSET (1 .. m)
      PROVE  IF m \in s THEN s \ {m} \in SUBSET (1 .. m - 1) ELSE s \in SUBSET (1 .. m - 1)
  BY <1>3
<1>6. m \in 1 .. n
  OBVIOUS
<1>7. h \in [SUBSET (1 .. m) -> V]
  BY <1>4, <1>5, <1>6
<1>8. ASSUME NEW s \in SUBSET (1 .. m)
      PROVE  h[s] = IF s = {} THEN base ELSE F[<<h[s \ {Highest(s)}], Highest(s)>>]
  <2>1. CASE s = {}
    BY <1>4, <1>5, <2>1 DEF FoldsAlong
  <2>2. CASE s # {} /\ m \in s
    <3>1. Highest(s) = m
      BY <1>3, <2>2, HighestOf
    <3>2. s \ {m} \in SUBSET (1 .. m) /\ h[s \ {m}] = g[s \ {m}]
      BY <1>5
    <3> QED
      BY <2>2, <3>1, <3>2
  <2>3. CASE s # {} /\ m \notin s
    <3>1. s \in SUBSET (1 .. m - 1) /\ h[s] = g[s]
      BY <1>5, <2>3
    <3>2. Highest(s) \in 1 .. m - 1
      BY <1>3, <2>3, <3>1, HighestOf
    <3>3. h[s \ {Highest(s)}] = g[s \ {Highest(s)}]
      BY <1>5, <2>3
    <3>4. g[s] = F[<<g[s \ {Highest(s)}], Highest(s)>>]
      BY <1>4, <2>3, <3>1 DEF FoldsAlong
    <3> QED
      BY <2>3, <3>1, <3>3, <3>4
  <2> QED
    BY <2>1, <2>2, <2>3
<1>9. FoldsAlong(h, m, base, F)
  BY <1>8 DEF FoldsAlong
<1> QED
  BY <1>7, <1>9

(* Along 1..k the fold takes k last. *)
LEMMA FoldOfInterval ==
    ASSUME NEW n \in Nat, NEW k \in 1 .. n
    PROVE  /\ 1 .. k \in SUBSET (1 .. n) /\ 1 .. k # {} /\ 1 .. k - 1 \in SUBSET (1 .. n)
           /\ Highest(1 .. k) = k /\ (1 .. k) \ {k} = 1 .. k - 1
<1>1. /\ 1 .. k \in SUBSET (1 .. n) /\ 1 .. k # {} /\ 1 .. k - 1 \in SUBSET (1 .. n)
      /\ k \in 1 .. k /\ (1 .. k) \ {k} = 1 .. k - 1
  <2>1. n \in Nat /\ k \in Nat /\ 1 <= k /\ k <= n
    OBVIOUS
  <2>2. \A i : (i \in 1 .. k <=> i \in Int /\ 1 <= i /\ i <= k)
            /\ (i \in 1 .. k - 1 <=> i \in Int /\ 1 <= i /\ i <= k - 1)
            /\ (i \in 1 .. n <=> i \in Int /\ 1 <= i /\ i <= n)
    BY <2>1
  <2>3. 1 .. k \in SUBSET (1 .. n) /\ 1 .. k - 1 \in SUBSET (1 .. n) /\ k \in 1 .. k
    BY <2>1, <2>2
  <2>4. (1 .. k) \ {k} = 1 .. k - 1
    BY <2>1, <2>2
  <2> QED
    BY <2>3, <2>4
<1>2. Highest(1 .. k) = k
  <2>1. Highest(1 .. k) \in 1 .. k /\ Highest(1 .. k) >= k
    BY <1>1, HighestOf
  <2> QED
    BY <2>1
<1> QED
  BY <1>1, <1>2

(* What grows at its end keeps what it had. *)
LEMMA Grows ==
    ASSUME NEW n \in Nat, NEW f,
           \A k \in 1 .. n : \A p \in DOMAIN f[k - 1] : p \in DOMAIN f[k] /\ f[k][p] = f[k - 1][p],
           NEW j \in 0 .. n, NEW p \in DOMAIN f[j]
    PROVE  p \in DOMAIN f[n] /\ f[n][p] = f[j][p]
<1> DEFINE G == {k \in 0 .. n : j <= k => p \in DOMAIN f[k] /\ f[k][p] = f[j][p]}
<1>1. 0 \in G
  <2>1. j <= 0 => j = 0
    OBVIOUS
  <2> QED
    BY <2>1
<1>2. ASSUME NEW k \in 1 .. n, k - 1 \in G PROVE k \in G
  <2>1. CASE j <= k - 1
    BY <1>2, <2>1
  <2>2. CASE ~(j <= k - 1)
    <3>1. j <= k => j = k
      BY <2>2
    <3> QED
      BY <3>1
  <2> QED
    BY <2>1, <2>2
<1> HIDE DEF G
<1>3. \A k \in 0 .. n : k \in G
  BY <1>1, <1>2, UpTo
<1> QED
  BY <1>3 DEF G

-----------------------------------------------------------------------------
(* Lines: sequences in which nobody stands twice.                          *)

Standing(s) == {s[i] : i \in DOMAIN s}
Once(s) == \A i, j \in DOMAIN s : s[i] = s[j] => i = j

LEMMA JoinsLine ==
    ASSUME NEW S, NEW s \in Seq(S), NEW e \in S, Once(s), e \notin Standing(s)
    PROVE  /\ Append(s, e) \in Seq(S) /\ Append(s, e) # <<>>
           /\ Once(Append(s, e)) /\ Standing(Append(s, e)) = Standing(s) \cup {e}
<1>1. /\ Append(s, e) \in Seq(S) /\ Len(Append(s, e)) = Len(s) + 1 /\ Len(s) \in Nat
      /\ DOMAIN s = 1 .. Len(s) /\ DOMAIN Append(s, e) = 1 .. Len(s) + 1
      /\ \A i \in 1 .. Len(s) : Append(s, e)[i] = s[i]
      /\ Append(s, e)[Len(s) + 1] = e
  OBVIOUS
<1>2. Once(Append(s, e))
  BY <1>1 DEF Once, Standing
<1>3. Standing(Append(s, e)) = Standing(s) \cup {e}
  BY <1>1 DEF Standing
<1> QED
  BY <1>1, <1>2, <1>3

LEMMA FrontLeaves ==
    ASSUME NEW S, NEW s \in Seq(S), s # <<>>, Once(s)
    PROVE  /\ Head(s) \in S /\ Head(s) \in Standing(s)
           /\ Tail(s) \in Seq(S) /\ Once(Tail(s)) /\ Standing(Tail(s)) = Standing(s) \ {Head(s)}
<1>1. /\ Len(s) \in Nat \ {0} /\ DOMAIN s = 1 .. Len(s) /\ Head(s) = s[1] /\ Head(s) \in S
      /\ Tail(s) \in Seq(S) /\ DOMAIN Tail(s) = 1 .. Len(s) - 1
      /\ \A i \in 1 .. Len(s) - 1 : Tail(s)[i] = s[i + 1]
  OBVIOUS
<1>2. Once(Tail(s))
  BY <1>1 DEF Once
<1>3. Standing(Tail(s)) = Standing(s) \ {Head(s)}
  <2>1. ASSUME NEW x \in Standing(Tail(s))  PROVE x \in Standing(s) \ {Head(s)}
    BY <1>1, <2>1 DEF Standing, Once
  <2>2. ASSUME NEW x \in Standing(s) \ {Head(s)}  PROVE x \in Standing(Tail(s))
    <3>1. PICK i \in 2 .. Len(s) : x = s[i]
      BY <1>1, <2>2 DEF Standing
    <3>2. i - 1 \in 1 .. Len(s) - 1 /\ Tail(s)[i - 1] = x
      BY <1>1, <3>1
    <3> QED
      BY <1>1, <3>2 DEF Standing
  <2> QED
    BY <2>1, <2>2
<1> QED
  BY <1>1, <1>2, <1>3 DEF Standing

LEMMA SpliceOne ==
    ASSUME NEW S, NEW s \in Seq(S), NEW k \in 1 .. Len(s)
    PROVE  LET t == SubSeq(s, 1, k - 1) \o SubSeq(s, k + 1, Len(s))
           IN  /\ t \in Seq(S) /\ Len(t) = Len(s) - 1
               /\ \A i \in 1 .. Len(s) - 1 : t[i] = IF i < k THEN s[i] ELSE s[i + 1]
<1> DEFINE n == Len(s)
           a == SubSeq(s, 1, k - 1)
           b == SubSeq(s, k + 1, n)
<1>1. n \in Nat /\ k \in Nat /\ 1 <= k /\ k <= n /\ \A i \in 1 .. n : s[i] \in S
  OBVIOUS
<1>2. a \in Seq(S) /\ Len(a) = k - 1 /\ \A i \in 1 .. k - 1 : a[i] = s[i]
  BY <1>1
<1>3. b \in Seq(S) /\ Len(b) = n - k /\ \A i \in 1 .. n - k : b[i] = s[i + k]
  BY <1>1
<1> HIDE DEF n, a, b
<1>4. /\ a \o b \in Seq(S) /\ Len(a \o b) = Len(a) + Len(b)
      /\ \A i \in 1 .. Len(a) + Len(b) : (a \o b)[i] = IF i <= Len(a) THEN a[i] ELSE b[i - Len(a)]
  BY <1>2, <1>3, ConcatProperties
<1>5. Len(a \o b) = n - 1
  BY <1>1, <1>2, <1>3, <1>4
<1>6. ASSUME NEW i \in 1 .. n - 1  PROVE (a \o b)[i] = IF i < k THEN s[i] ELSE s[i + 1]
  <2>1. (a \o b)[i] = IF i <= k - 1 THEN a[i] ELSE b[i - (k - 1)]
    BY <1>1, <1>2, <1>3, <1>4, <1>6
  <2>2. CASE i < k
    BY <1>1, <1>2, <1>6, <2>1, <2>2
  <2>3. CASE ~(i < k)
    <3>1. i - (k - 1) \in 1 .. n - k /\ (i - (k - 1)) + k = i + 1 /\ ~(i <= k - 1)
      BY <1>1, <1>6, <2>3
    <3> QED
      BY <1>3, <2>1, <2>3, <3>1
  <2> QED
    BY <2>2, <2>3
<1> QED
  BY <1>4, <1>5, <1>6 DEF a, b, n

LEMMA SpliceLine ==
    ASSUME NEW S, NEW s \in Seq(S), NEW k \in DOMAIN s, Once(s)
    PROVE  LET t == SubSeq(s, 1, k - 1) \o SubSeq(s, k + 1, Len(s))
           IN  /\ t \in Seq(S) /\ Once(t) /\ Standing(t) = Standing(s) \ {s[k]}
<1> DEFINE t == SubSeq(s, 1, k - 1) \o SubSeq(s, k + 1, Len(s))
<1>1. Len(s) \in Nat \ {0} /\ DOMAIN s = 1 .. Len(s) /\ k \in 1 .. Len(s)
  OBVIOUS
<1>4. /\ t \in Seq(S) /\ Len(t) = Len(s) - 1
      /\ \A i \in 1 .. Len(s) - 1 : t[i] = IF i < k THEN s[i] ELSE s[i + 1]
  BY <1>1, SpliceOne
<1> HIDE DEF t
<1>2. DOMAIN t = 1 .. Len(s) - 1
  BY <1>1, <1>4
<1>5. Once(t)
  <2> DEFINE at(i) == IF i < k THEN i ELSE i + 1
  <2>1. ASSUME NEW i \in DOMAIN t  PROVE at(i) \in DOMAIN s /\ t[i] = s[at(i)]
    BY <1>1, <1>2, <1>4, <2>1
  <2>2. ASSUME NEW i \in DOMAIN t, NEW j \in DOMAIN t, t[i] = t[j]  PROVE i = j
    <3>1. at(i) = at(j)
      BY <2>1, <2>2 DEF Once
    <3> QED
      BY <1>1, <1>2, <3>1
  <2> QED
    BY <2>2 DEF Once
<1>6. ASSUME NEW x \in Standing(t)  PROVE x \in Standing(s) \ {s[k]}
  BY <1>1, <1>2, <1>4, <1>6 DEF Standing, Once
<1>7. ASSUME NEW x \in Standing(s) \ {s[k]}  PROVE x \in Standing(t)
  <2>1. PICK i \in 1 .. Len(s) : x = s[i] /\ i # k
    BY <1>1, <1>7 DEF Standing
  <2>2. \E j \in 1 .. Len(s) - 1 : t[j] = x
    <3>1. CASE i < k
      BY <1>1, <1>2, <1>4, <2>1, <3>1
    <3>2. CASE i > k
      <4>1. i - 1 \in 1 .. Len(s) - 1 /\ ~(i - 1 < k) /\ (i - 1) + 1 = i
        BY <1>1, <2>1, <3>2
      <4> QED
        BY <1>2, <1>4, <2>1, <4>1
    <3> QED
      BY <1>1, <2>1, <3>1, <3>2
  <2> QED
    BY <1>2, <1>4, <2>2 DEF Standing
<1> QED
  BY <1>4, <1>5, <1>6, <1>7 DEF t
-----------------------------------------------------------------------------
(* Counting: an interval from 1, the values of a function on a finite set, *)
(* what stands in a sequence.                                              *)
\* 1 .. n, counted also where it is empty.
LEMMA UpToCounts == \A n \in Nat : IsFiniteSet(1 .. n) /\ Cardinality(1 .. n) = n
<1> SUFFICES ASSUME NEW n \in Nat PROVE IsFiniteSet(1 .. n) /\ Cardinality(1 .. n) = n
  OBVIOUS
<1>1. CASE n = 0
  <2>1. 1 .. n = {}
    BY <1>1
  <2> QED
    BY <1>1, <2>1, FS_EmptySet
<1>2. CASE n # 0
  <2>1. 1 <= n /\ n \in Int
    BY <1>2
  <2> QED
    BY <2>1, FS_Interval
<1> QED
  BY <1>1, <1>2

\* The values of a function on a finite set.
LEMMA ImageCounts ==
    ASSUME NEW S, IsFiniteSet(S), NEW f, DOMAIN f = S, f = [x \in S |-> f[x]]
    PROVE  LET T == {f[x] : x \in S}
           IN  /\ IsFiniteSet(T) /\ Cardinality(T) \in Nat /\ Cardinality(S) \in Nat /\ Cardinality(T) <= Cardinality(S)
               /\ (\A x, y \in S : f[x] = f[y] => x = y) => Cardinality(T) = Cardinality(S)
<1> DEFINE T == {f[x] : x \in S}
<1>1. f \in [S -> T] /\ \A y \in T : \E x \in S : f[x] = y
  OBVIOUS
<1> HIDE DEF T
<1>2. f \in Surjection(S, T)
  BY <1>1, Fun_IsSurj
<1>3. IsFiniteSet(T) /\ Cardinality(T) <= Cardinality(S) /\ (Cardinality(T) = Cardinality(S) <=> f \in Injection(S, T))
  BY <1>2, FS_Surjection
<1>4. Cardinality(T) \in Nat /\ Cardinality(S) \in Nat
  BY <1>3, FS_CardinalityType
<1>5. (\A x, y \in S : f[x] = f[y] => x = y) => f \in Injection(S, T)
  BY <1>1, Fun_IsInj
<1> QED
  BY <1>3, <1>4, <1>5 DEF T

\* What stands in a sequence is finitely much.
LEMMA RangeCounts ==
    ASSUME NEW S, NEW s \in Seq(S)
    PROVE  IsFiniteSet(Range(s)) /\ Range(s) \subseteq S
<1>1. Len(s) \in Nat /\ DOMAIN s = 1 .. Len(s) /\ s = [i \in DOMAIN s |-> s[i]] /\ \A i \in DOMAIN s : s[i] \in S
  OBVIOUS
<1>2. IsFiniteSet(DOMAIN s)
  BY <1>1, UpToCounts
<1>3. IsFiniteSet({s[i] : i \in DOMAIN s})
  BY <1>1, <1>2, ImageCounts
<1> QED
  BY <1>1, <1>3 DEF Range

-----------------------------------------------------------------------------
(* A finite set in a strict order, which R holds as pairs with the earlier *)
(* one first: each of its elements has a place of its own, the number of   *)
(* those before it and one, and a limit takes the first of them            *)
(* (ORDER BY ... LIMIT).                                                   *)
StrictOrder(S, R) ==
    /\ \A x \in S : <<x, x>> \notin R
    /\ \A x, y \in S : x # y => <<x, y>> \in R \/ <<y, x>> \in R
    /\ \A x, y, z \in S : <<x, y>> \in R /\ <<y, z>> \in R => <<x, z>> \in R

Ahead(S, R, x) == {y \in S : <<y, x>> \in R}

(* Every place of a finite, strictly ordered set is taken by one of it.    *)
LEMMA PlacesAreTaken ==
    ASSUME NEW S, IsFiniteSet(S), NEW R, StrictOrder(S, R)
    PROVE  /\ Cardinality(S) \in Nat
           /\ \A x \in S : Cardinality(Ahead(S, R, x)) \in 0 .. Cardinality(S) - 1
           /\ \A x, y \in S : Cardinality(Ahead(S, R, x)) = Cardinality(Ahead(S, R, y)) => x = y
           /\ \A i \in 1 .. Cardinality(S) : \E x \in S : Cardinality(Ahead(S, R, x)) = i - 1
<1> DEFINE n == Cardinality(S)
           place == [x \in S |-> Cardinality(Ahead(S, R, x)) + 1]
<1>1. n \in Nat
  BY FS_CardinalityType
<1>2. ASSUME NEW x \in S
      PROVE  IsFiniteSet(Ahead(S, R, x)) /\ Cardinality(Ahead(S, R, x)) \in 0 .. n - 1
  <2>1. Ahead(S, R, x) \subseteq S \ {x}
    BY DEF Ahead, StrictOrder
  <2>2. IsFiniteSet(S \ {x}) /\ Cardinality(S \ {x}) = n - 1
    BY FS_RemoveElement
  <2>3. IsFiniteSet(Ahead(S, R, x)) /\ Cardinality(Ahead(S, R, x)) <= n - 1
    BY <2>1, <2>2, FS_Subset
  <2>4. Cardinality(Ahead(S, R, x)) \in Nat
    BY <2>3, FS_CardinalityType
  <2> QED
    BY <1>1, <2>3, <2>4
<1>3. ASSUME NEW x \in S, NEW y \in S, <<x, y>> \in R
      PROVE  Cardinality(Ahead(S, R, x)) < Cardinality(Ahead(S, R, y))
  <2>1. Ahead(S, R, x) \subseteq Ahead(S, R, y)
    BY <1>3 DEF Ahead, StrictOrder
  <2>2. x \in Ahead(S, R, y) /\ x \notin Ahead(S, R, x)
    BY <1>3 DEF Ahead, StrictOrder
  <2>3. Cardinality(Ahead(S, R, x)) <= Cardinality(Ahead(S, R, y))
        /\ (Cardinality(Ahead(S, R, y)) = Cardinality(Ahead(S, R, x)) => Ahead(S, R, y) = Ahead(S, R, x))
    BY <1>2, <2>1, FS_Subset
  <2>4. Cardinality(Ahead(S, R, x)) # Cardinality(Ahead(S, R, y))
    BY <2>2, <2>3
  <2> QED
    BY <1>1, <1>2, <2>3, <2>4
<1>4. ASSUME NEW x \in S, NEW y \in S, Cardinality(Ahead(S, R, x)) = Cardinality(Ahead(S, R, y))
      PROVE  x = y
  <2>1. x # y => <<x, y>> \in R \/ <<y, x>> \in R
    BY DEF StrictOrder
  <2>2. ~(Cardinality(Ahead(S, R, x)) < Cardinality(Ahead(S, R, y))) /\ ~(Cardinality(Ahead(S, R, y)) < Cardinality(Ahead(S, R, x)))
    BY <1>1, <1>2, <1>4
  <2> QED
    BY <1>3, <2>1, <2>2
<1>5. place \in Injection(S, 1 .. n)
  <2>1. place \in [S -> 1 .. n]
    BY <1>1, <1>2
  <2>2. \A x, y \in S : place[x] = place[y] => x = y
    <3> SUFFICES ASSUME NEW x \in S, NEW y \in S, place[x] = place[y] PROVE x = y
      OBVIOUS
    <3>1. Cardinality(Ahead(S, R, x)) = Cardinality(Ahead(S, R, y))
      BY <1>1, <1>2
    <3> QED
      BY <1>4, <3>1
  <2> QED
    BY <2>1, <2>2, Fun_IsInj
<1>6. IsFiniteSet(1 .. n) /\ Cardinality(1 .. n) = n
  <2>1. CASE n = 0
    BY <2>1, FS_EmptySet
  <2>2. CASE n # 0
    BY <1>1, <2>2, FS_Interval
  <2> QED
    BY <2>1, <2>2
<1> HIDE DEF place
<1>7. place \in Surjection(S, 1 .. n)
  BY <1>5, <1>6, FS_Injection
<1>8. ASSUME NEW i \in 1 .. n PROVE \E x \in S : place[x] = i
  BY <1>7 DEF Surjection
<1>9. ASSUME NEW i \in 1 .. n PROVE \E x \in S : Cardinality(Ahead(S, R, x)) = i - 1
  <2>1. PICK x \in S : place[x] = i
    BY <1>8
  <2> QED
    BY <1>1, <1>2, <2>1 DEF place
<1> QED
  BY <1>1, <1>2, <1>4, <1>9

(* The first of an ordered set, up to a limit.                             *)
FirstOnes(K, R, limit) == {p \in K : Cardinality(Ahead(K, R, p)) < limit}

LEMMA FirstOnesAre ==
    ASSUME NEW K, IsFiniteSet(K), NEW R, StrictOrder(K, R), NEW limit \in Nat \ {0}
    PROVE  LET T == FirstOnes(K, R, limit)
           IN  /\ IsFiniteSet(T) /\ Cardinality(T) \in Nat /\ Cardinality(T) <= limit
               /\ Cardinality(T) < limit => T = K
               /\ Cardinality(K) <= limit => T = K
               /\ K # {} => T # {}
<1> DEFINE T == FirstOnes(K, R, limit)
           n == Cardinality(K)
           place == [x \in T |-> Cardinality(Ahead(K, R, x)) + 1]
<1>1. /\ n \in Nat
      /\ \A x \in K : Cardinality(Ahead(K, R, x)) \in 0 .. n - 1
      /\ \A x, y \in K : Cardinality(Ahead(K, R, x)) = Cardinality(Ahead(K, R, y)) => x = y
      /\ \A i \in 1 .. n : \E x \in K : Cardinality(Ahead(K, R, x)) = i - 1
  BY PlacesAreTaken
<1>2. T \subseteq K /\ \A x \in K : x \in T <=> Cardinality(Ahead(K, R, x)) < limit
  BY DEF FirstOnes
<1> HIDE DEF T, n
<1>3. IsFiniteSet(T) /\ Cardinality(T) \in Nat
  BY <1>2, FS_Subset, FS_CardinalityType
<1>4. \A x \in T : place[x] \in 1 .. limit /\ place[x] = Cardinality(Ahead(K, R, x)) + 1
  BY <1>1, <1>2
<1>5. Cardinality(T) <= limit
  <2>1. place \in [T -> 1 .. limit]
    BY <1>4
  <2>2. \A x, y \in T : place[x] = place[y] => x = y
    <3> SUFFICES ASSUME NEW x \in T, NEW y \in T, place[x] = place[y] PROVE x = y
      OBVIOUS
    <3>1. x \in K /\ y \in K /\ Cardinality(Ahead(K, R, x)) \in Nat /\ Cardinality(Ahead(K, R, y)) \in Nat
      BY <1>1, <1>2
    <3>2. Cardinality(Ahead(K, R, x)) = Cardinality(Ahead(K, R, y))
      BY <1>4, <3>1
    <3> QED
      BY <1>1, <3>1, <3>2
  <2>3. place \in Injection(T, 1 .. limit)
    BY <2>1, <2>2, Fun_IsInj
  <2> QED
    BY <2>3, UpToCounts, FS_Injection
<1>6. Cardinality(T) < limit => T = K
  <2> SUFFICES ASSUME Cardinality(T) < limit, NEW x \in K, x \notin T PROVE FALSE
    BY <1>2
  <2>1. Cardinality(Ahead(K, R, x)) \in 0 .. n - 1 /\ ~(Cardinality(Ahead(K, R, x)) < limit)
    BY <1>1, <1>2
  <2>2. limit <= n
    BY <1>1, <2>1
  <2>3. \A i \in 1 .. limit : \E y \in T : place[y] = i
    <3> SUFFICES ASSUME NEW i \in 1 .. limit PROVE \E y \in T : place[y] = i
      OBVIOUS
    <3>1. i \in 1 .. n
      BY <1>1, <2>2
    <3>2. PICK y \in K : Cardinality(Ahead(K, R, y)) = i - 1
      BY <1>1, <3>1
    <3>3. y \in T
      BY <1>2, <3>2
    <3> QED
      BY <1>4, <3>2, <3>3
  <2>4. place \in Surjection(T, 1 .. limit)
    <3>1. place \in [T -> 1 .. limit]
      BY <1>4
    <3> HIDE DEF place
    <3> QED
      BY <2>3, <3>1, Fun_IsSurj
  <2>5. Cardinality(1 .. limit) <= Cardinality(T)
    BY <1>3, <2>4, FS_Surjection
  <2> QED
    BY <1>3, <2>5, UpToCounts
<1>7. n <= limit => T = K
  BY <1>1, <1>2
<1>8. K # {} => T # {}
  BY <1>3, <1>6, FS_EmptySet
<1> QED
  BY <1>3, <1>5, <1>6, <1>7, <1>8 DEF T, n
=============================================================================
