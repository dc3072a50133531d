------------------------- MODULE TransactionsProofs -------------------------
(***************************************************************************)
(* Proofs about StoreTransactions, for any numbers of libraries, documents *)
(* and transactions, any caps and any drift: what is committed is sound,   *)
(* and ordinary work never deadlocks.                                      *)
(***************************************************************************)
EXTENDS MCStoreTransactions, DataTheorems

DocsOf(l) == {d \in Document : LibraryOf[d] = l}

(* One batch of a purge takes all documents of a library.  With more the   *)
(* counters need not survive a purge (the finding of StorePurge), so the   *)
(* theorems below assume it.                                               *)
BatchesSuffice == \A l \in Library : Cardinality(DocsOf(l)) <= PurgeBatch
-----------------------------------------------------------------------------
(* The inductive invariant: types and locks, ... *)

CountedRow == [page_count : Nat, pages_reserved : Nat, doc_count : Nat]
TxState == [next : Statement, doc : Document \cup {NoDocument}, lib : Library \cup {NoLibrary},
            was : Status, todo : SUBSET (Library \cup Document), n : Nat,
            counted : UNION {[S -> CountedRow] : S \in SUBSET Library},
            corrected : SUBSET Library]

(* Drafts lock some of the rows.                                           *)
Drafts(Key, Row) == UNION {[S -> Row] : S \in SUBSET Key}

Held(t) == DOMAIN libraryDraft[t]
Kept(t) == DOMAIN statusDraft[t]

Types ==
    /\ library \in [Library -> LibraryRow]
    /\ status \in [Document -> Status]
    /\ libraryDraft \in [Transaction -> Drafts(Library, LibraryRow)]
    /\ statusDraft \in [Transaction -> Drafts(Document, Status)]
    /\ reserving \in Transaction \cup {NoTransaction}
    /\ tx \in [Transaction -> TxState]
    /\ drift \in [Library -> Nat]

OneHolder ==
    \A t, u \in Transaction : t # u => Held(t) \cap Held(u) = {} /\ Kept(t) \cap Kept(u) = {}

(* ... what is committed, ... *)
In(f, l, s) == {d \in Document : LibraryOf[d] = l /\ f[d] = s}
Charged(f) == {d \in Document : f[d] \in {"in_flight", "settled"}}
ChargedIn(f, l) == {d \in Charged(f) : LibraryOf[d] = l}

(* A row counts the documents of l, as f has them, but for k pages.        *)
Counts(row, l, f, k) ==
    /\ row.page_count = Total(In(f, l, "settled"), Pages)
    /\ row.pages_reserved = Total(In(f, l, "in_flight"), Pages) + k
    /\ row.doc_count = Cardinality(In(f, l, "settled"))
HasRoom(l, f) == Total(ChargedIn(f, l), Pages) <= QuotaPages[l]
RowIsLive(row, l, f, k) == (k > 0 \/ \E d \in DocsOf(l) : f[d] # "absent") => row.row = "live"
RowOK(row, l, f, k) == Counts(row, l, f, k) /\ HasRoom(l, f) /\ RowIsLive(row, l, f, k)

Committed ==
    /\ \A l \in Library : RowOK(library[l], l, status, drift[l])
    /\ Total(Charged(status), Pages) <= GlobalPages

(* ... and what a transaction would commit. *)
View(t) == [d \in Document |-> StatusSeen(t, d)]
DriftSeen(t, l) == IF l \in tx[t].corrected THEN 0 ELSE drift[l]
Chargeless(t, d) ==
    statusDraft[t][d] = status[d] \/ (status[d] = "error" /\ statusDraft[t][d] = "absent")

FitsGlobally(t, d) == Total(Charged(status) \cup {d}, Pages) <= GlobalPages

CanCommit(t) ==
    /\ tx[t].corrected \subseteq Held(t)
    /\ \A d \in Kept(t) : LibraryOf[d] \in Held(t) \/ Chargeless(t, d)
    /\ \A l \in Held(t) : RowOK(libraryDraft[t][l], l, View(t), DriftSeen(t, l))
    /\ \/ Charged(View(t)) \subseteq Charged(status)
       \/ /\ reserving = t
          /\ \E d \in Document : /\ Charged(View(t)) \subseteq Charged(status) \cup {d}
                                 /\ FitsGlobally(t, d)
-----------------------------------------------------------------------------
(* Where a transaction is.                                                 *)
IsFresh(t) == Held(t) = {} /\ Kept(t) = {} /\ tx[t].corrected = {}
ForDocument(t) == tx[t].doc \in Document /\ tx[t].lib = LibraryOf[tx[t].doc]

(* An upload has its library and checks or has reserved the pages.         *)
HasEnsured(t) ==
    /\ ForDocument(t)
    /\ Held(t) = {tx[t].lib} /\ Kept(t) = {} /\ tx[t].corrected = {}
    /\ RowOK(libraryDraft[t][tx[t].lib], tx[t].lib, status, drift[tx[t].lib])
HasReserved(t) ==
    LET d == tx[t].doc
        l == tx[t].lib
    IN  /\ ForDocument(t)
        /\ Held(t) = {l} /\ Kept(t) = {} /\ tx[t].corrected = {}
        /\ reserving = t
        /\ libraryDraft[t][l].row = "live"
        /\ Counts(libraryDraft[t][l], l, status, drift[l] + Pages[d])
        /\ Total(ChargedIn(status, l), Pages) + Pages[d] <= QuotaPages[l]
        /\ Total(Charged(status), Pages) + Pages[d] <= GlobalPages

(* A document is changed, its library not yet.                             *)
HasChanged(t, before, after) ==
    LET d == tx[t].doc
    IN  /\ ForDocument(t)
        /\ Held(t) = {} /\ Kept(t) = {d} /\ tx[t].corrected = {}
        /\ status[d] = before /\ statusDraft[t][d] = after

(* A purge has its library; it will have deleted all but the rest.         *)
IsPurging(t, rest) ==
    LET l == tx[t].lib
    IN  /\ l \in Library /\ Held(t) = {l} /\ tx[t].corrected = {}
        /\ \A d \in Kept(t) : LibraryOf[d] = l /\ statusDraft[t][d] = "absent"
        /\ \A d \in DocsOf(l) : StatusSeen(t, d) # "absent" => d \in rest

IsWiping(t) ==
    /\ IsPurging(t, tx[t].todo)
    /\ tx[t].todo \subseteq DocsOf(tx[t].lib)

(* A recount has locked all that are smaller, and has or will have all     *)
(* that have drifted.                                                      *)
IsLocking(t) ==
    /\ CanCommit(t) /\ Kept(t) = {} /\ tx[t].corrected = {}
    /\ \A l \in Held(t) : libraryDraft[t][l] = library[l]
    /\ tx[t].todo \subseteq Library
    /\ \A k \in Held(t), l \in tx[t].todo : k < l
    /\ \A l \in Library : drift[l] > 0 => l \in tx[t].todo \cup Held(t)
IsCorrecting(t) ==
    /\ CanCommit(t) /\ Kept(t) = {}
    /\ tx[t].todo \subseteq Held(t) \ tx[t].corrected
    /\ \A l \in tx[t].todo : /\ libraryDraft[t][l] = library[l]
                             /\ l \in DOMAIN tx[t].counted
                             /\ Counts(tx[t].counted[l], l, status, 0)

Phase(t) ==
    LET next == tx[t].next
    IN  /\ next \in {"idle", "ensure", "index", "record", "delete", "lock_due", "list"} => IsFresh(t)
        /\ next \in {"ensure", "index", "record", "delete"} => ForDocument(t)
        /\ next = "lock_due" => tx[t].lib \in Library
        /\ next \in {"advisory", "reserve"} => HasEnsured(t)
        /\ next = "reserve" => reserving = t
        /\ next = "insert" => HasReserved(t)
        /\ next = "settle" => HasChanged(t, "in_flight", "settled")
        /\ next = "release" => HasChanged(t, "in_flight", "error")
        /\ next = "give_back" => /\ tx[t].was \in {"in_flight", "settled"}
                                 /\ HasChanged(t, tx[t].was, "absent")
        /\ next = "batch" => IsPurging(t, Document)
        /\ next = "wipe" => IsWiping(t)
        /\ next = "zero" => IsPurging(t, {})
        /\ next = "lock" => IsLocking(t)
        /\ next = "correct" => IsCorrecting(t)
        /\ next = "commit" => CanCommit(t)

TransactionsInv == Types /\ OneHolder /\ Committed /\ \A t \in Transaction : Phase(t)

(* The lock is held by one that is at its end.                             *)
LockIsTaken ==
    reserving # NoTransaction => tx[reserving].next \in {"reserve", "insert", "commit"}
-----------------------------------------------------------------------------
(* Sums over finitely many rows.                                           *)

LEMMA FinitelyManyUnits ==
    ASSUME NEW S, IsFiniteSet(S), NEW f, \A x \in S : f[x] \in Nat
    PROVE  IsFiniteSet(AllUnits(S, f))
<1> DEFINE G == [x \in S |-> Units(x, f[x])]
           T == {Units(x, f[x]) : x \in S}
<1>1. G \in Surjection(S, T)
  BY DEF Surjection
<1>2. IsFiniteSet(T)
  BY <1>1, FS_Surjection
<1>3. \A U \in T : IsFiniteSet(U)
  BY UnitsCount
<1> QED
  BY <1>2, <1>3, FS_UNION DEF AllUnits

(* A sum of larger numbers is not smaller.                                 *)
LEMMA TotalMonotone ==
    ASSUME NEW S, IsFiniteSet(S), NEW f, NEW g,
           \A x \in S : f[x] \in Nat /\ g[x] \in Nat /\ f[x] <= g[x]
    PROVE  Total(S, f) <= Total(S, g)
<1>1. \A x \in S : Units(x, f[x]) \subseteq Units(x, g[x])
  <2> TAKE x \in S
  <2>1. f[x] \in Nat /\ g[x] \in Nat /\ f[x] <= g[x]
    OBVIOUS
  <2>2. 1 .. f[x] \subseteq 1 .. g[x]
    BY <2>1
  <2> QED
    BY <2>2 DEF Units
<1>2. AllUnits(S, f) \in SUBSET AllUnits(S, g)
  BY <1>1 DEF AllUnits
<1>3. IsFiniteSet(AllUnits(S, g))
  BY FinitelyManyUnits
<1> QED
  BY <1>2, <1>3, FS_Subset DEF Total

LEMMA PagesAreNat == \A d \in Document : Pages[d] \in Nat /\ Pages[d] > 0
BY TransactionsAssumption

LEMMA SomeDocuments ==
    ASSUME NEW S, S \subseteq Document
    PROVE  /\ IsFiniteSet(S) /\ Cardinality(S) \in Nat
           /\ IsFiniteSet(AllUnits(S, Pages)) /\ Total(S, Pages) \in Nat
<1>1. IsFiniteSet(S) /\ Cardinality(S) \in Nat
  BY TransactionsAssumption, FS_Subset, FS_CardinalityType
<1>2. IsFiniteSet(AllUnits(S, Pages))
  BY <1>1, FinitelyManyUnits, PagesAreNat
<1> QED
  BY <1>1, <1>2, TotalType

(* The sets that are summed over are sets of documents.                    *)
LEMMA RowSets ==
    ASSUME NEW f, NEW l
    PROVE  /\ \A s : In(f, l, s) \subseteq Document
           /\ Charged(f) \subseteq Document /\ ChargedIn(f, l) \subseteq Charged(f)
           /\ ChargedIn(f, l) = In(f, l, "settled") \cup In(f, l, "in_flight")
           /\ In(f, l, "settled") \cap In(f, l, "in_flight") = {}
           /\ DocsOf(l) \subseteq Document
BY DEF In, Charged, ChargedIn, DocsOf

LEMMA RowTotals ==
    ASSUME NEW f, NEW l
    PROVE  /\ \A s \in Status : Total(In(f, l, s), Pages) \in Nat
                                /\ Cardinality(In(f, l, s)) \in Nat
           /\ Total(Charged(f), Pages) \in Nat /\ Total(ChargedIn(f, l), Pages) \in Nat
           /\ Total(ChargedIn(f, l), Pages)
                = Total(In(f, l, "settled"), Pages) + Total(In(f, l, "in_flight"), Pages)
<1>1. \A s \in Status : In(f, l, s) \subseteq Document
  BY RowSets
<1>2. ChargedIn(f, l) \subseteq Document /\ Charged(f) \subseteq Document
      /\ In(f, l, "settled") \subseteq Document /\ In(f, l, "in_flight") \subseteq Document
  BY RowSets
<1>3. \A s \in Status : Total(In(f, l, s), Pages) \in Nat /\ Cardinality(In(f, l, s)) \in Nat
  BY <1>1, SomeDocuments
<1>4. Total(Charged(f), Pages) \in Nat /\ Total(ChargedIn(f, l), Pages) \in Nat
  BY <1>2, SomeDocuments
<1>5. /\ IsFiniteSet(AllUnits(In(f, l, "settled"), Pages))
      /\ IsFiniteSet(AllUnits(In(f, l, "in_flight"), Pages))
  BY <1>2, SomeDocuments
<1>6. Total(In(f, l, "settled") \cup In(f, l, "in_flight"), Pages)
        = Total(In(f, l, "settled"), Pages) + Total(In(f, l, "in_flight"), Pages)
  BY <1>5, RowSets, TotalUnion
<1> QED
  BY <1>3, <1>4, <1>6, RowSets

(* The documents of l are the same in f and in g but for rows in 'error'   *)
(* that are deleted: no counter and no cap can tell.                       *)
Carries(f, g, l) ==
    \A d \in DocsOf(l) : g[d] = f[d] \/ (f[d] = "error" /\ g[d] = "absent")

LEMMA CarriedSets ==
    ASSUME NEW f, NEW g, NEW l, Carries(f, g, l)
    PROVE  /\ In(f, l, "settled") = In(g, l, "settled")
           /\ In(f, l, "in_flight") = In(g, l, "in_flight")
           /\ ChargedIn(f, l) = ChargedIn(g, l)
BY DEF Carries, In, Charged, ChargedIn, DocsOf

LEMMA CarriedRow ==
    ASSUME NEW f, NEW g, NEW l, Carries(f, g, l), NEW row, NEW k
    PROVE  /\ Counts(row, l, f, k) => Counts(row, l, g, k)
           /\ RowOK(row, l, f, k) => RowOK(row, l, g, k)
<1>1. RowIsLive(row, l, f, k) => RowIsLive(row, l, g, k)
  BY DEF RowIsLive, Carries
<1> QED
  BY <1>1, CarriedSets DEF RowOK, Counts, HasRoom

(* One document changes its status.                                        *)
LEMMA OneDocument ==
    ASSUME NEW d \in Document, NEW f, NEW g, \A e \in Document \ {d} : g[e] = f[e],
           NEW l, l = LibraryOf[d], NEW s, f[d] = s, g[d] # s
    PROVE  /\ Total(In(f, l, s), Pages) = Total(In(g, l, s), Pages) + Pages[d]
           /\ Cardinality(In(f, l, s)) = Cardinality(In(g, l, s)) + 1
           /\ In(g, l, s) = In(f, l, s) \ {d}
<1> DEFINE S == In(f, l, s)
           T == In(g, l, s)
<1>1. S = T \cup {d} /\ d \notin T /\ T = S \ {d}
  BY DEF In
<1>2. T \subseteq Document
  BY DEF In
<1> HIDE DEF S, T
<1>3. IsFiniteSet(T) /\ Cardinality(T) \in Nat /\ IsFiniteSet(AllUnits(T, Pages))
  BY <1>2, SomeDocuments
<1>4. Total(S, Pages) = Total(T, Pages) + Pages[d]
  BY <1>1, <1>3, PagesAreNat, TotalAdd
<1>5. Cardinality(S) = Cardinality(T) + 1
  BY <1>1, <1>3, FS_AddElement
<1> QED
  BY <1>1, <1>4, <1>5 DEF S, T

LEMMA OtherSets ==
    ASSUME NEW d \in Document, NEW f, NEW g, \A e \in Document \ {d} : g[e] = f[e],
           NEW l, NEW s, f[d] # s, g[d] # s
    PROVE  In(f, l, s) = In(g, l, s)
BY DEF In
-----------------------------------------------------------------------------
(* Rows and drafts.                                                        *)

LEMMA WrittenDraft ==
    ASSUME NEW Key, NEW Row, NEW draft \in Drafts(Key, Row), NEW x \in Key, NEW row \in Row
    PROVE  Written(draft, x, row) \in Drafts(Key, Row)
<1>1. PICK S \in SUBSET Key : draft \in [S -> Row]
  BY DEF Drafts
<1>2. Written(draft, x, row) \in [S \cup {x} -> Row] /\ S \cup {x} \in SUBSET Key
  BY <1>1 DEF Written
<1> QED
  BY <1>2 DEF Drafts

LEMMA DraftType ==
    ASSUME NEW Key, NEW Row, NEW draft \in Drafts(Key, Row)
    PROVE  DOMAIN draft \subseteq Key /\ \A x \in DOMAIN draft : draft[x] \in Row
BY DEF Drafts

LEMMA NothingDraft ==
    ASSUME NEW Key, NEW Row
    PROVE  Nothing \in Drafts(Key, Row) /\ DOMAIN Nothing = {}
<1>1. Nothing \in [{} -> Row] /\ {} \in SUBSET Key
  BY DEF Nothing
<1> QED
  BY <1>1 DEF Nothing, Drafts

LEMMA HeldAreRows ==
    ASSUME Types, NEW t \in Transaction
    PROVE  /\ libraryDraft[t] \in Drafts(Library, LibraryRow)
           /\ statusDraft[t] \in Drafts(Document, Status)
           /\ Held(t) \subseteq Library /\ \A l \in Held(t) : libraryDraft[t][l] \in LibraryRow
           /\ Kept(t) \subseteq Document /\ \A d \in Kept(t) : statusDraft[t][d] \in Status
<1>1. /\ libraryDraft[t] \in Drafts(Library, LibraryRow)
      /\ statusDraft[t] \in Drafts(Document, Status)
  BY DEF Types
<1> QED
  BY <1>1, DraftType DEF Held, Kept

LEMMA SeenTypes ==
    ASSUME Types, NEW t \in Transaction
    PROVE  /\ \A l \in Library : LibrarySeen(t, l) \in LibraryRow
           /\ View(t) \in [Document -> Status]
<1>1. library \in [Library -> LibraryRow] /\ status \in [Document -> Status]
  BY DEF Types
<1> QED
  BY <1>1, HeldAreRows DEF LibrarySeen, StatusSeen, View, Held, Kept

LEMMA RowType ==
    ASSUME NEW row \in LibraryRow
    PROVE  /\ row.row \in {"none", "live", "purged"} /\ row.due \in BOOLEAN
           /\ row.page_count \in Nat /\ row.pages_reserved \in Nat /\ row.doc_count \in Nat
BY DEF LibraryRow

LEMMA TxFields ==
    ASSUME NEW x \in TxState
    PROVE  /\ x.next \in Statement /\ x.doc \in Document \cup {NoDocument}
           /\ x.lib \in Library \cup {NoLibrary} /\ x.was \in Status
           /\ x.todo \in SUBSET (Library \cup Document) /\ x.n \in Nat
           /\ x.counted \in UNION {[S -> CountedRow] : S \in SUBSET Library}
           /\ x.corrected \in SUBSET Library
BY DEF TxState
-----------------------------------------------------------------------------
(* What other transactions do leaves a transaction where it is: they       *)
(* neither change the rows that it has locked, but for documents in        *)
(* 'error' of its libraries, nor take pages while it reserves some.        *)

Unmoved(u) ==
    /\ libraryDraft'[u] = libraryDraft[u] /\ statusDraft'[u] = statusDraft[u]
    /\ tx'[u] = tx[u] /\ (reserving' = u <=> reserving = u)

Spares(u) ==
    /\ \A l \in Held(u) : /\ library'[l] = library[l] /\ drift'[l] = drift[l]
                          /\ Carries(status, status', l)
    /\ \A d \in Kept(u) : status'[d] = status[d]
    /\ \A l \in Library : drift'[l] = drift[l] \/ drift'[l] = 0
    /\ reserving = u => Charged(status') \subseteq Charged(status)

LEMMA UnmovedParts ==
    ASSUME NEW u \in Transaction, Unmoved(u), Spares(u)
    PROVE  /\ Held(u)' = Held(u) /\ Kept(u)' = Kept(u)
           /\ IsFresh(u)' <=> IsFresh(u)
           /\ ForDocument(u)' <=> ForDocument(u)
           /\ \A d \in Kept(u) : StatusSeen(u, d)' = StatusSeen(u, d)
           /\ \A d \in Document \ Kept(u) : StatusSeen(u, d) = status[d]
                                            /\ StatusSeen(u, d)' = status'[d]
           /\ \A l \in Held(u) : DriftSeen(u, l)' = DriftSeen(u, l)
<1>1. Held(u)' = Held(u) /\ Kept(u)' = Kept(u)
  BY DEF Unmoved, Held, Kept
<1>2. (IsFresh(u)' <=> IsFresh(u)) /\ (ForDocument(u)' <=> ForDocument(u))
  BY <1>1 DEF Unmoved, IsFresh, ForDocument
<1>3. /\ \A d \in Kept(u) : StatusSeen(u, d)' = StatusSeen(u, d)
      /\ \A d \in Document \ Kept(u) : StatusSeen(u, d) = status[d]
                                       /\ StatusSeen(u, d)' = status'[d]
  BY <1>1 DEF Unmoved, StatusSeen, Kept
<1>4. \A l \in Held(u) : DriftSeen(u, l)' = DriftSeen(u, l)
  BY DEF Unmoved, Spares, DriftSeen
<1> QED
  BY <1>1, <1>2, <1>3, <1>4

LEMMA CanCommitFrame ==
    ASSUME Types, NEW u \in Transaction, Unmoved(u), Spares(u), CanCommit(u)
    PROVE  CanCommit(u)'
<1> DEFINE V == View(u)
           W == View(u)'
<1>1. Held(u)' = Held(u) /\ Kept(u)' = Kept(u) /\ Held(u) \subseteq Library
      /\ Kept(u) \subseteq Document
  BY UnmovedParts, HeldAreRows
<1>2. /\ \A d \in Kept(u) : W[d] = V[d]
      /\ \A d \in Document \ Kept(u) : V[d] = status[d] /\ W[d] = status'[d]
  BY <1>1, UnmovedParts DEF View
<1>3. (tx[u].corrected \subseteq Held(u))'
  BY <1>1 DEF CanCommit, Unmoved
<1>4. (\A d \in Kept(u) : LibraryOf[d] \in Held(u) \/ Chargeless(u, d))'
  BY <1>1 DEF CanCommit, Unmoved, Chargeless, Spares
<1>5. \A l \in Held(u) : RowOK(libraryDraft'[u][l], l, W, DriftSeen(u, l)')
  <2> TAKE l \in Held(u)
  <2>1. Carries(V, W, l)
    BY <1>2 DEF Spares, Carries, DocsOf
  <2>2. RowOK(libraryDraft'[u][l], l, V, DriftSeen(u, l)')
    <3>1. DriftSeen(u, l)' = DriftSeen(u, l) /\ libraryDraft'[u][l] = libraryDraft[u][l]
      BY UnmovedParts DEF Unmoved
    <3> QED
      BY <3>1 DEF CanCommit
  <2> HIDE DEF V, W
  <2> QED
    BY <2>1, <2>2, CarriedRow
<1>6. \/ Charged(W) \subseteq Charged(status')
      \/ /\ reserving' = u
         /\ \E d \in Document : Charged(W) \subseteq Charged(status') \cup {d} /\ FitsGlobally(u, d)'
  <2>1. \A d \in Kept(u) : /\ d \in Charged(W) <=> d \in Charged(V)
                           /\ d \in Charged(status) <=> d \in Charged(status')
    BY <1>1, <1>2 DEF Charged, Spares
  <2>2. \A d \in Document \ Kept(u) : d \in Charged(W) <=> d \in Charged(status')
    BY <1>2 DEF Charged
  <2>3. Charged(W) \subseteq Document
    BY RowSets
  <2>4. CASE Charged(V) \subseteq Charged(status)
    BY <2>1, <2>2, <2>3, <2>4
  <2>5. ASSUME reserving = u, NEW d \in Document,
               Charged(V) \subseteq Charged(status) \cup {d}, FitsGlobally(u, d)
        PROVE  Charged(W) \subseteq Charged(status') \cup {d} /\ FitsGlobally(u, d)'
    <3>1. Charged(W) \subseteq Charged(status') \cup {d}
      BY <2>1, <2>2, <2>3, <2>5
    <3>2. Charged(status') \cup {d} \subseteq Charged(status) \cup {d}
      BY <2>5 DEF Spares
    <3>3. IsFiniteSet(AllUnits(Charged(status) \cup {d}, Pages))
          /\ Total(Charged(status) \cup {d}, Pages) \in Nat
      BY RowSets, SomeDocuments
    <3>4. Total(Charged(status') \cup {d}, Pages) <= Total(Charged(status) \cup {d}, Pages)
      BY <3>2, <3>3, TotalSubset
    <3>5. Total(Charged(status') \cup {d}, Pages) \in Nat
      BY RowSets, SomeDocuments
    <3>6. FitsGlobally(u, d)'
      BY <2>5, <3>3, <3>4, <3>5, TransactionsAssumption DEF FitsGlobally
    <3> QED
      BY <3>1, <3>6
  <2> HIDE DEF V, W
  <2>6. \/ Charged(V) \subseteq Charged(status)
        \/ /\ reserving = u
           /\ \E d \in Document : Charged(V) \subseteq Charged(status) \cup {d} /\ FitsGlobally(u, d)
    BY DEF CanCommit, V
  <2> QED
    BY <2>4, <2>5, <2>6 DEF Unmoved
<1> QED
  BY <1>1, <1>3, <1>4, <1>5, <1>6 DEF CanCommit

LEMMA EnsuredFrame ==
    ASSUME Types, NEW u \in Transaction, Unmoved(u), Spares(u)
    PROVE  HasEnsured(u) => HasEnsured(u)'
<1> SUFFICES ASSUME HasEnsured(u) PROVE HasEnsured(u)'
  OBVIOUS
<1> DEFINE l == tx[u].lib
<1>1. l \in Held(u) /\ RowOK(libraryDraft[u][l], l, status, drift[l])
  BY DEF HasEnsured
<1>2. Carries(status, status', l) /\ drift'[l] = drift[l]
  BY <1>1 DEF Spares
<1>3. RowOK(libraryDraft[u][l], l, status', drift[l])
  BY <1>1, <1>2, CarriedRow
<1> QED
  BY <1>2, <1>3, UnmovedParts DEF HasEnsured, Unmoved

LEMMA ReservedFrame ==
    ASSUME Types, NEW u \in Transaction, Unmoved(u), Spares(u)
    PROVE  HasReserved(u) => HasReserved(u)'
<1> SUFFICES ASSUME HasReserved(u) PROVE HasReserved(u)'
  OBVIOUS
<1> DEFINE l == tx[u].lib
           d == tx[u].doc
<1>1. l \in Held(u) /\ reserving = u /\ d \in Document
      /\ Counts(libraryDraft[u][l], l, status, drift[l] + Pages[d])
      /\ Total(ChargedIn(status, l), Pages) + Pages[d] <= QuotaPages[l]
      /\ Total(Charged(status), Pages) + Pages[d] <= GlobalPages
  BY DEF HasReserved, ForDocument
<1>2. Carries(status, status', l) /\ drift'[l] = drift[l]
      /\ Charged(status') \subseteq Charged(status)
  BY <1>1 DEF Spares
<1>3. Counts(libraryDraft[u][l], l, status', drift[l] + Pages[d])
      /\ ChargedIn(status', l) = ChargedIn(status, l)
  BY <1>1, <1>2, CarriedRow, CarriedSets
<1>4. Total(Charged(status'), Pages) <= Total(Charged(status), Pages)
  <2>1. IsFiniteSet(AllUnits(Charged(status), Pages))
    BY RowSets, SomeDocuments
  <2> QED
    BY <2>1, <1>2, TotalSubset
<1>5. Total(Charged(status'), Pages) \in Nat /\ Total(Charged(status), Pages) \in Nat
      /\ Pages[d] \in Nat /\ GlobalPages \in Nat
  BY <1>1, RowTotals, PagesAreNat, TransactionsAssumption
<1>6. Total(Charged(status'), Pages) + Pages[d] <= GlobalPages
  BY <1>1, <1>4, <1>5
<1>7. tx'[u] = tx[u] /\ libraryDraft'[u] = libraryDraft[u] /\ reserving' = u
  BY <1>1 DEF Unmoved
<1>8. ForDocument(u)' /\ Held(u)' = {l} /\ Kept(u)' = {} /\ tx[u].corrected = {}
      /\ libraryDraft[u][l].row = "live"
  BY UnmovedParts DEF HasReserved
<1> QED
  BY <1>1, <1>2, <1>3, <1>6, <1>7, <1>8 DEF HasReserved

LEMMA PurgingFrame ==
    ASSUME Types, NEW u \in Transaction, Unmoved(u), Spares(u), NEW rest
    PROVE  IsPurging(u, rest) => IsPurging(u, rest)'
<1> SUFFICES ASSUME IsPurging(u, rest) PROVE IsPurging(u, rest)'
  OBVIOUS
<1> DEFINE l == tx[u].lib
<1>1. l \in Library /\ Held(u) = {l} /\ tx[u].corrected = {}
      /\ (\A d \in Kept(u) : LibraryOf[d] = l /\ statusDraft[u][d] = "absent")
      /\ \A d \in DocsOf(l) : StatusSeen(u, d) # "absent" => d \in rest
  BY DEF IsPurging
<1>2. Carries(status, status', l)
  BY <1>1 DEF Spares
<1>3. \A d \in DocsOf(l) : StatusSeen(u, d)' # "absent" => StatusSeen(u, d) # "absent"
  BY <1>2, UnmovedParts DEF Carries, DocsOf
<1>4. tx'[u] = tx[u] /\ statusDraft'[u] = statusDraft[u] /\ Held(u)' = Held(u) /\ Kept(u)' = Kept(u)
  BY UnmovedParts DEF Unmoved
<1> HIDE DEF l
<1>5. \A d \in DocsOf(l) : StatusSeen(u, d)' # "absent" => d \in rest
  BY <1>1, <1>3
<1> QED
  BY <1>1, <1>4, <1>5 DEF IsPurging, l

LEMMA RecountFrame ==
    ASSUME Types, NEW u \in Transaction, Unmoved(u), Spares(u)
    PROVE  /\ IsLocking(u) => IsLocking(u)'
           /\ IsCorrecting(u) => IsCorrecting(u)'
<1>1. /\ Held(u)' = Held(u) /\ Kept(u)' = Kept(u) /\ tx'[u] = tx[u]
      /\ libraryDraft'[u] = libraryDraft[u]
      /\ \A l \in Held(u) : library'[l] = library[l] /\ Carries(status, status', l)
      /\ \A l \in Library : drift'[l] = drift[l] \/ drift'[l] = 0
  BY UnmovedParts DEF Unmoved, Spares
<1>2. CanCommit(u) => CanCommit(u)'
  BY CanCommitFrame
<1>3. IsLocking(u) => IsLocking(u)'
  <2> SUFFICES ASSUME IsLocking(u) PROVE IsLocking(u)'
    OBVIOUS
  <2>1. \A l \in Library : drift'[l] > 0 => drift[l] > 0
    BY <1>1
  <2> QED
    BY <1>1, <1>2, <2>1 DEF IsLocking
<1>4. IsCorrecting(u) => IsCorrecting(u)'
  <2> SUFFICES ASSUME IsCorrecting(u) PROVE IsCorrecting(u)'
    OBVIOUS
  <2>1. ASSUME NEW l \in tx[u].todo
        PROVE  l \in Held(u) /\ Counts(tx[u].counted[l], l, status', 0)
               /\ libraryDraft[u][l] = library[l] /\ l \in DOMAIN tx[u].counted
    <3>1. l \in Held(u) /\ Counts(tx[u].counted[l], l, status, 0)
          /\ libraryDraft[u][l] = library[l] /\ l \in DOMAIN tx[u].counted
      BY DEF IsCorrecting
    <3>2. Carries(status, status', l)
      BY <1>1, <3>1
    <3> QED
      BY <3>1, <3>2, CarriedRow
  <2> QED
    BY <1>1, <1>2, <2>1 DEF IsCorrecting
<1> QED
  BY <1>3, <1>4

LEMMA PhaseFrame ==
    ASSUME Types, NEW u \in Transaction, Unmoved(u), Spares(u), Phase(u)
    PROVE  Phase(u)'
<1>1. tx'[u] = tx[u] /\ (reserving' = u <=> reserving = u)
  BY DEF Unmoved
<1>2. (IsFresh(u)' <=> IsFresh(u)) /\ (ForDocument(u)' <=> ForDocument(u))
  BY UnmovedParts
<1>3. \A before, after : HasChanged(u, before, after) => HasChanged(u, before, after)'
  BY UnmovedParts DEF HasChanged, Unmoved, Spares
<1>4. IsWiping(u) => IsWiping(u)'
  <2> SUFFICES ASSUME IsWiping(u) PROVE IsWiping(u)'
    OBVIOUS
  <2>1. PICK rest : rest = tx[u].todo
    OBVIOUS
  <2>2. IsPurging(u, rest)
    BY <2>1 DEF IsWiping
  <2>3. IsPurging(u, rest)'
    BY <2>2, PurgingFrame
  <2>4. tx'[u].todo = rest
    BY <1>1, <2>1
  <2>5. IsPurging(u, tx[u].todo)'
    BY <2>3, <2>4 DEF IsPurging
  <2> QED
    BY <1>1, <2>5 DEF IsWiping
<1>5. /\ IsPurging(u, Document) => IsPurging(u, Document)'
      /\ IsPurging(u, {}) => IsPurging(u, {})'
  BY PurgingFrame
<1>6. /\ HasEnsured(u) => HasEnsured(u)'
      /\ HasReserved(u) => HasReserved(u)'
      /\ IsLocking(u) => IsLocking(u)'
      /\ IsCorrecting(u) => IsCorrecting(u)'
      /\ CanCommit(u) => CanCommit(u)'
  BY EnsuredFrame, ReservedFrame, RecountFrame, CanCommitFrame
<1>7. \A before : HasChanged(u, before, "absent") => HasChanged(u, before, "absent")'
  BY <1>3
<1> QED
  BY <1>1, <1>2, <1>3, <1>4, <1>5, <1>6, <1>7 DEF Phase
-----------------------------------------------------------------------------
(* A statement of t that commits nothing concerns t only.                  *)

LibrariesStep(t) ==
    /\ libraryDraft' \in [Transaction -> Drafts(Library, LibraryRow)]
    /\ \A u \in Transaction \ {t} : libraryDraft'[u] = libraryDraft[u]
    /\ \A l \in Held(t)' \ Held(t) : LibraryIsFree(t, l)
DocumentsStep(t) ==
    /\ statusDraft' \in [Transaction -> Drafts(Document, Status)]
    /\ \A u \in Transaction \ {t} : statusDraft'[u] = statusDraft[u]
    /\ \A d \in Kept(t)' \ Kept(t) : DocumentIsFree(t, d)
TxStep(t) ==
    /\ tx' \in [Transaction -> TxState]
    /\ \A u \in Transaction \ {t} : tx'[u] = tx[u]

LocalStep(t) ==
    /\ UNCHANGED <<library, status, drift>>
    /\ LibrariesStep(t) /\ DocumentsStep(t) /\ TxStep(t)
    /\ \/ UNCHANGED reserving
       \/ {reserving, reserving'} \subseteq {NoTransaction, t}

LEMMA LocksStayApart ==
    ASSUME OneHolder, NEW t \in Transaction, LibrariesStep(t), DocumentsStep(t)
    PROVE  OneHolder'
<1>1. \A u \in Transaction \ {t} : Held(u)' = Held(u) /\ Kept(u)' = Kept(u)
  BY DEF LibrariesStep, DocumentsStep, Held, Kept
<1>2. ASSUME NEW u \in Transaction \ {t}
      PROVE  Held(t)' \cap Held(u) = {} /\ Kept(t)' \cap Kept(u) = {}
  <2>1. Held(t) \cap Held(u) = {} /\ Kept(t) \cap Kept(u) = {}
    BY DEF OneHolder
  <2>2. \A l \in Held(t)' \ Held(t) : l \notin Held(u)
    BY DEF LibrariesStep, LibraryIsFree, HolderOfLibrary, Held
  <2>3. \A d \in Kept(t)' \ Kept(t) : d \notin Kept(u)
    BY DEF DocumentsStep, DocumentIsFree, HolderOfDocument, Kept
  <2> QED
    BY <2>1, <2>2, <2>3
<1>3. \A u, v \in Transaction \ {t} : u # v => Held(u)' \cap Held(v)' = {} /\ Kept(u)' \cap Kept(v)' = {}
  BY <1>1 DEF OneHolder
<1>4. ASSUME NEW u \in Transaction, NEW v \in Transaction, u # v
      PROVE  Held(u)' \cap Held(v)' = {} /\ Kept(u)' \cap Kept(v)' = {}
  <2>1. CASE u = t
    BY <2>1, <1>1, <1>2, <1>4
  <2>2. CASE v = t
    BY <2>2, <1>1, <1>2, <1>4
  <2>3. CASE u # t /\ v # t
    BY <2>3, <1>3, <1>4
  <2> QED
    BY <2>1, <2>2, <2>3
<1> QED
  BY <1>4 DEF OneHolder

LEMMA LocalStepKeepsInv ==
    ASSUME TransactionsInv, NEW t \in Transaction, LocalStep(t), Phase(t)'
    PROVE  TransactionsInv'
<1>1. Types'
  BY DEF TransactionsInv, Types, LocalStep, LibrariesStep, DocumentsStep, TxStep
<1>2. OneHolder'
  BY LocksStayApart DEF TransactionsInv, LocalStep
<1>3. Committed'
  BY DEF TransactionsInv, LocalStep, Committed
<1>4. ASSUME NEW u \in Transaction \ {t} PROVE Phase(u)'
  <2>1. Unmoved(u)
    BY TransactionsAssumption
       DEF LocalStep, LibrariesStep, DocumentsStep, TxStep, Unmoved
  <2>2. Spares(u)
    BY DEF LocalStep, Spares, Carries
  <2> QED
    BY <2>1, <2>2, PhaseFrame DEF TransactionsInv
<1> QED
  BY <1>1, <1>2, <1>3, <1>4 DEF TransactionsInv
-----------------------------------------------------------------------------
(* The parts statements are made of.                                       *)

LEMMA WritesLibrary ==
    ASSUME Types, NEW t \in Transaction, NEW l \in Library, NEW row \in LibraryRow,
           LibraryIsFree(t, l), WriteLibrary(t, l, row)
    PROVE  /\ LibrariesStep(t)
           /\ Held(t)' = Held(t) \cup {l} /\ libraryDraft'[t][l] = row
           /\ \A k \in Held(t) \ {l} : libraryDraft'[t][k] = libraryDraft[t][k]
<1> DEFINE draft == libraryDraft[t]
           new == Written(draft, l, row)
<1>1. libraryDraft \in [Transaction -> Drafts(Library, LibraryRow)]
  BY DEF Types
<1>2. libraryDraft' = [libraryDraft EXCEPT ![t] = new]
  BY DEF WriteLibrary
<1>3. draft \in Drafts(Library, LibraryRow)
  BY <1>1
<1>4. /\ new \in Drafts(Library, LibraryRow) /\ DOMAIN new = DOMAIN draft \cup {l} /\ new[l] = row
      /\ \A k \in DOMAIN draft \ {l} : new[k] = draft[k]
  <2> HIDE DEF draft
  <2>1. Written(draft, l, row) \in Drafts(Library, LibraryRow)
    BY <1>3, WrittenDraft
  <2>2. /\ DOMAIN Written(draft, l, row) = DOMAIN draft \cup {l}
        /\ Written(draft, l, row)[l] = row
        /\ \A y \in DOMAIN draft \ {l} : Written(draft, l, row)[y] = draft[y]
    BY DEF Written
  <2> QED
    BY <2>1, <2>2
<1> HIDE DEF new
<1>5. /\ libraryDraft' \in [Transaction -> Drafts(Library, LibraryRow)] /\ libraryDraft'[t] = new
      /\ \A u \in Transaction \ {t} : libraryDraft'[u] = libraryDraft[u]
  BY <1>1, <1>2, <1>4
<1> QED
  BY <1>4, <1>5 DEF LibrariesStep, Held

LEMMA WritesStatus ==
    ASSUME Types, NEW t \in Transaction, NEW d \in Document, NEW s \in Status,
           DocumentIsFree(t, d), WriteStatus(t, d, s)
    PROVE  /\ DocumentsStep(t)
           /\ Kept(t)' = Kept(t) \cup {d} /\ statusDraft'[t][d] = s
           /\ \A e \in Kept(t) \ {d} : statusDraft'[t][e] = statusDraft[t][e]
<1> DEFINE draft == statusDraft[t]
           new == Written(draft, d, s)
<1>1. statusDraft \in [Transaction -> Drafts(Document, Status)]
  BY DEF Types
<1>2. statusDraft' = [statusDraft EXCEPT ![t] = new]
  BY DEF WriteStatus
<1>3. draft \in Drafts(Document, Status)
  BY <1>1
<1>4. /\ new \in Drafts(Document, Status) /\ DOMAIN new = DOMAIN draft \cup {d} /\ new[d] = s
      /\ \A e \in DOMAIN draft \ {d} : new[e] = draft[e]
  <2> HIDE DEF draft
  <2>1. Written(draft, d, s) \in Drafts(Document, Status)
    BY <1>3, WrittenDraft
  <2>2. /\ DOMAIN Written(draft, d, s) = DOMAIN draft \cup {d}
        /\ Written(draft, d, s)[d] = s
        /\ \A y \in DOMAIN draft \ {d} : Written(draft, d, s)[y] = draft[y]
    BY DEF Written
  <2> QED
    BY <2>1, <2>2
<1> HIDE DEF new
<1>5. /\ statusDraft' \in [Transaction -> Drafts(Document, Status)] /\ statusDraft'[t] = new
      /\ \A u \in Transaction \ {t} : statusDraft'[u] = statusDraft[u]
  BY <1>1, <1>2, <1>4
<1> QED
  BY <1>4, <1>5 DEF DocumentsStep, Kept

LEMMA LeavesLibraries ==
    ASSUME Types, NEW t \in Transaction, UNCHANGED libraryDraft
    PROVE  LibrariesStep(t) /\ Held(t)' = Held(t) /\ libraryDraft'[t] = libraryDraft[t]
BY DEF Types, LibrariesStep, Held

LEMMA LeavesDocuments ==
    ASSUME Types, NEW t \in Transaction, UNCHANGED statusDraft
    PROVE  DocumentsStep(t) /\ Kept(t)' = Kept(t) /\ statusDraft'[t] = statusDraft[t]
BY DEF Types, DocumentsStep, Kept

(* The fields of tx[t] that a statement names change, the others do not.   *)
LEMMA GoesOn ==
    ASSUME Types, NEW t \in Transaction, NEW x \in TxState, tx' = [tx EXCEPT ![t] = x]
    PROVE  TxStep(t) /\ tx'[t] = x
BY DEF Types, TxStep

LEMMA EmptyTx == NoTx \in TxState /\ NoTx.next = "idle" /\ NoTx.corrected = {}
<1>1. Nothing \in UNION {[S -> CountedRow] : S \in SUBSET Library}
  BY NothingDraft DEF Drafts
<1>2. "idle" \in Statement /\ "absent" \in Status
  BY DEF Statement, Status
<1> HIDE DEF Nothing
<1> QED
  BY <1>1, <1>2 DEF NoTx, TxState

LEMMA Goes ==
    ASSUME Types, NEW t \in Transaction, NEW statement \in Statement, Goto(t, statement)
    PROVE  /\ TxStep(t)
           /\ tx'[t].next = statement
           /\ tx'[t].doc = tx[t].doc /\ tx'[t].lib = tx[t].lib /\ tx'[t].was = tx[t].was
           /\ tx'[t].todo = tx[t].todo /\ tx'[t].n = tx[t].n
           /\ tx'[t].counted = tx[t].counted /\ tx'[t].corrected = tx[t].corrected
<1> DEFINE x == [tx[t] EXCEPT !.next = statement]
<1>1. tx[t] \in TxState
  BY DEF Types
<1>2. /\ x \in TxState /\ x.next = statement /\ x.doc = tx[t].doc /\ x.lib = tx[t].lib
      /\ x.was = tx[t].was /\ x.todo = tx[t].todo /\ x.n = tx[t].n
      /\ x.counted = tx[t].counted /\ x.corrected = tx[t].corrected
  BY <1>1 DEF TxState
<1>3. tx' = [tx EXCEPT ![t] = x]
  BY DEF Goto
<1> HIDE DEF x
<1> QED
  BY <1>2, <1>3, GoesOn
-----------------------------------------------------------------------------
(* Where each statement leaves its own transaction.                        *)

LEMMA PhaseParts ==
    ASSUME TransactionsInv, NEW t \in Transaction
    PROVE  /\ Types /\ OneHolder /\ Committed /\ Phase(t) /\ tx[t] \in TxState
           /\ library \in [Library -> LibraryRow] /\ status \in [Document -> Status]
           /\ drift \in [Library -> Nat]
           /\ \A l \in Library : RowOK(library[l], l, status, drift[l])
           /\ \A d \in Document : LibraryOf[d] \in Library
BY TransactionsAssumption DEF TransactionsInv, Types, Committed

LEMMA FreshCanCommit ==
    ASSUME NEW t \in Transaction, Types, Held(t) = {}, tx[t].corrected = {},
           \A d \in Kept(t) : Chargeless(t, d)
    PROVE  CanCommit(t)
<1>1. ASSUME NEW d \in Charged(View(t)) PROVE d \in Charged(status)
  <2>1. d \in Document /\ StatusSeen(t, d) \in {"in_flight", "settled"}
    BY DEF Charged, View
  <2>2. CASE d \in Kept(t)
    <3>1. statusDraft[t][d] \in {"in_flight", "settled"} /\ Chargeless(t, d)
      BY <2>1, <2>2 DEF StatusSeen, Kept
    <3> QED
      BY <2>1, <3>1 DEF Chargeless, Charged
  <2>3. CASE d \notin Kept(t)
    BY <2>1, <2>3 DEF StatusSeen, Kept, Charged
  <2> QED
    BY <2>2, <2>3
<1> QED
  BY <1>1 DEF CanCommit

LEMMA BeginStep ==
    ASSUME TransactionsInv, NEW t \in Transaction,
           NEW statement \in {"ensure", "index", "record", "delete", "lock_due", "list"},
           NEW d \in Document \cup {NoDocument}, NEW l \in Library \cup {NoLibrary},
           statement \in {"ensure", "index", "record", "delete"}
             => d \in Document /\ l = LibraryOf[d],
           statement = "lock_due" => l \in Library,
           Begin(t, statement, d, l)
    PROVE  LocalStep(t) /\ Phase(t)'
<1> DEFINE x == [NoTx EXCEPT !.next = statement, !.doc = d, !.lib = l]
<1>0. Types /\ Phase(t) /\ tx[t].next = "idle"
  BY PhaseParts DEF Begin
<1>1. IsFresh(t)
  BY <1>0 DEF Phase
<1>2. x \in TxState /\ x.next = statement /\ x.doc = d /\ x.lib = l /\ x.corrected = {}
  <2>1. Nothing \in UNION {[S -> CountedRow] : S \in SUBSET Library}
    BY NothingDraft DEF Drafts
  <2> HIDE DEF Nothing
  <2>2. "idle" \in Statement /\ "absent" \in Status /\ statement \in Statement
    BY DEF Statement, Status
  <2>3. NoTx \in TxState /\ NoTx.corrected = {}
    BY <2>1, <2>2 DEF NoTx, TxState
  <2> QED
    BY <2>2, <2>3 DEF TxState
<1>3. tx' = [tx EXCEPT ![t] = x] /\ UNCHANGED <<library, status, drafts, reserving, drift>>
  BY DEF Begin
<1> HIDE DEF x
<1>4. TxStep(t) /\ tx'[t] = x
  BY <1>0, <1>2, <1>3, GoesOn
<1>5. LibrariesStep(t) /\ DocumentsStep(t) /\ Held(t)' = {} /\ Kept(t)' = {}
  BY <1>0, <1>1, <1>3, LeavesLibraries, LeavesDocuments DEF IsFresh, drafts
<1>6. LocalStep(t)
  BY <1>3, <1>4, <1>5 DEF LocalStep
<1>7. IsFresh(t)' /\ tx'[t].next = statement
  BY <1>2, <1>4, <1>5 DEF IsFresh
<1>8. statement \in {"ensure", "index", "record", "delete"} => ForDocument(t)'
  BY <1>2, <1>4 DEF ForDocument
<1>9. statement = "lock_due" => tx'[t].lib \in Library
  BY <1>2, <1>4
<1> QED
  BY <1>6, <1>7, <1>8, <1>9 DEF Phase

LEMMA EnsureLibraryStep ==
    ASSUME TransactionsInv, NEW t \in Transaction, EnsureLibrary(t)
    PROVE  LocalStep(t) /\ Phase(t)'
<1> DEFINE l == tx[t].lib
           row == [library[l] EXCEPT !.row = IF @ = "none" THEN "live" ELSE @]
<1>1. /\ Types /\ IsFresh(t) /\ ForDocument(t) /\ l \in Library
      /\ library[l] \in LibraryRow /\ RowOK(library[l], l, status, drift[l])
  BY PhaseParts DEF EnsureLibrary, Phase, ForDocument
<1>2. /\ row \in LibraryRow /\ row.page_count = library[l].page_count
      /\ row.pages_reserved = library[l].pages_reserved /\ row.doc_count = library[l].doc_count
      /\ library[l].row = "live" => row.row = "live"
  BY <1>1 DEF LibraryRow
<1>3. /\ LibraryIsFree(t, l) /\ WriteLibrary(t, l, row) /\ Goto(t, "advisory")
      /\ UNCHANGED <<library, status, statusDraft, reserving, drift>>
  BY DEF EnsureLibrary
<1> HIDE DEF row
<1>4. RowOK(row, l, status, drift[l])
  BY <1>1, <1>2 DEF RowOK, Counts, RowIsLive
<1>5. LibrariesStep(t) /\ Held(t)' = {l} /\ libraryDraft'[t][l] = row
  BY <1>1, <1>2, <1>3, WritesLibrary DEF IsFresh
<1>6. DocumentsStep(t) /\ Kept(t)' = {}
  BY <1>1, <1>3, LeavesDocuments DEF IsFresh
<1>7. /\ TxStep(t) /\ tx'[t].next = "advisory" /\ tx'[t].doc = tx[t].doc /\ tx'[t].lib = l
      /\ tx'[t].corrected = {}
  BY <1>1, <1>3, Goes DEF Statement, IsFresh
<1>8. LocalStep(t)
  BY <1>3, <1>5, <1>6, <1>7 DEF LocalStep
<1>9. HasEnsured(t)'
  BY <1>1, <1>3, <1>4, <1>5, <1>6, <1>7 DEF HasEnsured, ForDocument
<1> QED
  BY <1>7, <1>8, <1>9 DEF Phase

LEMMA AdvisoryLockStep ==
    ASSUME TransactionsInv, NEW t \in Transaction, AdvisoryLock(t)
    PROVE  LocalStep(t) /\ Phase(t)'
<1>1. Types /\ HasEnsured(t)
  BY PhaseParts DEF AdvisoryLock, Phase
<1>2. /\ reserving = NoTransaction /\ reserving' = t /\ Goto(t, "reserve")
      /\ UNCHANGED <<library, status, libraryDraft, statusDraft, drift>>
  BY DEF AdvisoryLock, drafts
<1>3. /\ LibrariesStep(t) /\ Held(t)' = Held(t) /\ libraryDraft'[t] = libraryDraft[t]
      /\ DocumentsStep(t) /\ Kept(t)' = Kept(t)
  BY <1>1, <1>2, LeavesLibraries, LeavesDocuments
<1>4. /\ TxStep(t) /\ tx'[t].next = "reserve" /\ tx'[t].doc = tx[t].doc
      /\ tx'[t].lib = tx[t].lib /\ tx'[t].corrected = tx[t].corrected
  BY <1>1, <1>2, Goes DEF Statement
<1>5. LocalStep(t)
  BY <1>2, <1>3, <1>4 DEF LocalStep
<1>6. HasEnsured(t)'
  BY <1>1, <1>2, <1>3, <1>4 DEF HasEnsured, ForDocument
<1> QED
  BY <1>2, <1>4, <1>5, <1>6 DEF Phase

(* Where every row is sound, the usage of the live libraries covers the    *)
(* pages of all documents that are charged.                                *)
LEMMA UsageCoversCharged ==
    ASSUME NEW f, NEW off \in [Library -> Nat], NEW seen,
           \A k \in Library : seen[k] \in LibraryRow /\ RowOK(seen[k], k, f, off[k])
    PROVE  LET live == {k \in Library : seen[k].row = "live"}
               used == Total(live, [k \in Library |-> Usage(seen[k])])
           IN  used \in Nat /\ Total(Charged(f), Pages) <= used
<1> DEFINE live == {k \in Library : seen[k].row = "live"}
           P == [k \in Library |-> ChargedIn(f, k)]
           g == [k \in Library |-> Total(ChargedIn(f, k), Pages)]
           h == [k \in Library |-> Usage(seen[k])]
<1>1. \A k \in Library : g[k] \in Nat /\ h[k] \in Nat /\ g[k] <= h[k]
  <2> TAKE k \in Library
  <2>1. /\ seen[k].page_count \in Nat /\ seen[k].pages_reserved \in Nat
        /\ seen[k].page_count = Total(In(f, k, "settled"), Pages)
        /\ seen[k].pages_reserved = Total(In(f, k, "in_flight"), Pages) + off[k]
    BY RowType DEF RowOK, Counts
  <2>2. /\ Total(ChargedIn(f, k), Pages)
             = Total(In(f, k, "settled"), Pages) + Total(In(f, k, "in_flight"), Pages)
        /\ Total(In(f, k, "settled"), Pages) \in Nat /\ Total(In(f, k, "in_flight"), Pages) \in Nat
    BY RowTotals DEF Status
  <2>3. h[k] = seen[k].page_count + seen[k].pages_reserved /\ off[k] \in Nat
        /\ g[k] = Total(ChargedIn(f, k), Pages)
    BY DEF Usage
  <2> HIDE DEF g, h
  <2> QED
    BY <2>1, <2>2, <2>3
<1>2. AllParts(live, P) = Charged(f)
  <2>1. ASSUME NEW d \in Charged(f) PROVE \E k \in live : d \in P[k]
    <3>1. d \in Document /\ LibraryOf[d] \in Library /\ f[d] # "absent" /\ d \in DocsOf(LibraryOf[d])
      BY TransactionsAssumption DEF Charged, DocsOf
    <3>2. seen[LibraryOf[d]].row = "live"
      BY <3>1 DEF RowOK, RowIsLive
    <3> QED
      BY <3>1, <3>2 DEF ChargedIn
  <2>2. \A k \in live : P[k] \subseteq Charged(f)
    BY DEF ChargedIn
  <2> QED
    BY <2>1, <2>2 DEF AllParts
<1>3. \A k \in live : IsFiniteSet(AllUnits(P[k], Pages)) /\ g[k] = Total(P[k], Pages)
  <2> TAKE k \in live
  <2>1. ChargedIn(f, k) \subseteq Document
    BY RowSets
  <2> QED
    BY <2>1, SomeDocuments
<1>4. \A k, j \in live : k # j => P[k] \cap P[j] = {}
  BY DEF ChargedIn
<1>5. IsFiniteSet(AllUnits(AllParts(live, P), Pages))
  BY <1>2, RowSets, SomeDocuments
<1>6. IsFiniteSet(live) /\ \A k \in live : k \in Library
  BY TransactionsAssumption, FS_Subset
<1>7. \A k \in live : g[k] \in Nat /\ h[k] \in Nat /\ g[k] <= h[k]
  BY <1>1, <1>6
<1> HIDE DEF P, g, h, live
<1>8. Total(live, g) = Total(Charged(f), Pages)
  <2>1. Total(live, g) = Total(AllParts(live, P), Pages)
    BY <1>3, <1>4, <1>5, TotalOfTotals
  <2> QED
    BY <1>2, <2>1
<1>9. Total(live, g) <= Total(live, h)
  BY <1>6, <1>7, TotalMonotone
<1>10. Total(live, h) \in Nat
  BY <1>6, <1>7, FinitelyManyUnits, TotalType
<1> QED
  BY <1>8, <1>9, <1>10 DEF live, h

LEMMA ReservePagesStep ==
    ASSUME TransactionsInv, NEW t \in Transaction, ReservePages(t)
    PROVE  LocalStep(t) /\ Phase(t)'
<1> DEFINE d == tx[t].doc
           l == tx[t].lib
           n == Pages[d]
           row == LibrarySeen(t, l)
           live == {k \in Library : LibrarySeen(t, k).row = "live"}
           used == Total(live, [k \in Library |-> Usage(LibrarySeen(t, k))])
           new == [row EXCEPT !.pages_reserved = @ + n, !.row = "live", !.due = FALSE]
<1>1. /\ Types /\ HasEnsured(t) /\ reserving = t
      /\ UNCHANGED <<library, status, statusDraft, reserving, drift>>
  BY PhaseParts DEF ReservePages, Phase
<1>2. /\ d \in Document /\ l = LibraryOf[d] /\ l \in Library /\ n \in Nat
      /\ Held(t) = {l} /\ Kept(t) = {} /\ tx[t].corrected = {}
      /\ RowOK(libraryDraft[t][l], l, status, drift[l])
      /\ GlobalPages \in Nat /\ QuotaPages[l] \in Nat /\ drift \in [Library -> Nat]
  BY <1>1, PhaseParts, PagesAreNat, TransactionsAssumption DEF HasEnsured, ForDocument
<1>3. /\ row = libraryDraft[t][l]
      /\ \A k \in Library \ {l} : LibrarySeen(t, k) = library[k]
  BY <1>2 DEF LibrarySeen, Held
<1>4. \A k \in Library : /\ LibrarySeen(t, k) \in LibraryRow
                         /\ RowOK(LibrarySeen(t, k), k, status, drift[k])
  BY <1>1, <1>2, <1>3, SeenTypes, PhaseParts
<1>5. used \in Nat /\ Total(Charged(status), Pages) <= used
  <2> DEFINE seen == [k \in Library |-> LibrarySeen(t, k)]
  <2>1. \A k \in Library : seen[k] = LibrarySeen(t, k)
    OBVIOUS
  <2>2. /\ live = {k \in Library : seen[k].row = "live"}
        /\ [k \in Library |-> Usage(LibrarySeen(t, k))] = [k \in Library |-> Usage(seen[k])]
    BY <2>1
  <2>3. \A k \in Library : seen[k] \in LibraryRow /\ RowOK(seen[k], k, status, drift[k])
    BY <1>4, <2>1
  <2> HIDE DEF seen
  <2>4. LET alive == {k \in Library : seen[k].row = "live"}
            all == Total(alive, [k \in Library |-> Usage(seen[k])])
        IN  all \in Nat /\ Total(Charged(status), Pages) <= all
    BY <2>3, <1>2, UsageCoversCharged
  <2> QED
    BY <2>2, <2>4
<1>6. /\ Total(Charged(status), Pages) \in Nat /\ Total(ChargedIn(status, l), Pages) \in Nat
      /\ Total(ChargedIn(status, l), Pages)
           = Total(In(status, l, "settled"), Pages) + Total(In(status, l, "in_flight"), Pages)
      /\ Total(In(status, l, "settled"), Pages) \in Nat
      /\ Total(In(status, l, "in_flight"), Pages) \in Nat
  BY RowTotals DEF Status
<1>7. DocumentsStep(t) /\ Kept(t)' = {}
  BY <1>1, <1>2, LeavesDocuments
<1>8. \/ /\ used + n <= GlobalPages /\ Usage(row) + n <= QuotaPages[l]
         /\ WriteLibrary(t, l, new) /\ Goto(t, "insert")
      \/ Goto(t, "commit") /\ UNCHANGED libraryDraft
  BY DEF ReservePages
<1>9. row \in LibraryRow
  BY <1>2, <1>4
<1> HIDE DEF used, row
<1>10. CASE /\ used + n <= GlobalPages /\ Usage(row) + n <= QuotaPages[l]
            /\ WriteLibrary(t, l, new) /\ Goto(t, "insert")
  <2>1. /\ new \in LibraryRow /\ new.row = "live" /\ new.page_count = row.page_count
        /\ new.pages_reserved = row.pages_reserved + n /\ new.doc_count = row.doc_count
    <3>1. row.pages_reserved + n \in Nat
      BY <1>2, <1>9, RowType
    <3> QED
      BY <1>9, <3>1 DEF LibraryRow
  <2>2. LibraryIsFree(t, l)
    BY <1>2, PhaseParts DEF OneHolder, LibraryIsFree, HolderOfLibrary, Held
  <2> HIDE DEF new
  <2>3. LibrariesStep(t) /\ Held(t)' = {l} /\ libraryDraft'[t][l] = new
    BY <1>1, <1>2, <1>10, <2>1, <2>2, WritesLibrary
  <2>4. /\ TxStep(t) /\ tx'[t].next = "insert" /\ tx'[t].doc = d /\ tx'[t].lib = l
        /\ tx'[t].corrected = {}
    BY <1>1, <1>2, <1>10, Goes DEF Statement
  <2>5. LocalStep(t)
    BY <1>1, <1>7, <2>3, <2>4 DEF LocalStep
  <2>6. Total(Charged(status), Pages) + n <= GlobalPages
    BY <1>2, <1>5, <1>6, <1>10
  <2>7. /\ row.page_count = Total(In(status, l, "settled"), Pages)
        /\ row.pages_reserved = Total(In(status, l, "in_flight"), Pages) + drift[l]
        /\ row.doc_count = Cardinality(In(status, l, "settled"))
        /\ drift[l] \in Nat
    BY <1>2, <1>3 DEF RowOK, Counts
  <2>8. Total(ChargedIn(status, l), Pages) + n <= QuotaPages[l]
    <3>1. Usage(row) + n <= QuotaPages[l] /\ Usage(row) = row.page_count + row.pages_reserved
      BY <1>10 DEF Usage
    <3>2. n \in Nat /\ QuotaPages[l] \in Nat
      BY <1>2
    <3> HIDE DEF n, l
    <3> QED
      BY <1>6, <2>7, <3>1, <3>2
  <2>9. Counts(new, l, status, drift[l] + n)
    BY <1>2, <1>6, <2>1, <2>7 DEF Counts
  <2>10. HasReserved(t)'
    <3>1. ForDocument(t)'
      BY <1>2, <2>4 DEF ForDocument
    <3>2. /\ tx'[t].doc = d /\ tx'[t].lib = l /\ Held(t)' = {l} /\ Kept(t)' = {} /\ tx'[t].corrected = {}
          /\ reserving' = t /\ libraryDraft'[t][l].row = "live"
          /\ status' = status /\ drift' = drift
      BY <1>1, <1>7, <2>1, <2>3, <2>4
    <3>3. /\ Counts(libraryDraft'[t][l], l, status', drift'[l] + Pages[d])
          /\ Total(ChargedIn(status', l), Pages) + Pages[d] <= QuotaPages[l]
          /\ Total(Charged(status'), Pages) + Pages[d] <= GlobalPages
      BY <2>3, <2>6, <2>8, <2>9, <3>2
    <3> HIDE DEF d, l
    <3> QED
      BY <3>1, <3>2, <3>3 DEF HasReserved
  <2> QED
    BY <2>4, <2>5, <2>10 DEF Phase
<1>11. CASE Goto(t, "commit") /\ UNCHANGED libraryDraft
  <2>1. LibrariesStep(t) /\ Held(t)' = {l} /\ libraryDraft'[t] = libraryDraft[t]
    BY <1>1, <1>2, <1>11, LeavesLibraries
  <2>2. TxStep(t) /\ tx'[t].next = "commit" /\ tx'[t].corrected = {}
    BY <1>1, <1>2, <1>11, Goes DEF Statement
  <2>3. LocalStep(t)
    BY <1>1, <1>7, <2>1, <2>2 DEF LocalStep
  <2>4. View(t)' = status /\ status' = status /\ drift' = drift
    BY <1>1, <1>7, PhaseParts DEF View, StatusSeen, Kept
  <2>5. CanCommit(t)'
    <3>1. \A k \in Held(t)' : DriftSeen(t, k)' = drift[k]
      BY <2>2, <2>4 DEF DriftSeen
    <3>2. \A k \in Held(t)' : RowOK(libraryDraft'[t][k], k, View(t)', DriftSeen(t, k)')
      BY <1>2, <2>1, <2>4, <3>1
    <3> QED
      BY <1>7, <2>1, <2>2, <2>4, <3>2 DEF CanCommit
  <2> QED
    BY <2>2, <2>3, <2>5 DEF Phase
<1> QED
  BY <1>8, <1>10, <1>11

(* The insert takes the pages that the transaction has reserved.           *)
LEMMA InsertDocumentStep ==
    ASSUME TransactionsInv, NEW t \in Transaction, InsertDocument(t)
    PROVE  LocalStep(t) /\ Phase(t)'
<1> DEFINE d == tx[t].doc
           l == tx[t].lib
           n == Pages[d]
           g == View(t)'
           row == libraryDraft[t][l]
<1>1. /\ Types /\ HasReserved(t) /\ DocumentIsFree(t, d) /\ status[d] = "absent"
      /\ WriteStatus(t, d, "in_flight") /\ Goto(t, "commit")
      /\ UNCHANGED <<library, status, libraryDraft, reserving, drift>>
  BY PhaseParts DEF InsertDocument, Phase
<1>2. /\ d \in Document /\ l = LibraryOf[d] /\ l \in Library /\ n \in Nat
      /\ Held(t) = {l} /\ Kept(t) = {} /\ tx[t].corrected = {} /\ reserving = t
      /\ row.row = "live" /\ Counts(row, l, status, drift[l] + n)
      /\ Total(ChargedIn(status, l), Pages) + n <= QuotaPages[l]
      /\ Total(Charged(status), Pages) + n <= GlobalPages
      /\ drift[l] \in Nat
  BY <1>1, PhaseParts, PagesAreNat DEF HasReserved, ForDocument
<1>3. DocumentsStep(t) /\ Kept(t)' = {d} /\ statusDraft'[t][d] = "in_flight"
  BY <1>1, <1>2, WritesStatus DEF Status
<1>4. LibrariesStep(t) /\ Held(t)' = {l} /\ libraryDraft'[t] = libraryDraft[t]
  BY <1>1, <1>2, LeavesLibraries
<1>5. TxStep(t) /\ tx'[t].next = "commit" /\ tx'[t].corrected = {}
  BY <1>1, <1>2, Goes DEF Statement
<1>6. LocalStep(t)
  BY <1>1, <1>3, <1>4, <1>5 DEF LocalStep
<1>7. g[d] = "in_flight" /\ \A e \in Document \ {d} : g[e] = status[e]
  BY <1>1, <1>2, <1>3 DEF View, StatusSeen, Kept
<1> HIDE DEF d, l, n, g, row
<1>8. /\ Total(In(g, l, "in_flight"), Pages) = Total(In(status, l, "in_flight"), Pages) + n
      /\ In(g, l, "settled") = In(status, l, "settled")
  <2>1. \A e \in Document \ {d} : status[e] = g[e]
    BY <1>7
  <2>2. Total(In(g, l, "in_flight"), Pages) = Total(In(status, l, "in_flight"), Pages) + Pages[d]
    BY <1>1, <1>2, <1>7, <2>1, OneDocument
  <2>3. In(status, l, "settled") = In(g, l, "settled")
    BY <1>1, <1>2, <1>7, OtherSets
  <2> QED
    BY <2>2, <2>3 DEF n
<1>9. /\ Total(In(status, l, "in_flight"), Pages) \in Nat
      /\ Total(In(status, l, "settled"), Pages) \in Nat
      /\ Total(ChargedIn(status, l), Pages)
           = Total(In(status, l, "settled"), Pages) + Total(In(status, l, "in_flight"), Pages)
      /\ Total(ChargedIn(g, l), Pages)
           = Total(In(g, l, "settled"), Pages) + Total(In(g, l, "in_flight"), Pages)
  BY RowTotals DEF Status
<1>10. RowOK(row, l, g, drift[l])
  <2>1. Counts(row, l, g, drift[l])
    BY <1>2, <1>8, <1>9 DEF Counts
  <2>2. HasRoom(l, g)
    <3>1. Total(ChargedIn(g, l), Pages) = Total(ChargedIn(status, l), Pages) + n
      BY <1>2, <1>8, <1>9
    <3> QED
      BY <1>2, <3>1 DEF HasRoom
  <2>3. RowIsLive(row, l, g, drift[l])
    BY <1>2 DEF RowIsLive
  <2> QED
    BY <2>1, <2>2, <2>3 DEF RowOK
<1>11. /\ Charged(g) \subseteq Charged(status) \cup {d}
       /\ Total(Charged(status) \cup {d}, Pages) <= GlobalPages
  <2>1. Charged(g) \subseteq Charged(status) \cup {d} /\ d \notin Charged(status)
    BY <1>1, <1>7 DEF Charged, d
  <2>2. IsFiniteSet(AllUnits(Charged(status), Pages))
    BY RowSets, SomeDocuments
  <2>3. Total(Charged(status) \cup {d}, Pages) = Total(Charged(status), Pages) + Pages[d]
    BY <1>2, <2>1, <2>2, PagesAreNat, TotalAdd
  <2> QED
    BY <1>2, <2>1, <2>3 DEF n
<1>12. \A k \in Held(t)' : k = l /\ DriftSeen(t, k)' = drift[k]
  BY <1>1, <1>4, <1>5 DEF DriftSeen
<1>13. \A e \in Kept(t)' : LibraryOf[e] \in Held(t)'
  BY <1>2, <1>3, <1>4
<1>14. \A k \in Held(t)' : RowOK(libraryDraft'[t][k], k, View(t)', DriftSeen(t, k)')
  BY <1>4, <1>10, <1>12 DEF row, g
<1>15. \E e \in Document : Charged(View(t)') \subseteq Charged(status') \cup {e} /\ FitsGlobally(t, e)'
  <2>1. Charged(View(t)') \subseteq Charged(status) \cup {d}
    BY <1>11 DEF g
  <2>2. PICK e : e = d
    OBVIOUS
  <2>3. status' = status
    BY <1>1
  <2>4. FitsGlobally(t, e)'
    BY <1>11, <2>2, <2>3 DEF FitsGlobally
  <2> QED
    BY <1>2, <2>1, <2>2, <2>3, <2>4
<1>16. CanCommit(t)'
  BY <1>1, <1>2, <1>5, <1>13, <1>14, <1>15 DEF CanCommit
<1> QED
  BY <1>5, <1>6, <1>16 DEF Phase

(* The statements that change a document and leave its library to the next *)
(* statement, or have nothing to change there.                             *)
LEMMA ChangesDocument ==
    ASSUME TransactionsInv, NEW t \in Transaction, IsFresh(t), ForDocument(t),
           NEW d, d = tx[t].doc, NEW s \in Status, NEW statement \in Statement,
           DocumentIsFree(t, d), WriteStatus(t, d, s),
           UNCHANGED <<library, status, libraryDraft, reserving, drift>>,
           TxStep(t), tx'[t].next = statement, tx'[t].doc = d, tx'[t].lib = tx[t].lib,
           tx'[t].corrected = {}
    PROVE  /\ LocalStep(t)
           /\ HasChanged(t, status[d], s)'
           /\ s = status[d] \/ (status[d] = "error" /\ s = "absent") => CanCommit(t)'
<1>1. Types /\ d \in Document /\ Held(t) = {} /\ Kept(t) = {}
  BY PhaseParts DEF IsFresh, ForDocument
<1>2. DocumentsStep(t) /\ Kept(t)' = {d} /\ statusDraft'[t][d] = s
  BY <1>1, WritesStatus
<1>3. LibrariesStep(t) /\ Held(t)' = {}
  BY <1>1, LeavesLibraries
<1>4. LocalStep(t)
  BY <1>2, <1>3 DEF LocalStep
<1>5. HasChanged(t, status[d], s)'
  BY <1>2, <1>3 DEF HasChanged, ForDocument
<1>6. s = status[d] \/ (status[d] = "error" /\ s = "absent") => CanCommit(t)'
  <2> SUFFICES ASSUME s = status[d] \/ (status[d] = "error" /\ s = "absent")
               PROVE  CanCommit(t)'
    OBVIOUS
  <2>1. \A e \in Kept(t)' : Chargeless(t, e)'
    BY <1>2 DEF Chargeless
  <2>2. \A e \in Document \ {d} : View(t)'[e] = status[e]
    BY <1>2 DEF View, StatusSeen, Kept
  <2>3. View(t)'[d] = s
    BY <1>1, <1>2 DEF View, StatusSeen, Kept
  <2>4. Charged(View(t)') \subseteq Charged(status')
    BY <2>2, <2>3 DEF Charged
  <2> QED
    BY <1>3, <2>1, <2>4 DEF CanCommit
<1> QED
  BY <1>4, <1>5, <1>6

LEMMA WriteIndexStep ==
    ASSUME TransactionsInv, NEW t \in Transaction, WriteIndex(t)
    PROVE  LocalStep(t) /\ Phase(t)'
<1> DEFINE d == tx[t].doc
<1>1. /\ Types /\ IsFresh(t) /\ ForDocument(t) /\ status[d] = "in_flight"
      /\ DocumentIsFree(t, d) /\ WriteStatus(t, d, "settled") /\ Goto(t, "settle")
      /\ UNCHANGED <<library, status, libraryDraft, reserving, drift>>
  BY PhaseParts DEF WriteIndex, Phase
<1>2. /\ TxStep(t) /\ tx'[t].next = "settle" /\ tx'[t].doc = d /\ tx'[t].lib = tx[t].lib
      /\ tx'[t].corrected = {}
  BY <1>1, Goes DEF Statement, IsFresh
<1>3. PICK e : e = d
  OBVIOUS
<1>4. "settled" \in Status /\ "settle" \in Statement
  BY DEF Status, Statement
<1>5. LocalStep(t) /\ HasChanged(t, status[e], "settled")'
  BY <1>1, <1>2, <1>3, <1>4, ChangesDocument
<1>6. HasChanged(t, "in_flight", "settled")'
  BY <1>1, <1>2, <1>3, <1>5 DEF HasChanged
<1> QED
  BY <1>2, <1>5, <1>6 DEF Phase

LEMMA RecordFailureStep ==
    ASSUME TransactionsInv, NEW t \in Transaction, NEW again \in BOOLEAN, RecordFailure(t, again)
    PROVE  LocalStep(t) /\ Phase(t)'
<1> DEFINE d == tx[t].doc
           s == IF again THEN "in_flight" ELSE "error"
           statement == IF again THEN "commit" ELSE "release"
<1>1. /\ Types /\ IsFresh(t) /\ ForDocument(t) /\ status[d] = "in_flight"
      /\ DocumentIsFree(t, d) /\ WriteStatus(t, d, s) /\ Goto(t, statement)
      /\ UNCHANGED <<library, status, libraryDraft, reserving, drift>>
  BY PhaseParts DEF RecordFailure, Phase
<1>2. s \in Status /\ statement \in Statement
  BY DEF Status, Statement
<1>3. /\ TxStep(t) /\ tx'[t].next = statement /\ tx'[t].doc = d /\ tx'[t].lib = tx[t].lib
      /\ tx'[t].corrected = {}
  BY <1>1, <1>2, Goes DEF IsFresh
<1>4. PICK e : e = d
  OBVIOUS
<1>5. /\ LocalStep(t) /\ HasChanged(t, status[e], s)'
      /\ s = status[e] => CanCommit(t)'
  BY <1>1, <1>2, <1>3, <1>4, ChangesDocument
<1>6. CASE again
  BY <1>1, <1>3, <1>4, <1>5, <1>6 DEF Phase
<1>7. CASE ~again
  <2>1. HasChanged(t, "in_flight", "error")'
    BY <1>1, <1>3, <1>4, <1>5, <1>7 DEF HasChanged
  <2> QED
    BY <1>3, <1>5, <1>7, <2>1 DEF Phase
<1> QED
  BY <1>6, <1>7

LEMMA DeleteDocumentStep ==
    ASSUME TransactionsInv, NEW t \in Transaction, DeleteDocument(t)
    PROVE  LocalStep(t) /\ Phase(t)'
<1> DEFINE d == tx[t].doc
           statement == IF status[d] = "error" THEN "commit" ELSE "give_back"
           x == [tx[t] EXCEPT !.was = status[d], !.next = statement]
<1>1. /\ Types /\ IsFresh(t) /\ ForDocument(t) /\ status[d] # "absent"
      /\ DocumentIsFree(t, d) /\ WriteStatus(t, d, "absent")
      /\ UNCHANGED <<library, status, libraryDraft, reserving, drift>>
      /\ tx[t] \in TxState /\ status \in [Document -> Status]
  BY PhaseParts DEF DeleteDocument, Phase
<1>2. tx' = [tx EXCEPT ![t] = x]
  BY DEF DeleteDocument
<1>3. "absent" \in Status /\ statement \in Statement /\ status[d] \in Status
  BY <1>1 DEF Status, Statement, ForDocument
<1>4. /\ x \in TxState /\ x.next = statement /\ x.doc = d /\ x.lib = tx[t].lib
      /\ x.corrected = tx[t].corrected /\ x.was = status[d]
  BY <1>1, <1>3 DEF TxState
<1> HIDE DEF x
<1>5. /\ TxStep(t) /\ tx'[t].next = statement /\ tx'[t].doc = d /\ tx'[t].lib = tx[t].lib
      /\ tx'[t].corrected = {} /\ tx'[t].was = status[d]
  BY <1>1, <1>2, <1>4, GoesOn DEF IsFresh
<1>6. PICK e : e = d
  OBVIOUS
<1>7. /\ LocalStep(t) /\ HasChanged(t, status[e], "absent")'
      /\ status[e] = "error" => CanCommit(t)'
  BY <1>1, <1>3, <1>5, <1>6, ChangesDocument
<1>8. CASE status[d] = "error"
  BY <1>5, <1>6, <1>7, <1>8 DEF Phase
<1>9. CASE status[d] # "error"
  <2>1. tx'[t].was \in {"in_flight", "settled"} /\ tx'[t].next = "give_back"
    BY <1>1, <1>3, <1>5, <1>9 DEF Status
  <2>2. HasChanged(t, tx[t].was, "absent")'
    BY <1>1, <1>5, <1>6, <1>7 DEF HasChanged
  <2> QED
    BY <1>7, <2>1, <2>2 DEF Phase
<1> QED
  BY <1>8, <1>9

(* The library catches up with a document that is charged less now.        *)
LEMMA CatchesUp ==
    ASSUME TransactionsInv, NEW t \in Transaction,
           NEW before \in {"in_flight", "settled"}, NEW after \in Status,
           HasChanged(t, before, after), NEW l, l = tx[t].lib,
           LibraryIsFree(t, l), NEW row \in LibraryRow, WriteLibrary(t, l, row),
           row.row = library[l].row, Counts(row, l, View(t), drift[l]),
           Goto(t, "commit"), UNCHANGED <<library, status, statusDraft, reserving, drift>>
    PROVE  LocalStep(t) /\ Phase(t)'
<1> DEFINE d == tx[t].doc
           g == View(t)
<1>1. /\ Types /\ l \in Library /\ l = LibraryOf[d] /\ d \in Document
      /\ Held(t) = {} /\ Kept(t) = {d} /\ tx[t].corrected = {}
      /\ status[d] = before /\ statusDraft[t][d] = after
      /\ RowOK(library[l], l, status, drift[l])
  BY PhaseParts DEF HasChanged, ForDocument
<1>2. LibrariesStep(t) /\ Held(t)' = {l} /\ libraryDraft'[t][l] = row
  BY <1>1, WritesLibrary
<1>3. DocumentsStep(t) /\ Kept(t)' = {d} /\ statusDraft'[t] = statusDraft[t]
  BY <1>1, LeavesDocuments
<1>4. TxStep(t) /\ tx'[t].next = "commit" /\ tx'[t].corrected = {}
  BY <1>1, Goes DEF Statement
<1>5. LocalStep(t)
  BY <1>2, <1>3, <1>4 DEF LocalStep
<1>6. View(t)' = g
  BY <1>3 DEF View, StatusSeen
<1>7. g[d] = after /\ \A e \in Document \ {d} : g[e] = status[e]
  BY <1>1 DEF View, StatusSeen, Kept
<1> HIDE DEF g, d
<1>8. Charged(g) \subseteq Charged(status)
  BY <1>1, <1>7 DEF Charged
<1>9. RowOK(row, l, g, drift[l])
  <2>1. HasRoom(l, g)
    <3>1. ChargedIn(g, l) \subseteq ChargedIn(status, l)
      BY <1>8 DEF ChargedIn
    <3>2. ChargedIn(status, l) \subseteq Document /\ ChargedIn(g, l) \subseteq Document
      BY RowSets
    <3>3. Total(ChargedIn(g, l), Pages) <= Total(ChargedIn(status, l), Pages)
      BY <3>1, <3>2, SomeDocuments, TotalSubset
    <3>4. /\ Total(ChargedIn(g, l), Pages) \in Nat /\ Total(ChargedIn(status, l), Pages) \in Nat
          /\ QuotaPages[l] \in Nat
      BY <1>1, RowTotals, TransactionsAssumption
    <3>5. Total(ChargedIn(status, l), Pages) <= QuotaPages[l]
      BY <1>1 DEF RowOK, HasRoom
    <3> QED
      BY <3>3, <3>4, <3>5 DEF HasRoom
  <2>2. \A e \in DocsOf(l) : g[e] # "absent" => status[e] # "absent"
    BY <1>1, <1>7 DEF DocsOf
  <2>3. RowIsLive(row, l, g, drift[l])
    BY <1>1, <2>2 DEF RowOK, RowIsLive
  <2> QED
    BY <2>1, <2>3, <1>6 DEF RowOK, g
<1>10. \A k \in Held(t)' : k = l /\ DriftSeen(t, k)' = drift[k]
  BY <1>2, <1>4 DEF DriftSeen
<1>11. \A k \in Held(t)' : RowOK(libraryDraft'[t][k], k, View(t)', DriftSeen(t, k)')
  BY <1>2, <1>6, <1>9, <1>10
<1>12. Charged(View(t)') \subseteq Charged(status')
  BY <1>6, <1>8
<1>13. CanCommit(t)'
  BY <1>1, <1>2, <1>3, <1>4, <1>11, <1>12 DEF CanCommit
<1> QED
  BY <1>4, <1>5, <1>13 DEF Phase

LEMMA MovedPages ==
    ASSUME TransactionsInv, NEW t \in Transaction,
           NEW before \in {"in_flight", "settled"}, NEW after \in Status, after # before,
           HasChanged(t, before, after), NEW l, l = tx[t].lib, NEW n, n = Pages[tx[t].doc]
    PROVE  /\ l \in Library /\ n \in Nat /\ library[l] \in LibraryRow /\ drift[l] \in Nat
           /\ Counts(library[l], l, status, drift[l])
           /\ \A s \in {before, after} :
                /\ Total(In(status, l, s), Pages) \in Nat /\ Total(In(View(t), l, s), Pages) \in Nat
                /\ Cardinality(In(status, l, s)) \in Nat /\ Cardinality(In(View(t), l, s)) \in Nat
           /\ Total(In(status, l, before), Pages) = Total(In(View(t), l, before), Pages) + n
           /\ Cardinality(In(status, l, before)) = Cardinality(In(View(t), l, before)) + 1
           /\ Total(In(View(t), l, after), Pages) = Total(In(status, l, after), Pages) + n
           /\ Cardinality(In(View(t), l, after)) = Cardinality(In(status, l, after)) + 1
           /\ \A s \in Status \ {before, after} : In(View(t), l, s) = In(status, l, s)
<1> DEFINE d == tx[t].doc
           g == View(t)
<1>1. /\ Types /\ l \in Library /\ l = LibraryOf[d] /\ d \in Document /\ Kept(t) = {d}
      /\ status[d] = before /\ statusDraft[t][d] = after
      /\ RowOK(library[l], l, status, drift[l])
      /\ library[l] \in LibraryRow /\ drift[l] \in Nat
  BY PhaseParts DEF HasChanged, ForDocument
<1>2. g[d] = after /\ \A e \in Document \ {d} : g[e] = status[e]
  BY <1>1 DEF View, StatusSeen, Kept
<1>3. n \in Nat /\ n = Pages[d]
  BY <1>1, PagesAreNat
<1>4. before \in Status
  BY DEF Status
<1> HIDE DEF g, d
<1>5. \A e \in Document \ {d} : status[e] = g[e]
  BY <1>2
<1>6. /\ Total(In(status, l, before), Pages) = Total(In(g, l, before), Pages) + n
      /\ Cardinality(In(status, l, before)) = Cardinality(In(g, l, before)) + 1
  BY <1>1, <1>2, <1>3, OneDocument
<1>7. /\ Total(In(g, l, after), Pages) = Total(In(status, l, after), Pages) + n
      /\ Cardinality(In(g, l, after)) = Cardinality(In(status, l, after)) + 1
  BY <1>1, <1>2, <1>3, <1>5, OneDocument
<1>8. \A s \in Status \ {before, after} : In(status, l, s) = In(g, l, s)
  BY <1>1, <1>2, OtherSets
<1>9. \A s \in {before, after} :
        /\ Total(In(status, l, s), Pages) \in Nat /\ Total(In(g, l, s), Pages) \in Nat
        /\ Cardinality(In(status, l, s)) \in Nat /\ Cardinality(In(g, l, s)) \in Nat
  BY <1>4, RowTotals
<1> QED
  BY <1>1, <1>3, <1>6, <1>7, <1>8, <1>9 DEF RowOK, g

LEMMA SettlePagesStep ==
    ASSUME TransactionsInv, NEW t \in Transaction, SettlePages(t)
    PROVE  LocalStep(t) /\ Phase(t)'
<1> DEFINE l == tx[t].lib
           n == Pages[tx[t].doc]
           g == View(t)
           row == [library[l] EXCEPT !.pages_reserved = Floored(@, n),
                                     !.page_count = @ + n, !.doc_count = @ + 1]
<1>1. /\ HasChanged(t, "in_flight", "settled") /\ LibraryIsFree(t, l)
      /\ WriteLibrary(t, l, row) /\ Goto(t, "commit")
      /\ UNCHANGED <<library, status, statusDraft, reserving, drift>>
  BY PhaseParts DEF SettlePages, Phase
<1>2. PICK k, m : k = l /\ m = n
  OBVIOUS
<1>3. "settled" \in Status
  BY DEF Status
<1>4. /\ k \in Library /\ m \in Nat /\ library[k] \in LibraryRow /\ drift[k] \in Nat
      /\ Counts(library[k], k, status, drift[k])
      /\ \A s \in {"in_flight", "settled"} :
           /\ Total(In(status, k, s), Pages) \in Nat /\ Total(In(g, k, s), Pages) \in Nat
           /\ Cardinality(In(status, k, s)) \in Nat /\ Cardinality(In(g, k, s)) \in Nat
      /\ Total(In(status, k, "in_flight"), Pages) = Total(In(g, k, "in_flight"), Pages) + m
      /\ Total(In(g, k, "settled"), Pages) = Total(In(status, k, "settled"), Pages) + m
      /\ Cardinality(In(g, k, "settled")) = Cardinality(In(status, k, "settled")) + 1
  BY <1>1, <1>2, <1>3, MovedPages
<1>5. /\ row \in LibraryRow /\ row.row = library[k].row
      /\ row.pages_reserved = Floored(library[k].pages_reserved, m)
      /\ row.page_count = library[k].page_count + m
      /\ row.doc_count = library[k].doc_count + 1
  <2>1. /\ Floored(library[k].pages_reserved, m) \in Nat /\ library[k].page_count + m \in Nat
        /\ library[k].doc_count + 1 \in Nat
    BY <1>4, RowType DEF Floored
  <2> QED
    BY <1>2, <1>4, <2>1 DEF LibraryRow
<1> HIDE DEF row, g
<1>6. Counts(row, k, g, drift[k])
  <2>1. library[k].pages_reserved >= m
    BY <1>4 DEF Counts
  <2>2. library[k].pages_reserved \in Nat /\ library[k].page_count \in Nat
        /\ library[k].doc_count \in Nat
    BY <1>4, RowType
  <2>3. row.pages_reserved = library[k].pages_reserved - m
    BY <1>4, <1>5, <2>1, <2>2 DEF Floored
  <2> QED
    BY <1>4, <1>5, <2>2, <2>3 DEF Counts
<1> QED
  BY <1>1, <1>2, <1>3, <1>5, <1>6, CatchesUp DEF g

LEMMA ReleasePagesStep ==
    ASSUME TransactionsInv, NEW t \in Transaction, ReleasePages(t)
    PROVE  LocalStep(t) /\ Phase(t)'
<1> DEFINE l == tx[t].lib
           n == Pages[tx[t].doc]
           g == View(t)
           row == [library[l] EXCEPT !.pages_reserved = Floored(@, n)]
<1>1. /\ HasChanged(t, "in_flight", "error") /\ LibraryIsFree(t, l)
      /\ WriteLibrary(t, l, row) /\ Goto(t, "commit")
      /\ UNCHANGED <<library, status, statusDraft, reserving, drift>>
  BY PhaseParts DEF ReleasePages, Phase
<1>2. PICK k, m : k = l /\ m = n
  OBVIOUS
<1>3. "error" \in Status /\ "settled" \in Status
  BY DEF Status
<1>4. /\ k \in Library /\ m \in Nat /\ library[k] \in LibraryRow /\ drift[k] \in Nat
      /\ Counts(library[k], k, status, drift[k])
      /\ \A s \in {"in_flight", "error"} :
           Total(In(status, k, s), Pages) \in Nat /\ Total(In(g, k, s), Pages) \in Nat
      /\ Total(In(status, k, "in_flight"), Pages) = Total(In(g, k, "in_flight"), Pages) + m
      /\ \A s \in Status \ {"in_flight", "error"} : In(g, k, s) = In(status, k, s)
  BY <1>1, <1>2, <1>3, MovedPages
<1>5. /\ row \in LibraryRow /\ row.row = library[k].row
      /\ row.pages_reserved = Floored(library[k].pages_reserved, m)
      /\ row.page_count = library[k].page_count
      /\ row.doc_count = library[k].doc_count
  <2>1. Floored(library[k].pages_reserved, m) \in Nat
    BY <1>4, RowType DEF Floored
  <2> QED
    BY <1>2, <1>4, <2>1 DEF LibraryRow
<1> HIDE DEF row, g
<1>6. Counts(row, k, g, drift[k])
  <2>1. library[k].pages_reserved >= m
    BY <1>4 DEF Counts
  <2>2. library[k].pages_reserved \in Nat
    BY <1>4, RowType
  <2>3. row.pages_reserved = library[k].pages_reserved - m
    BY <1>4, <1>5, <2>1, <2>2 DEF Floored
  <2>4. In(g, k, "settled") = In(status, k, "settled")
    BY <1>3, <1>4
  <2> QED
    BY <1>4, <1>5, <2>2, <2>3, <2>4 DEF Counts
<1> QED
  BY <1>1, <1>2, <1>3, <1>5, <1>6, CatchesUp DEF g

LEMMA GivePagesBackStep ==
    ASSUME TransactionsInv, NEW t \in Transaction, GivePagesBack(t)
    PROVE  LocalStep(t) /\ Phase(t)'
<1> DEFINE l == tx[t].lib
           n == Pages[tx[t].doc]
           g == View(t)
           row == IF tx[t].was = "settled"
                  THEN [library[l] EXCEPT !.page_count = Floored(@, n), !.doc_count = Floored(@, 1)]
                  ELSE [library[l] EXCEPT !.pages_reserved = Floored(@, n)]
<1>1. /\ HasChanged(t, tx[t].was, "absent") /\ LibraryIsFree(t, l)
      /\ tx[t].was \in {"in_flight", "settled"}
      /\ WriteLibrary(t, l, row) /\ Goto(t, "commit")
      /\ UNCHANGED <<library, status, statusDraft, reserving, drift>>
  BY PhaseParts DEF GivePagesBack, Phase
<1>2. PICK k, m, was : k = l /\ m = n /\ was = tx[t].was
  OBVIOUS
<1>3. "absent" \in Status /\ was \in {"in_flight", "settled"} /\ HasChanged(t, was, "absent")
  BY <1>1, <1>2 DEF Status
<1>4. /\ k \in Library /\ m \in Nat /\ library[k] \in LibraryRow /\ drift[k] \in Nat
      /\ Counts(library[k], k, status, drift[k])
      /\ \A s \in {was, "absent"} :
           /\ Total(In(status, k, s), Pages) \in Nat /\ Total(In(g, k, s), Pages) \in Nat
           /\ Cardinality(In(status, k, s)) \in Nat /\ Cardinality(In(g, k, s)) \in Nat
      /\ Total(In(status, k, was), Pages) = Total(In(g, k, was), Pages) + m
      /\ Cardinality(In(status, k, was)) = Cardinality(In(g, k, was)) + 1
      /\ \A s \in Status \ {was, "absent"} : In(g, k, s) = In(status, k, s)
  BY <1>2, <1>3, MovedPages
<1>5. /\ library[k].pages_reserved \in Nat /\ library[k].page_count \in Nat
      /\ library[k].doc_count \in Nat
  BY <1>4, RowType
<1>6. CASE was = "settled"
  <2>1. /\ row \in LibraryRow /\ row.row = library[k].row
        /\ row.pages_reserved = library[k].pages_reserved
        /\ row.page_count = Floored(library[k].page_count, m)
        /\ row.doc_count = Floored(library[k].doc_count, 1)
    <3>1. Floored(library[k].page_count, m) \in Nat /\ Floored(library[k].doc_count, 1) \in Nat
      BY <1>4, <1>5 DEF Floored
    <3> QED
      BY <1>2, <1>4, <1>6, <3>1 DEF LibraryRow
  <2> HIDE DEF row, g
  <2>2. library[k].page_count >= m /\ library[k].doc_count >= 1
    BY <1>4, <1>6 DEF Counts
  <2>3. /\ row.page_count = library[k].page_count - m
        /\ row.doc_count = library[k].doc_count - 1
    BY <1>4, <1>5, <2>1, <2>2 DEF Floored
  <2>4. In(g, k, "in_flight") = In(status, k, "in_flight")
    BY <1>4, <1>6 DEF Status
  <2>5. Counts(row, k, g, drift[k])
    BY <1>4, <1>5, <1>6, <2>1, <2>3, <2>4 DEF Counts
  <2> QED
    BY <1>1, <1>2, <1>3, <2>1, <2>5, CatchesUp DEF g
<1>7. CASE was = "in_flight"
  <2>1. /\ row \in LibraryRow /\ row.row = library[k].row
        /\ row.pages_reserved = Floored(library[k].pages_reserved, m)
        /\ row.page_count = library[k].page_count
        /\ row.doc_count = library[k].doc_count
    <3>1. Floored(library[k].pages_reserved, m) \in Nat
      BY <1>4, <1>5 DEF Floored
    <3> QED
      BY <1>2, <1>4, <1>7, <3>1 DEF LibraryRow
  <2> HIDE DEF row, g
  <2>2. library[k].pages_reserved >= m
    BY <1>4, <1>7 DEF Counts
  <2>3. row.pages_reserved = library[k].pages_reserved - m
    BY <1>4, <1>5, <2>1, <2>2 DEF Floored
  <2>4. In(g, k, "settled") = In(status, k, "settled")
    BY <1>4, <1>7 DEF Status
  <2>5. Counts(row, k, g, drift[k])
    BY <1>4, <1>5, <1>7, <2>1, <2>3, <2>4 DEF Counts
  <2> QED
    BY <1>1, <1>2, <1>3, <2>1, <2>5, CatchesUp DEF g
<1> QED
  BY <1>3, <1>6, <1>7
-----------------------------------------------------------------------------
(* Purge and recount.                                                      *)

LEMMA LockDuePurgeStep ==
    ASSUME TransactionsInv, NEW t \in Transaction, LockDuePurge(t)
    PROVE  LocalStep(t) /\ Phase(t)'
<1> DEFINE l == tx[t].lib
<1>1. /\ Types /\ IsFresh(t) /\ l \in Library /\ library[l] \in LibraryRow
      /\ LibraryIsFree(t, l) /\ WriteLibrary(t, l, library[l]) /\ Goto(t, "batch")
      /\ UNCHANGED <<library, status, statusDraft, reserving, drift>>
  BY PhaseParts DEF LockDuePurge, Phase
<1>2. LibrariesStep(t) /\ Held(t)' = {l}
  BY <1>1, WritesLibrary DEF IsFresh
<1>3. DocumentsStep(t) /\ Kept(t)' = {}
  BY <1>1, LeavesDocuments DEF IsFresh
<1>4. TxStep(t) /\ tx'[t].next = "batch" /\ tx'[t].lib = l /\ tx'[t].corrected = {}
  BY <1>1, Goes DEF Statement, IsFresh
<1>5. LocalStep(t)
  BY <1>1, <1>2, <1>3, <1>4 DEF LocalStep
<1>6. IsPurging(t, Document)'
  BY <1>1, <1>2, <1>3, <1>4 DEF IsPurging, DocsOf
<1> QED
  BY <1>4, <1>5, <1>6 DEF Phase

(* The batch takes all documents that are left.                            *)
LEMMA SelectBatchStep ==
    ASSUME BatchesSuffice, TransactionsInv, NEW t \in Transaction, SelectBatch(t)
    PROVE  LocalStep(t) /\ Phase(t)'
<1> DEFINE l == tx[t].lib
           left == {d \in Document : LibraryOf[d] = l /\ StatusSeen(t, d) # "absent"}
           size == IF Cardinality(left) < PurgeBatch THEN Cardinality(left) ELSE PurgeBatch
<1>1. /\ Types /\ IsPurging(t, Document) /\ tx[t] \in TxState
      /\ UNCHANGED <<library, status, libraryDraft, statusDraft, reserving, drift>>
  BY PhaseParts DEF SelectBatch, Phase, drafts
<1>2. PICK batch \in SUBSET left :
        /\ Cardinality(batch) = size
        /\ tx' = [tx EXCEPT ![t].todo = batch, ![t].n = 0, ![t].next = "wipe"]
  BY DEF SelectBatch
<1>3. left \subseteq DocsOf(l) /\ DocsOf(l) \subseteq Document
  BY DEF DocsOf
<1>4. /\ IsFiniteSet(left) /\ Cardinality(left) \in Nat
      /\ Cardinality(left) <= PurgeBatch
  <2>1. IsFiniteSet(DocsOf(l)) /\ Cardinality(DocsOf(l)) \in Nat
        /\ IsFiniteSet(left) /\ Cardinality(left) \in Nat
    BY <1>3, SomeDocuments
  <2>2. Cardinality(left) <= Cardinality(DocsOf(l))
    BY <1>3, <2>1, FS_Subset
  <2>3. Cardinality(DocsOf(l)) <= PurgeBatch /\ PurgeBatch \in Nat
    BY <1>1, TransactionsAssumption DEF IsPurging, BatchesSuffice
  <2> QED
    BY <2>1, <2>2, <2>3
<1>5. batch = left
  <2>1. PurgeBatch \in Nat
    BY TransactionsAssumption
  <2>2. size = Cardinality(left)
    BY <1>4, <2>1
  <2> HIDE DEF left, size
  <2>3. Cardinality(batch) = Cardinality(left)
    BY <1>2, <2>2
  <2> QED
    BY <1>4, <2>3, FS_Subset
<1> DEFINE x == [tx[t] EXCEPT !.todo = batch, !.n = 0, !.next = "wipe"]
<1>6. tx' = [tx EXCEPT ![t] = x]
  BY <1>2
<1> HIDE DEF left
<1>7. /\ x \in TxState /\ x.next = "wipe" /\ x.todo = batch /\ x.n = 0 /\ x.lib = l
      /\ x.corrected = tx[t].corrected
  <2>1. batch \in SUBSET (Library \cup Document) /\ "wipe" \in Statement
    BY <1>3, <1>5 DEF Statement
  <2> QED
    BY <1>1, <2>1 DEF TxState
<1> HIDE DEF x
<1>8. /\ TxStep(t) /\ tx'[t].next = "wipe" /\ tx'[t].todo = left /\ tx'[t].n = 0
      /\ tx'[t].lib = l /\ tx'[t].corrected = {}
  BY <1>1, <1>5, <1>6, <1>7, GoesOn DEF IsPurging
<1>9. /\ LibrariesStep(t) /\ Held(t)' = Held(t)
      /\ DocumentsStep(t) /\ Kept(t)' = Kept(t) /\ statusDraft'[t] = statusDraft[t]
  BY <1>1, LeavesLibraries, LeavesDocuments
<1>10. LocalStep(t)
  BY <1>1, <1>8, <1>9 DEF LocalStep
<1>11. \A d \in DocsOf(l) : StatusSeen(t, d)' # "absent" => d \in left
  BY <1>1 DEF DocsOf, left, StatusSeen
<1>12. IsWiping(t)'
  <2>1. IsPurging(t, tx[t].todo)'
    BY <1>1, <1>8, <1>9, <1>11 DEF IsPurging
  <2> QED
    BY <1>3, <1>8, <2>1 DEF IsWiping
<1> QED
  BY <1>8, <1>10, <1>12 DEF Phase

LEMMA FirstOfMany ==
    ASSUME NEW S, S # {}
    PROVE  FirstOf(S) \in S
BY DEF FirstOf

LEMMA WipeDocumentStep ==
    ASSUME TransactionsInv, NEW t \in Transaction, WipeDocument(t)
    PROVE  LocalStep(t) /\ Phase(t)'
<1>0. PICK d : d = FirstOf(tx[t].todo)
  OBVIOUS
<1> DEFINE l == tx[t].lib
           rest == tx[t].todo \ {d}
           k == IF status[d] # "absent" THEN tx[t].n + 1 ELSE tx[t].n
           x == [tx[t] EXCEPT !.todo = rest, !.n = k]
<1>1. /\ Types /\ IsWiping(t) /\ tx[t] \in TxState /\ tx[t].next = "wipe" /\ d \in tx[t].todo
      /\ DocumentIsFree(t, d) /\ UNCHANGED <<library, status, libraryDraft, reserving, drift>>
  BY <1>0, PhaseParts, FirstOfMany DEF WipeDocument, Phase
<1>2. \/ /\ status[d] # "absent" /\ WriteStatus(t, d, "absent")
         /\ tx' = [tx EXCEPT ![t].todo = @ \ {d}, ![t].n = @ + 1]
      \/ /\ status[d] = "absent" /\ UNCHANGED statusDraft
         /\ tx' = [tx EXCEPT ![t].todo = @ \ {d}]
  BY <1>0 DEF WipeDocument
<1>3. /\ tx[t].todo \subseteq DocsOf(l) /\ l \in Library /\ Held(t) = {l} /\ tx[t].corrected = {}
      /\ (\A e \in Kept(t) : LibraryOf[e] = l /\ statusDraft[t][e] = "absent")
      /\ (\A e \in DocsOf(l) : StatusSeen(t, e) # "absent" => e \in tx[t].todo)
      /\ d \in Document /\ LibraryOf[d] = l
  BY <1>1 DEF IsWiping, IsPurging, DocsOf
<1>4. tx[t].n \in Nat /\ tx[t].todo \in SUBSET (Library \cup Document)
  BY <1>1, TxFields
<1>5. tx' = [tx EXCEPT ![t] = x]
  BY <1>2, <1>4
<1>6. x \in TxState /\ x.next = "wipe" /\ x.todo = rest /\ x.n = k /\ x.lib = l
      /\ x.corrected = {}
  <2>1. rest \in SUBSET (Library \cup Document) /\ k \in Nat
    BY <1>4
  <2> HIDE DEF rest, k
  <2> QED
    BY <1>1, <1>3, <2>1 DEF TxState
<1> HIDE DEF x
<1>7. /\ TxStep(t) /\ tx'[t].next = "wipe" /\ tx'[t].todo = rest /\ tx'[t].n = k
      /\ tx'[t].lib = l /\ tx'[t].corrected = {}
  BY <1>1, <1>5, <1>6, GoesOn
<1>8. LibrariesStep(t) /\ Held(t)' = {l}
  BY <1>1, <1>3, LeavesLibraries
<1>10. rest \subseteq DocsOf(l)
  BY <1>3
<1> HIDE DEF k
<1>11. /\ DocumentsStep(t)
       /\ \A e \in Kept(t)' : LibraryOf[e] = l /\ statusDraft'[t][e] = "absent"
       /\ \A e \in DocsOf(l) : StatusSeen(t, e)' # "absent" => e \in rest
  <2>1. CASE status[d] # "absent"
    <3>1. WriteStatus(t, d, "absent")
      BY <1>2, <2>1
    <3>2. "absent" \in Status
      BY DEF Status
    <3>3. DocumentsStep(t) /\ Kept(t)' = Kept(t) \cup {d} /\ statusDraft'[t][d] = "absent"
          /\ \A e \in Kept(t) \ {d} : statusDraft'[t][e] = statusDraft[t][e]
      BY <1>1, <1>3, <3>1, <3>2, WritesStatus
    <3>4. \A e \in Kept(t)' : LibraryOf[e] = l /\ statusDraft'[t][e] = "absent"
      BY <1>3, <3>3
    <3>5. StatusSeen(t, d)' = "absent"
      BY <3>3 DEF StatusSeen, Kept
    <3>6. \A e \in DocsOf(l) \ {d} : StatusSeen(t, e)' = StatusSeen(t, e)
      BY <1>1, <3>3 DEF StatusSeen, Kept
    <3> QED
      BY <1>3, <3>3, <3>4, <3>5, <3>6
  <2>2. CASE status[d] = "absent"
    <3>1. UNCHANGED statusDraft
      BY <1>2, <2>2
    <3>2. DocumentsStep(t) /\ Kept(t)' = Kept(t) /\ statusDraft'[t] = statusDraft[t]
      BY <1>1, <3>1, LeavesDocuments
    <3>3. \A e \in DocsOf(l) : StatusSeen(t, e)' = StatusSeen(t, e)
      BY <1>1, <3>1 DEF StatusSeen
    <3>4. StatusSeen(t, d) = "absent"
      BY <1>3, <2>2 DEF StatusSeen, Kept
    <3> QED
      BY <1>3, <3>2, <3>3, <3>4
  <2> QED
    BY <2>1, <2>2
<1>12. LocalStep(t)
  BY <1>1, <1>7, <1>8, <1>11 DEF LocalStep
<1> HIDE DEF rest
<1>13. IsWiping(t)'
  <2>1. IsPurging(t, tx[t].todo)'
    BY <1>3, <1>7, <1>8, <1>11 DEF IsPurging
  <2> QED
    BY <1>7, <1>10, <2>1 DEF IsWiping
<1> QED
  BY <1>7, <1>12, <1>13 DEF Phase

LEMMA EndBatchStep ==
    ASSUME TransactionsInv, NEW t \in Transaction, EndBatch(t)
    PROVE  LocalStep(t) /\ Phase(t)'
<1>1. /\ Types /\ IsWiping(t) /\ tx[t].todo = {}
      /\ UNCHANGED <<library, status, libraryDraft, statusDraft, reserving, drift>>
  BY PhaseParts DEF EndBatch, Phase, drafts
<1>2. PICK statement \in {"zero", "batch"} : Goto(t, statement)
  BY DEF EndBatch
<1>3. /\ LibrariesStep(t) /\ Held(t)' = Held(t)
      /\ DocumentsStep(t) /\ Kept(t)' = Kept(t) /\ statusDraft'[t] = statusDraft[t]
  BY <1>1, LeavesLibraries, LeavesDocuments
<1>4. /\ TxStep(t) /\ tx'[t].next = statement /\ tx'[t].lib = tx[t].lib
      /\ tx'[t].corrected = tx[t].corrected
  BY <1>1, <1>2, Goes DEF Statement
<1>5. LocalStep(t)
  BY <1>1, <1>3, <1>4 DEF LocalStep
<1>6. \A d \in Document : StatusSeen(t, d)' = StatusSeen(t, d)
  BY <1>1 DEF StatusSeen
<1>7. IsPurging(t, {})' /\ IsPurging(t, Document)'
  <2>1. IsPurging(t, {})
    BY <1>1 DEF IsWiping
  <2> QED
    BY <1>3, <1>4, <1>6, <2>1 DEF IsPurging, DocsOf
<1> QED
  BY <1>4, <1>5, <1>7 DEF Phase

LEMMA ZeroCountersStep ==
    ASSUME TransactionsInv, NEW t \in Transaction, ZeroCounters(t)
    PROVE  LocalStep(t) /\ Phase(t)'
<1> DEFINE l == tx[t].lib
           g == View(t)
           row == [LibrarySeen(t, l) EXCEPT !.page_count = 0, !.pages_reserved = 0,
                                            !.doc_count = 0, !.row = "purged"]
           x == [tx[t] EXCEPT !.next = "commit", !.corrected = {l}]
<1>1. /\ Types /\ IsPurging(t, {}) /\ tx[t] \in TxState
      /\ LibraryIsFree(t, l) /\ WriteLibrary(t, l, row)
      /\ UNCHANGED <<library, status, statusDraft, reserving, drift>>
  BY PhaseParts DEF ZeroCounters, Phase
<1>2. tx' = [tx EXCEPT ![t] = x]
  BY DEF ZeroCounters
<1>3. /\ l \in Library /\ Held(t) = {l}
      /\ \A d \in Kept(t) : LibraryOf[d] = l /\ statusDraft[t][d] = "absent"
      /\ \A d \in DocsOf(l) : g[d] = "absent"
  BY <1>1 DEF IsPurging, View, DocsOf
<1>4. /\ x \in TxState /\ x.next = "commit" /\ x.corrected = {l}
  BY <1>1, <1>3 DEF TxState, Statement
<1>5. /\ row \in LibraryRow /\ row.page_count = 0 /\ row.pages_reserved = 0 /\ row.doc_count = 0
  <2>1. LibrarySeen(t, l) \in LibraryRow
    BY <1>1, <1>3, SeenTypes
  <2> QED
    BY <2>1 DEF LibraryRow
<1> HIDE DEF x, row
<1>6. TxStep(t) /\ tx'[t].next = "commit" /\ tx'[t].corrected = {l}
  BY <1>1, <1>2, <1>4, GoesOn
<1>7. LibrariesStep(t) /\ Held(t)' = {l} /\ libraryDraft'[t][l] = row
  BY <1>1, <1>3, <1>5, WritesLibrary
<1>8. DocumentsStep(t) /\ Kept(t)' = Kept(t) /\ statusDraft'[t] = statusDraft[t]
  BY <1>1, LeavesDocuments
<1>9. LocalStep(t)
  BY <1>1, <1>6, <1>7, <1>8 DEF LocalStep
<1>10. View(t)' = g
  BY <1>1 DEF View, StatusSeen
<1>11. Charged(g) \subseteq Charged(status)
  <2>1. \A d \in Document : g[d] = status[d] \/ g[d] = "absent"
    BY <1>3 DEF View, StatusSeen, Kept
  <2> HIDE DEF g
  <2> QED
    BY <2>1 DEF Charged
<1> HIDE DEF g
<1>12. RowOK(row, l, g, 0)
  <2>1. In(g, l, "settled") = {} /\ In(g, l, "in_flight") = {} /\ ChargedIn(g, l) = {}
    BY <1>3 DEF In, Charged, ChargedIn, DocsOf
  <2>2. Total({}, Pages) = 0 /\ Cardinality({}) = 0
    BY TotalEmpty, FS_EmptySet
  <2>3. Counts(row, l, g, 0)
    BY <1>5, <2>1, <2>2 DEF Counts
  <2>4. HasRoom(l, g)
    <3>1. QuotaPages[l] \in Nat
      BY <1>3, TransactionsAssumption
    <3> QED
      BY <2>1, <2>2, <3>1 DEF HasRoom
  <2>5. RowIsLive(row, l, g, 0)
    BY <1>3 DEF RowIsLive
  <2> QED
    BY <2>3, <2>4, <2>5 DEF RowOK
<1>13. \A k \in Held(t)' : k = l /\ DriftSeen(t, k)' = 0
  BY <1>6, <1>7 DEF DriftSeen
<1>14. \A k \in Held(t)' : RowOK(libraryDraft'[t][k], k, View(t)', DriftSeen(t, k)')
  BY <1>7, <1>10, <1>12, <1>13
<1>15. CanCommit(t)'
  <2>1. \A d \in Kept(t)' : LibraryOf[d] \in Held(t)'
    BY <1>3, <1>7, <1>8
  <2>2. (tx[t].corrected \subseteq Held(t))'
    BY <1>6, <1>7
  <2>3. Charged(View(t)') \subseteq Charged(status')
    BY <1>1, <1>10, <1>11
  <2> QED
    BY <1>14, <2>1, <2>2, <2>3 DEF CanCommit
<1> QED
  BY <1>6, <1>9, <1>15 DEF Phase

LEMMA ListLibrariesStep ==
    ASSUME TransactionsInv, NEW t \in Transaction, ListLibraries(t)
    PROVE  LocalStep(t) /\ Phase(t)'
<1> DEFINE alive == {l \in Library : library[l].row = "live"}
           x == [tx[t] EXCEPT !.todo = alive, !.next = "lock"]
<1>1. /\ Types /\ IsFresh(t) /\ tx[t] \in TxState /\ tx' = [tx EXCEPT ![t] = x]
      /\ UNCHANGED <<library, status, libraryDraft, statusDraft, reserving, drift>>
  BY PhaseParts DEF ListLibraries, Phase, drafts
<1>2. alive \subseteq Library /\ \A l \in Library : drift[l] > 0 => l \in alive
  BY PhaseParts DEF RowOK, RowIsLive
<1> HIDE DEF alive
<1>3. x \in TxState /\ x.next = "lock" /\ x.todo = alive /\ x.corrected = tx[t].corrected
  <2>1. alive \in SUBSET (Library \cup Document) /\ "lock" \in Statement
    BY <1>2 DEF Statement
  <2> QED
    BY <1>1, <2>1 DEF TxState
<1> HIDE DEF x
<1>4. TxStep(t) /\ tx'[t].next = "lock" /\ tx'[t].todo = alive /\ tx'[t].corrected = {}
  BY <1>1, <1>3, GoesOn DEF IsFresh
<1>5. LibrariesStep(t) /\ Held(t)' = {} /\ DocumentsStep(t) /\ Kept(t)' = {}
  BY <1>1, LeavesLibraries, LeavesDocuments DEF IsFresh
<1>6. LocalStep(t)
  BY <1>1, <1>4, <1>5 DEF LocalStep
<1>7. CanCommit(t)'
  <2>1. View(t)' = status'
    BY <1>1, <1>5, PhaseParts DEF View, StatusSeen, Kept
  <2> QED
    BY <1>4, <1>5, <2>1 DEF CanCommit
<1>8. IsLocking(t)'
  BY <1>1, <1>2, <1>4, <1>5, <1>7 DEF IsLocking
<1> QED
  BY <1>4, <1>6, <1>8 DEF Phase

LEMMA SmallestOfNats ==
    ASSUME NEW S, S \subseteq Nat, S # {}
    PROVE  SmallestOf(S) \in S /\ \A k \in S : SmallestOf(S) <= k
BY LeastOfNats DEF SmallestOf

LEMMA LockLibraryStep ==
    ASSUME TransactionsInv, NEW t \in Transaction, LockLibrary(t)
    PROVE  LocalStep(t) /\ Phase(t)'
<1>0. PICK l : l = SmallestOf(tx[t].todo)
  OBVIOUS
<1> DEFINE rest == tx[t].todo \ {l}
           x == [tx[t] EXCEPT !.todo = rest]
<1>1. /\ Types /\ IsLocking(t) /\ tx[t] \in TxState /\ tx[t].next = "lock" /\ tx[t].todo # {}
      /\ LibraryIsFree(t, l) /\ tx' = [tx EXCEPT ![t] = x]
      /\ UNCHANGED <<library, status, statusDraft, reserving, drift>>
      /\ IF library[l].row = "live" THEN WriteLibrary(t, l, library[l])
         ELSE UNCHANGED libraryDraft
  BY <1>0, PhaseParts DEF LockLibrary, Phase
<1>2. /\ CanCommit(t) /\ Kept(t) = {} /\ tx[t].corrected = {} /\ tx[t].todo \subseteq Library
      /\ \A k \in Held(t) : libraryDraft[t][k] = library[k]
      /\ \A k \in Held(t), m \in tx[t].todo : k < m
      /\ \A k \in Library : drift[k] > 0 => k \in tx[t].todo \cup Held(t)
  BY <1>1 DEF IsLocking
<1>3. l \in tx[t].todo /\ l \in Library /\ \A k \in tx[t].todo : l <= k
  <2>1. tx[t].todo \subseteq Nat
    BY <1>2, TransactionsAssumption
  <2> QED
    BY <1>0, <1>1, <1>2, <2>1, SmallestOfNats
<1>4. x \in TxState /\ x.next = "lock" /\ x.todo = rest /\ x.corrected = {}
  <2>1. rest \in SUBSET (Library \cup Document)
    BY <1>2
  <2> HIDE DEF rest
  <2> QED
    BY <1>1, <1>2, <2>1 DEF TxState
<1> HIDE DEF x
<1>5. TxStep(t) /\ tx'[t].next = "lock" /\ tx'[t].todo = rest /\ tx'[t].corrected = {}
  BY <1>1, <1>4, GoesOn
<1> HIDE DEF rest
<1>6. DocumentsStep(t) /\ Kept(t)' = {} /\ View(t) = status /\ View(t)' = status
  <2>1. DocumentsStep(t) /\ Kept(t)' = {}
    BY <1>1, <1>2, LeavesDocuments
  <2> QED
    BY <1>1, <1>2, <2>1, PhaseParts DEF View, StatusSeen, Kept
<1>7. library[l] \in LibraryRow /\ \A k \in Library : RowOK(library[k], k, status, drift[k])
  BY <1>3, PhaseParts
<1>8. /\ LibrariesStep(t) /\ Held(t) \subseteq Held(t)' /\ Held(t)' \subseteq Held(t) \cup {l}
      /\ \A k \in Held(t)' : libraryDraft'[t][k] = library[k]
      /\ drift[l] > 0 => l \in Held(t)'
  <2>1. CASE library[l].row = "live"
    <3>1. WriteLibrary(t, l, library[l])
      BY <1>1, <2>1
    <3>2. LibrariesStep(t) /\ Held(t)' = Held(t) \cup {l} /\ libraryDraft'[t][l] = library[l]
          /\ \A k \in Held(t) \ {l} : libraryDraft'[t][k] = libraryDraft[t][k]
      BY <1>1, <1>3, <1>7, <3>1, WritesLibrary
    <3> QED
      BY <1>2, <3>2
  <2>2. CASE library[l].row # "live"
    <3>1. UNCHANGED libraryDraft
      BY <1>1, <2>2
    <3>2. LibrariesStep(t) /\ Held(t)' = Held(t) /\ libraryDraft'[t] = libraryDraft[t]
      BY <1>1, <3>1, LeavesLibraries
    <3>3. ~ (drift[l] > 0)
      BY <1>3, <1>7, <2>2 DEF RowOK, RowIsLive
    <3> QED
      BY <1>2, <3>2, <3>3
  <2> QED
    BY <2>1, <2>2
<1>9. LocalStep(t)
  BY <1>1, <1>5, <1>6, <1>8 DEF LocalStep
<1>10. CanCommit(t)'
  <2>1. Held(t) \subseteq Library
    BY <1>1, HeldAreRows
  <2>2. \A k \in Held(t)' : DriftSeen(t, k)' = drift[k]
    BY <1>1, <1>5 DEF DriftSeen
  <2>3. \A k \in Held(t)' : RowOK(libraryDraft'[t][k], k, View(t)', DriftSeen(t, k)')
    BY <1>3, <1>6, <1>7, <1>8, <2>1, <2>2
  <2> QED
    BY <1>1, <1>5, <1>6, <2>3 DEF CanCommit
<1>11. IsLocking(t)'
  <2>1. \A k \in Held(t)', m \in rest : k < m
    <3>1. \A m \in tx[t].todo : m \in Nat
      BY <1>2, TransactionsAssumption
    <3>2. \A m \in rest : m \in tx[t].todo /\ m # l
      BY DEF rest
    <3>3. \A m \in rest : l < m
      BY <1>3, <3>1, <3>2
    <3> QED
      BY <1>2, <1>8, <3>2, <3>3
  <2>2. \A k \in Library : drift[k] > 0 => k \in rest \cup Held(t)'
    BY <1>2, <1>8 DEF rest
  <2>3. rest \subseteq Library
    BY <1>2 DEF rest
  <2> QED
    BY <1>1, <1>5, <1>6, <1>8, <1>10, <2>1, <2>2, <2>3 DEF IsLocking
<1> QED
  BY <1>5, <1>9, <1>11 DEF Phase

(* What the recount counts are the pages of the documents; a library is    *)
(* off only where it had drifted.                                          *)
LEMMA CountedIsRight ==
    ASSUME NEW l \in Library
    PROVE  Counted(l) \in CountedRow /\ Counts(Counted(l), l, status, 0)
<1>1. Counted(l) = [page_count |-> Total(In(status, l, "settled"), Pages),
                    pages_reserved |-> Total(In(status, l, "in_flight"), Pages),
                    doc_count |-> Cardinality(In(status, l, "settled"))]
  BY DEF Counted, PagesIn, In
<1>2. /\ Total(In(status, l, "settled"), Pages) \in Nat
      /\ Total(In(status, l, "in_flight"), Pages) \in Nat
      /\ Cardinality(In(status, l, "settled")) \in Nat
  BY RowTotals DEF Status
<1> QED
  BY <1>1, <1>2 DEF CountedRow, Counts

LEMMA OffHasDrifted ==
    ASSUME NEW l \in Library, Counts(library[l], l, status, drift[l]), drift[l] \in Nat,
           IsOff(l, Counted(l))
    PROVE  drift[l] > 0
<1> SUFFICES ASSUME drift[l] = 0 PROVE FALSE
  OBVIOUS
<1>1. Counts(Counted(l), l, status, 0)
  BY CountedIsRight
<1> QED
  BY <1>1 DEF IsOff, Counts

LEMMA CountDocumentsStep ==
    ASSUME TransactionsInv, NEW t \in Transaction, CountDocuments(t)
    PROVE  LocalStep(t) /\ Phase(t)'
<1> DEFINE off == {l \in Library : library[l].row = "live" /\ IsOff(l, Counted(l))}
           counted == [l \in off |-> Counted(l)]
           x == [tx[t] EXCEPT !.counted = counted, !.todo = off, !.next = "correct"]
<1>1. /\ Types /\ IsLocking(t) /\ tx[t] \in TxState /\ tx[t].todo = {}
      /\ tx' = [tx EXCEPT ![t] = x]
      /\ UNCHANGED <<library, status, libraryDraft, statusDraft, reserving, drift>>
  BY PhaseParts DEF CountDocuments, CountAndCompare, Phase, drafts
<1>2. /\ CanCommit(t) /\ Kept(t) = {} /\ tx[t].corrected = {}
      /\ \A k \in Held(t) : libraryDraft[t][k] = library[k]
      /\ \A k \in Library : drift[k] > 0 => k \in Held(t)
  BY <1>1 DEF IsLocking
<1>3. off \subseteq Library /\ off \subseteq Held(t)
  <2>1. ASSUME NEW l \in off PROVE drift[l] > 0
    <3>1. l \in Library /\ IsOff(l, Counted(l)) /\ Counts(library[l], l, status, drift[l])
          /\ drift[l] \in Nat
      BY PhaseParts DEF RowOK
    <3> QED
      BY <3>1, OffHasDrifted
  <2> QED
    BY <1>2, <2>1
<1> HIDE DEF off
<1>4. /\ counted \in [off -> CountedRow]
      /\ \A l \in off : l \in DOMAIN counted /\ Counts(counted[l], l, status, 0)
  BY <1>3, CountedIsRight
<1> HIDE DEF counted
<1>5. /\ x \in TxState /\ x.next = "correct" /\ x.todo = off /\ x.counted = counted
      /\ x.corrected = {}
  <2>1. /\ off \in SUBSET (Library \cup Document) /\ "correct" \in Statement
        /\ counted \in UNION {[S -> CountedRow] : S \in SUBSET Library}
    BY <1>3, <1>4 DEF Statement
  <2> QED
    BY <1>1, <1>2, <2>1 DEF TxState
<1> HIDE DEF x
<1>6. /\ TxStep(t) /\ tx'[t].next = "correct" /\ tx'[t].todo = off
      /\ tx'[t].counted = counted /\ tx'[t].corrected = {}
  BY <1>1, <1>5, GoesOn
<1>7. /\ LibrariesStep(t) /\ Held(t)' = Held(t) /\ libraryDraft'[t] = libraryDraft[t]
      /\ DocumentsStep(t) /\ Kept(t)' = {} /\ statusDraft'[t] = statusDraft[t]
  BY <1>1, <1>2, LeavesLibraries, LeavesDocuments
<1>8. LocalStep(t)
  BY <1>1, <1>6, <1>7 DEF LocalStep
<1>9. CanCommit(t)'
  <2>1. View(t)' = View(t)
    BY <1>1 DEF View, StatusSeen
  <2>2. \A k \in Held(t) : DriftSeen(t, k)' = DriftSeen(t, k)
    BY <1>1, <1>2, <1>6 DEF DriftSeen
  <2>3. \A k \in Held(t)' : RowOK(libraryDraft'[t][k], k, View(t)', DriftSeen(t, k)')
    BY <1>2, <1>7, <2>1, <2>2 DEF CanCommit
  <2>4. Charged(View(t)') \subseteq Charged(status')
    <3>1. View(t) = status
      BY <1>2, PhaseParts DEF View, StatusSeen, Kept
    <3> QED
      BY <1>1, <2>1, <3>1
  <2> QED
    BY <1>6, <1>7, <2>3, <2>4 DEF CanCommit
<1>10. IsCorrecting(t)'
  BY <1>1, <1>2, <1>3, <1>4, <1>6, <1>7, <1>9 DEF IsCorrecting
<1> QED
  BY <1>6, <1>8, <1>10 DEF Phase

LEMMA CorrectLibraryStep ==
    ASSUME TransactionsInv, NEW t \in Transaction, CorrectLibrary(t)
    PROVE  LocalStep(t) /\ Phase(t)'
<1>0. PICK l : l = FirstOf(tx[t].todo)
  OBVIOUS
<1> DEFINE c == tx[t].counted[l]
           row == [library[l] EXCEPT !.page_count = c.page_count,
                                     !.pages_reserved = c.pages_reserved,
                                     !.doc_count = c.doc_count]
           rest == tx[t].todo \ {l}
           corrected == IF IsOff(l, c) THEN tx[t].corrected \cup {l} ELSE tx[t].corrected
           x == [tx[t] EXCEPT !.todo = rest, !.corrected = corrected]
<1>1. /\ Types /\ IsCorrecting(t) /\ tx[t] \in TxState /\ tx[t].next = "correct"
      /\ l \in tx[t].todo /\ LibraryIsFree(t, l)
      /\ UNCHANGED <<library, status, statusDraft, reserving, drift>>
  BY <1>0, PhaseParts, FirstOfMany DEF CorrectLibrary, Phase
<1>2. /\ IsOff(l, c) => WriteLibrary(t, l, row) /\ tx' = [tx EXCEPT ![t].todo = @ \ {l},
                                                                    ![t].corrected = @ \cup {l}]
      /\ ~IsOff(l, c) => UNCHANGED libraryDraft /\ tx' = [tx EXCEPT ![t].todo = @ \ {l}]
  BY <1>0 DEF CorrectLibrary
<1>3. /\ CanCommit(t) /\ Kept(t) = {} /\ tx[t].todo \subseteq Held(t) \ tx[t].corrected
      /\ tx[t].corrected \subseteq Held(t) /\ Held(t) \subseteq Library /\ l \in Library
      /\ \A k \in tx[t].todo : /\ libraryDraft[t][k] = library[k] /\ k \in DOMAIN tx[t].counted
                               /\ Counts(tx[t].counted[k], k, status, 0)
  BY <1>1, HeldAreRows DEF IsCorrecting, CanCommit
<1>4. c \in CountedRow /\ Counts(c, l, status, 0)
  <2>1. tx[t].counted \in UNION {[S -> CountedRow] : S \in SUBSET Library}
    BY <1>1, TxFields
  <2> QED
    BY <1>1, <1>3, <2>1
<1>5. library[l] \in LibraryRow /\ RowOK(library[l], l, status, drift[l]) /\ drift[l] \in Nat
  BY <1>3, PhaseParts
<1>6. /\ row \in LibraryRow /\ row.row = library[l].row /\ row.page_count = c.page_count
      /\ row.pages_reserved = c.pages_reserved /\ row.doc_count = c.doc_count
  BY <1>4, <1>5 DEF LibraryRow, CountedRow
<1>7. tx' = [tx EXCEPT ![t] = x]
  <2>1. tx[t].corrected = [tx[t] EXCEPT !.todo = rest].corrected
    BY <1>1, TxFields
  <2>2. CASE IsOff(l, c)
    BY <1>2, <2>2
  <2>3. CASE ~IsOff(l, c)
    <3>1. tx' = [tx EXCEPT ![t] = [tx[t] EXCEPT !.todo = rest]]
      BY <1>2, <2>3
    <3>2. [tx[t] EXCEPT !.todo = rest] = x
      BY <1>1, <2>3 DEF TxState
    <3> QED
      BY <3>1, <3>2
  <2> QED
    BY <2>2, <2>3
<1>8. /\ x \in TxState /\ x.next = "correct" /\ x.todo = rest /\ x.corrected = corrected
      /\ x.counted = tx[t].counted
  <2>1. rest \in SUBSET (Library \cup Document) /\ corrected \in SUBSET Library
    BY <1>3
  <2> HIDE DEF rest, corrected
  <2> QED
    BY <1>1, <2>1 DEF TxState
<1> HIDE DEF x
<1>9. /\ TxStep(t) /\ tx'[t].next = "correct" /\ tx'[t].todo = rest
      /\ tx'[t].corrected = corrected /\ tx'[t].counted = tx[t].counted
  BY <1>1, <1>7, <1>8, GoesOn
<1>10. DocumentsStep(t) /\ Kept(t)' = {} /\ View(t) = status /\ View(t)' = status
  <2>1. DocumentsStep(t) /\ Kept(t)' = {}
    BY <1>1, <1>3, LeavesDocuments
  <2> QED
    BY <1>1, <1>3, <2>1, PhaseParts DEF View, StatusSeen, Kept
<1> HIDE DEF row, c
<1>11. /\ LibrariesStep(t) /\ Held(t)' = Held(t)
       /\ \A k \in Held(t) \ {l} : libraryDraft'[t][k] = libraryDraft[t][k]
       /\ IF IsOff(l, c) THEN libraryDraft'[t][l] = row ELSE libraryDraft'[t][l] = library[l]
  <2>1. CASE IsOff(l, c)
    <3>1. LibrariesStep(t) /\ Held(t)' = Held(t) \cup {l} /\ libraryDraft'[t][l] = row
          /\ \A k \in Held(t) \ {l} : libraryDraft'[t][k] = libraryDraft[t][k]
      BY <1>1, <1>2, <1>3, <1>6, <2>1, WritesLibrary
    <3> QED
      BY <1>1, <1>3, <2>1, <3>1
  <2>2. CASE ~IsOff(l, c)
    BY <1>1, <1>2, <1>3, <2>2, LeavesLibraries
  <2> QED
    BY <2>1, <2>2
<1>12. LocalStep(t)
  BY <1>1, <1>9, <1>10, <1>11 DEF LocalStep
<1>13. RowOK(row, l, status, 0)
  <2>1. Counts(row, l, status, 0)
    BY <1>4, <1>6 DEF Counts
  <2>2. RowIsLive(row, l, status, 0)
    BY <1>5, <1>6 DEF RowOK, RowIsLive
  <2> QED
    BY <1>5, <2>1, <2>2 DEF RowOK
<1>14. CanCommit(t)'
  <2>1. ASSUME NEW k \in Held(t)
        PROVE  RowOK(libraryDraft'[t][k], k, status, DriftSeen(t, k)')
    <3>1. RowOK(libraryDraft[t][k], k, status, DriftSeen(t, k))
      BY <1>3, <1>10 DEF CanCommit
    <3>2. CASE k # l
      <4>1. DriftSeen(t, k)' = DriftSeen(t, k)
        BY <1>1, <1>9, <3>2 DEF DriftSeen
      <4> QED
        BY <1>11, <3>1, <3>2, <4>1
    <3>3. CASE k = l /\ IsOff(l, c)
      <4>1. DriftSeen(t, k)' = 0
        BY <1>9, <3>3 DEF DriftSeen
      <4> QED
        BY <1>11, <1>13, <3>3, <4>1
    <3>4. CASE k = l /\ ~IsOff(l, c)
      <4>1. DriftSeen(t, k)' = drift[k]
        BY <1>1, <1>3, <1>9, <3>4 DEF DriftSeen
      <4> QED
        BY <1>5, <1>11, <3>4, <4>1
    <3> QED
      BY <3>2, <3>3, <3>4
  <2>2. corrected \subseteq Held(t)
    BY <1>1, <1>3
  <2> HIDE DEF corrected
  <2> QED
    BY <1>1, <1>9, <1>10, <1>11, <2>1, <2>2 DEF CanCommit
<1>15. IsCorrecting(t)'
  <2>1. rest \subseteq Held(t) \ corrected
    BY <1>3
  <2>2. \A k \in rest : /\ libraryDraft'[t][k] = library[k] /\ k \in DOMAIN tx[t].counted
                        /\ Counts(tx[t].counted[k], k, status, 0)
    BY <1>3, <1>11
  <2> HIDE DEF rest, corrected
  <2> QED
    BY <1>1, <1>9, <1>10, <1>11, <1>14, <2>1, <2>2 DEF IsCorrecting
<1> QED
  BY <1>9, <1>12, <1>15 DEF Phase

LEMMA EndRecountStep ==
    ASSUME TransactionsInv, NEW t \in Transaction, EndRecount(t)
    PROVE  LocalStep(t) /\ Phase(t)'
<1>1. /\ Types /\ CanCommit(t) /\ Goto(t, "commit")
      /\ UNCHANGED <<library, status, libraryDraft, statusDraft, reserving, drift>>
  BY PhaseParts DEF EndRecount, Phase, IsCorrecting, drafts
<1>2. TxStep(t) /\ tx'[t].next = "commit" /\ tx'[t].corrected = tx[t].corrected
  BY <1>1, Goes DEF Statement
<1>3. /\ LibrariesStep(t) /\ Held(t)' = Held(t) /\ libraryDraft'[t] = libraryDraft[t]
      /\ DocumentsStep(t) /\ Kept(t)' = Kept(t) /\ statusDraft'[t] = statusDraft[t]
  BY <1>1, LeavesLibraries, LeavesDocuments
<1>4. LocalStep(t)
  BY <1>1, <1>2, <1>3 DEF LocalStep
<1>5. View(t)' = View(t) /\ \A k : DriftSeen(t, k)' = DriftSeen(t, k)
  BY <1>1, <1>2 DEF View, StatusSeen, DriftSeen
<1>6. CanCommit(t)'
  BY <1>1, <1>2, <1>3, <1>5 DEF CanCommit, Chargeless, FitsGlobally
<1> QED
  BY <1>2, <1>4, <1>6 DEF Phase
-----------------------------------------------------------------------------
(* Ends of transactions.                                                   *)

LEMMA EndsFresh ==
    ASSUME Types, NEW t \in Transaction, DropDrafts(t)
    PROVE  /\ LibrariesStep(t) /\ DocumentsStep(t) /\ TxStep(t) /\ Phase(t)'
           /\ reserving' = (IF reserving = t THEN NoTransaction ELSE reserving)
<1>1. /\ libraryDraft \in [Transaction -> Drafts(Library, LibraryRow)]
      /\ statusDraft \in [Transaction -> Drafts(Document, Status)]
      /\ Nothing \in Drafts(Library, LibraryRow) /\ Nothing \in Drafts(Document, Status)
      /\ DOMAIN Nothing = {}
  BY NothingDraft DEF Types
<1>2. /\ libraryDraft' = [libraryDraft EXCEPT ![t] = Nothing]
      /\ statusDraft' = [statusDraft EXCEPT ![t] = Nothing]
      /\ tx' = [tx EXCEPT ![t] = NoTx]
      /\ reserving' = (IF reserving = t THEN NoTransaction ELSE reserving)
  BY DEF DropDrafts
<1> HIDE DEF Nothing
<1>3. NoTx \in TxState /\ NoTx.next = "idle" /\ NoTx.corrected = {}
  BY EmptyTx
<1>4. LibrariesStep(t) /\ Held(t)' = {}
  BY <1>1, <1>2 DEF LibrariesStep, Held
<1>5. DocumentsStep(t) /\ Kept(t)' = {}
  BY <1>1, <1>2 DEF DocumentsStep, Kept
<1>6. TxStep(t) /\ tx'[t] = NoTx
  BY <1>2, <1>3, GoesOn
<1>7. Phase(t)'
  BY <1>3, <1>4, <1>5, <1>6 DEF Phase, IsFresh
<1> QED
  BY <1>2, <1>4, <1>5, <1>6, <1>7

LEMMA RollbackStep ==
    ASSUME TransactionsInv, NEW t \in Transaction, Rollback(t)
    PROVE  LocalStep(t) /\ Phase(t)'
BY PhaseParts, EndsFresh DEF Rollback, LocalStep

(* What is committed are the rows as the transaction saw them.             *)
LEMMA CommitRows ==
    ASSUME TransactionsInv, NEW t \in Transaction, Commit(t)
    PROVE  /\ status' = View(t) /\ CanCommit(t)
           /\ \A d \in Document \ Kept(t) : status'[d] = status[d]
           /\ \A l \in Held(t) : l \in Library /\ library'[l] = libraryDraft[t][l]
                                 /\ drift'[l] = DriftSeen(t, l)
           /\ \A l \in Library \ Held(t) : /\ library'[l] = library[l] /\ drift'[l] = drift[l]
                                           /\ Carries(status, status', l)
           /\ \A l \in Library : drift'[l] = drift[l] \/ drift'[l] = 0
<1>1. Types /\ CanCommit(t) /\ Held(t) \subseteq Library /\ Kept(t) \subseteq Document
      /\ tx[t].corrected \subseteq Held(t)
  BY PhaseParts, HeldAreRows DEF Commit, Phase, CanCommit
<1>2. /\ library' = [l \in Library |-> LibrarySeen(t, l)]
      /\ status' = [d \in Document |-> StatusSeen(t, d)]
      /\ drift' = [l \in Library |-> IF l \in tx[t].corrected THEN 0 ELSE drift[l]]
  BY DEF Commit
<1>3. status' = View(t) /\ \A d \in Document \ Kept(t) : status'[d] = status[d]
  BY <1>2 DEF View, StatusSeen, Kept
<1>4. \A l \in Held(t) : l \in Library /\ library'[l] = libraryDraft[t][l]
                         /\ drift'[l] = DriftSeen(t, l)
  BY <1>1, <1>2 DEF LibrarySeen, Held, DriftSeen
<1>5. \A l \in Library \ Held(t) : library'[l] = library[l] /\ drift'[l] = drift[l]
  BY <1>1, <1>2 DEF LibrarySeen, Held
<1>6. \A l \in Library \ Held(t) : Carries(status, status', l)
  <2> SUFFICES ASSUME NEW l \in Library \ Held(t), NEW d \in DocsOf(l)
               PROVE  status'[d] = status[d] \/ (status[d] = "error" /\ status'[d] = "absent")
    BY DEF Carries
  <2>1. d \in Document /\ LibraryOf[d] = l
    BY DEF DocsOf
  <2>2. CASE d \in Kept(t)
    <3>1. Chargeless(t, d)
      BY <1>1, <2>1, <2>2 DEF CanCommit
    <3>2. status'[d] = statusDraft[t][d]
      BY <1>2, <2>1, <2>2 DEF StatusSeen, Kept
    <3> QED
      BY <3>1, <3>2 DEF Chargeless
  <2>3. CASE d \notin Kept(t)
    BY <1>3, <2>1, <2>3
  <2> QED
    BY <2>2, <2>3
<1>7. \A l \in Library : drift'[l] = drift[l] \/ drift'[l] = 0
  BY <1>2
<1> QED
  BY <1>1, <1>3, <1>4, <1>5, <1>6, <1>7

LEMMA CommitIsSound ==
    ASSUME TransactionsInv, NEW t \in Transaction, Commit(t)
    PROVE  Committed'
<1>1. \A l \in Library : RowOK(library'[l], l, status', drift'[l])
  <2> TAKE l \in Library
  <2>1. CASE l \in Held(t)
    <3>1. RowOK(libraryDraft[t][l], l, View(t), DriftSeen(t, l))
      BY <2>1, CommitRows DEF CanCommit
    <3> QED
      BY <2>1, <3>1, CommitRows
  <2>2. CASE l \notin Held(t)
    <3>1. /\ library'[l] = library[l] /\ drift'[l] = drift[l] /\ Carries(status, status', l)
      BY <2>2, CommitRows
    <3>2. RowOK(library[l], l, status, drift[l])
      BY PhaseParts
    <3>3. RowOK(library[l], l, status', drift[l])
      BY <3>1, <3>2, CarriedRow
    <3> QED
      BY <3>1, <3>3
  <2> QED
    BY <2>1, <2>2
<1>2. Total(Charged(status'), Pages) <= GlobalPages
  <2> DEFINE V == View(t)
  <2>1. /\ status' = V
        /\ \/ Charged(V) \subseteq Charged(status)
           \/ \E d \in Document : Charged(V) \subseteq Charged(status) \cup {d} /\ FitsGlobally(t, d)
    BY CommitRows DEF CanCommit
  <2> HIDE DEF V
  <2>2. Total(Charged(V), Pages) \in Nat /\ GlobalPages \in Nat
    BY RowTotals, TransactionsAssumption
  <2>3. CASE Charged(V) \subseteq Charged(status)
    <3>1. IsFiniteSet(AllUnits(Charged(status), Pages)) /\ Total(Charged(status), Pages) \in Nat
      BY RowSets, SomeDocuments
    <3>2. Total(Charged(V), Pages) <= Total(Charged(status), Pages)
      BY <2>3, <3>1, TotalSubset
    <3>3. Total(Charged(status), Pages) <= GlobalPages
      BY PhaseParts DEF Committed
    <3> QED
      BY <2>1, <2>2, <3>1, <3>2, <3>3
  <2>4. ASSUME NEW d \in Document, Charged(V) \subseteq Charged(status) \cup {d},
               FitsGlobally(t, d)
        PROVE  Total(Charged(V), Pages) <= GlobalPages
    <3> DEFINE S == Charged(status) \cup {d}
    <3>1. S \subseteq Document
      BY RowSets
    <3> HIDE DEF S
    <3>2. IsFiniteSet(AllUnits(S, Pages)) /\ Total(S, Pages) \in Nat
      BY <3>1, SomeDocuments
    <3>3. Total(Charged(V), Pages) <= Total(S, Pages)
      BY <2>4, <3>2, TotalSubset DEF S
    <3>4. Total(S, Pages) <= GlobalPages
      BY <2>4 DEF FitsGlobally, S
    <3> QED
      BY <2>2, <3>2, <3>3, <3>4
  <2> QED
    BY <2>1, <2>3, <2>4
<1> QED
  BY <1>1, <1>2 DEF Committed

LEMMA CommitKeepsInv ==
    ASSUME TransactionsInv, NEW t \in Transaction, Commit(t)
    PROVE  TransactionsInv'
<1>1. /\ Types /\ OneHolder /\ DropDrafts(t)
      /\ library \in [Library -> LibraryRow] /\ status \in [Document -> Status]
      /\ drift \in [Library -> Nat]
  BY PhaseParts DEF Commit
<1>2. /\ LibrariesStep(t) /\ DocumentsStep(t) /\ TxStep(t) /\ Phase(t)'
      /\ reserving' = (IF reserving = t THEN NoTransaction ELSE reserving)
  BY <1>1, EndsFresh
<1>3. Types'
  <2>1. library' \in [Library -> LibraryRow] /\ status' \in [Document -> Status]
        /\ drift' \in [Library -> Nat]
    <3>1. /\ library' = [l \in Library |-> LibrarySeen(t, l)]
          /\ drift' = [l \in Library |-> IF l \in tx[t].corrected THEN 0 ELSE drift[l]]
      BY DEF Commit
    <3>2. status' = View(t)
      BY CommitRows
    <3> QED
      BY <1>1, <3>1, <3>2, SeenTypes
  <2>2. reserving' \in Transaction \cup {NoTransaction}
    BY <1>1, <1>2 DEF Types
  <2> QED
    BY <1>2, <2>1, <2>2 DEF Types, LibrariesStep, DocumentsStep, TxStep
<1>4. OneHolder'
  BY <1>1, <1>2, LocksStayApart
<1>5. Committed'
  BY CommitIsSound
<1>6. ASSUME NEW u \in Transaction \ {t} PROVE Phase(u)'
  <2>1. Unmoved(u)
    BY <1>2, TransactionsAssumption DEF LibrariesStep, DocumentsStep, TxStep, Unmoved
  <2>2. Spares(u)
    <3>1. Held(u) \cap Held(t) = {} /\ Kept(u) \cap Kept(t) = {}
          /\ Held(u) \subseteq Library /\ Kept(u) \subseteq Document
      BY <1>1, HeldAreRows DEF OneHolder
    <3>2. \A l \in Held(u) : /\ library'[l] = library[l] /\ drift'[l] = drift[l]
                             /\ Carries(status, status', l)
      BY <3>1, CommitRows
    <3>3. \A d \in Kept(u) : status'[d] = status[d]
      BY <3>1, CommitRows
    <3>4. reserving = u => Charged(status') \subseteq Charged(status)
      BY CommitRows DEF CanCommit
    <3>5. \A l \in Library : drift'[l] = drift[l] \/ drift'[l] = 0
      BY CommitRows
    <3> QED
      BY <3>2, <3>3, <3>4, <3>5 DEF Spares
  <2> QED
    BY <1>1, <2>1, <2>2, PhaseFrame DEF TransactionsInv
<1> QED
  BY <1>2, <1>3, <1>4, <1>5, <1>6 DEF TransactionsInv

LEMMA MarkDueKeepsInv ==
    ASSUME TransactionsInv, NEW l \in Library, MarkDue(l)
    PROVE  TransactionsInv'
<1>1. /\ Types /\ OneHolder /\ HolderOfLibrary(l) = {}
      /\ library' = [library EXCEPT ![l].due = TRUE]
      /\ UNCHANGED <<status, libraryDraft, statusDraft, reserving, tx, drift>>
      /\ library \in [Library -> LibraryRow]
  BY DEF MarkDue, drafts, TransactionsInv, Types
<1> DEFINE row == [library[l] EXCEPT !.due = TRUE]
<1>2. /\ row \in LibraryRow /\ row.row = library[l].row
      /\ row.page_count = library[l].page_count
      /\ row.pages_reserved = library[l].pages_reserved /\ row.doc_count = library[l].doc_count
  BY <1>1 DEF LibraryRow
<1>3. library' = [library EXCEPT ![l] = row]
  BY <1>1
<1> HIDE DEF row
<1>4. /\ library' \in [Library -> LibraryRow] /\ library'[l] = row
      /\ \A k \in Library \ {l} : library'[k] = library[k]
  BY <1>1, <1>2, <1>3
<1>5. Types'
  BY <1>1, <1>4 DEF Types
<1>6. OneHolder'
  BY <1>1 DEF OneHolder, Held, Kept
<1>7. Committed'
  <2>1. ASSUME NEW k \in Library PROVE RowOK(library'[k], k, status, drift[k])
    <3>1. RowOK(library[k], k, status, drift[k])
      BY DEF TransactionsInv, Committed
    <3>2. CASE k = l
      BY <1>2, <1>4, <3>1, <3>2 DEF RowOK, Counts, RowIsLive
    <3>3. CASE k # l
      BY <1>4, <3>1, <3>3
    <3> QED
      BY <3>2, <3>3
  <2> QED
    BY <1>1, <2>1 DEF TransactionsInv, Committed
<1>8. ASSUME NEW u \in Transaction PROVE Phase(u)'
  <2>1. Unmoved(u)
    BY <1>1 DEF Unmoved
  <2>2. l \notin Held(u) /\ Held(u) \subseteq Library
    BY <1>1, HeldAreRows DEF HolderOfLibrary, Held
  <2>3. Spares(u)
    BY <1>1, <1>4, <2>2 DEF Spares, Carries
  <2> QED
    BY <1>1, <2>1, <2>3, PhaseFrame DEF TransactionsInv
<1> QED
  BY <1>5, <1>6, <1>7, <1>8 DEF TransactionsInv
-----------------------------------------------------------------------------
(* The invariant holds at first and survives every step.                   *)

LEMMA InitEstablishesInv ==
    ASSUME Init
    PROVE  TransactionsInv
<1>1. /\ \A l \in Library : drift[l] \in Nat
      /\ drift \in [Library -> Nat]
      /\ status = [d \in Document |-> "absent"]
      /\ library = [l \in Library |-> [row |-> IF drift[l] > 0 THEN "live" ELSE "none", due |-> FALSE,
                                       page_count |-> 0, pages_reserved |-> drift[l],
                                       doc_count |-> 0]]
      /\ libraryDraft = [t \in Transaction |-> Nothing]
      /\ statusDraft = [t \in Transaction |-> Nothing]
      /\ reserving = NoTransaction /\ tx = [t \in Transaction |-> NoTx]
  BY TransactionsAssumption DEF Init
<1>2. NoTx \in TxState /\ NoTx.next = "idle" /\ NoTx.corrected = {}
  BY EmptyTx
<1>3. /\ Nothing \in Drafts(Library, LibraryRow) /\ Nothing \in Drafts(Document, Status)
      /\ DOMAIN Nothing = {}
  BY NothingDraft
<1> HIDE DEF Nothing, NoTx
<1>4. Types
  <2>1. library \in [Library -> LibraryRow]
    BY <1>1 DEF LibraryRow
  <2>2. status \in [Document -> Status]
    BY <1>1 DEF Status
  <2> QED
    BY <1>1, <1>2, <1>3, <2>1, <2>2 DEF Types
<1>5. \A t \in Transaction : Held(t) = {} /\ Kept(t) = {} /\ tx[t] = NoTx
  BY <1>1, <1>3 DEF Held, Kept
<1>6. OneHolder
  BY <1>5 DEF OneHolder
<1>7. Committed
  <2>1. \A l : In(status, l, "settled") = {} /\ In(status, l, "in_flight") = {}
               /\ ChargedIn(status, l) = {}
    BY <1>1 DEF In, Charged, ChargedIn
  <2>2. Charged(status) = {}
    BY <1>1 DEF Charged
  <2>3. Total({}, Pages) = 0 /\ Cardinality({}) = 0
    BY TotalEmpty, FS_EmptySet
  <2>4. ASSUME NEW l \in Library PROVE RowOK(library[l], l, status, drift[l])
    <3>1. /\ drift[l] \in Nat /\ library[l].page_count = 0 /\ library[l].doc_count = 0
          /\ library[l].pages_reserved = drift[l]
          /\ library[l].row = IF drift[l] > 0 THEN "live" ELSE "none"
      BY <1>1
    <3>2. Counts(library[l], l, status, drift[l])
      <4>1. /\ Total(In(status, l, "settled"), Pages) = 0
            /\ Total(In(status, l, "in_flight"), Pages) = 0
            /\ Cardinality(In(status, l, "settled")) = 0
        BY <2>1, <2>3
      <4> QED
        BY <3>1, <4>1 DEF Counts
    <3>3. HasRoom(l, status)
      BY <2>1, <2>3, TransactionsAssumption DEF HasRoom
    <3>4. RowIsLive(library[l], l, status, drift[l])
      BY <1>1, <3>1 DEF RowIsLive, DocsOf
    <3> QED
      BY <3>2, <3>3, <3>4 DEF RowOK
  <2> QED
    BY <2>2, <2>3, <2>4, TransactionsAssumption DEF Committed
<1>8. \A t \in Transaction : Phase(t)
  BY <1>2, <1>5 DEF Phase, IsFresh
<1> QED
  BY <1>4, <1>6, <1>7, <1>8 DEF TransactionsInv

(* What a transaction does that neither commits nor marks a library.       *)
LEMMA StatementStep ==
    ASSUME BatchesSuffice, TransactionsInv, NEW t \in Transaction,
           \/ UploadStep(t) \/ IngestStep(t) \/ DeleteStep(t) \/ PurgeStep(t) \/ RecountStep(t)
           \/ Rollback(t)
    PROVE  LocalStep(t) /\ Phase(t)'
<1>1. CASE UploadStep(t)
  BY <1>1, EnsureLibraryStep, AdvisoryLockStep, ReservePagesStep, InsertDocumentStep DEF UploadStep
<1>2. CASE IngestStep(t)
  BY <1>2, WriteIndexStep, SettlePagesStep, ReleasePagesStep, RecordFailureStep DEF IngestStep
<1>3. CASE DeleteStep(t)
  BY <1>3, DeleteDocumentStep, GivePagesBackStep DEF DeleteStep
<1>4. CASE PurgeStep(t)
  BY <1>4, LockDuePurgeStep, SelectBatchStep, WipeDocumentStep, EndBatchStep, ZeroCountersStep
     DEF PurgeStep
<1>5. CASE RecountStep(t)
  BY <1>5, ListLibrariesStep, LockLibraryStep, CountDocumentsStep, CorrectLibraryStep,
     EndRecountStep DEF RecountStep
<1>6. CASE Rollback(t)
  BY <1>6, RollbackStep
<1> QED
  BY <1>1, <1>2, <1>3, <1>4, <1>5, <1>6

LEMMA UnchangedKeepsInv ==
    ASSUME TransactionsInv, UNCHANGED vars
    PROVE  TransactionsInv'
<1>1. UNCHANGED <<library, status, libraryDraft, statusDraft, reserving, tx, drift>>
  BY DEF vars, drafts
<1>2. Types' /\ OneHolder' /\ Committed'
  BY <1>1 DEF TransactionsInv, Types, OneHolder, Held, Kept, Committed
<1>3. ASSUME NEW u \in Transaction PROVE Phase(u)'
  <2>1. Unmoved(u) /\ Spares(u)
    BY <1>1 DEF Unmoved, Spares, Carries
  <2> QED
    BY <2>1, PhaseFrame DEF TransactionsInv
<1> QED
  BY <1>2, <1>3 DEF TransactionsInv

LEMMA StepKeepsInv ==
    ASSUME BatchesSuffice, TransactionsInv, [Next]_vars
    PROVE  TransactionsInv'
<1>1. ASSUME NEW t \in Transaction, NEW d \in Document,
             NEW statement \in {"ensure", "index", "record", "delete"},
             Begin(t, statement, d, LibraryOf[d])
      PROVE  TransactionsInv'
  <2>1. LocalStep(t) /\ Phase(t)'
    <3>1. LibraryOf[d] \in Library
      BY TransactionsAssumption
    <3> QED
      BY <1>1, <3>1, BeginStep
  <2> QED
    BY <2>1, LocalStepKeepsInv
<1>2. ASSUME NEW t \in Transaction, NEW l \in Library, Begin(t, "lock_due", NoDocument, l)
      PROVE  TransactionsInv'
  BY <1>2, BeginStep, LocalStepKeepsInv
<1>3. ASSUME NEW t \in Transaction, Begin(t, "list", NoDocument, NoLibrary)
      PROVE  TransactionsInv'
  <2>1. LocalStep(t) /\ Phase(t)'
    BY <1>3, BeginStep
  <2> QED
    BY <2>1, LocalStepKeepsInv
<1>4. ASSUME NEW t \in Transaction,
             \/ UploadStep(t) \/ IngestStep(t) \/ DeleteStep(t) \/ PurgeStep(t) \/ RecountStep(t)
             \/ Rollback(t)
      PROVE  TransactionsInv'
  BY <1>4, StatementStep, LocalStepKeepsInv
<1>5. ASSUME NEW t \in Transaction, Commit(t) PROVE TransactionsInv'
  BY <1>5, CommitKeepsInv
<1>6. ASSUME NEW l \in Library, MarkDue(l) PROVE TransactionsInv'
  BY <1>6, MarkDueKeepsInv
<1>7. CASE UNCHANGED vars
  BY <1>7, UnchangedKeepsInv
<1>8. CASE Next
  BY <1>1, <1>2, <1>3, <1>4, <1>5, <1>6, <1>8 DEF Next
<1> QED
  BY <1>7, <1>8

(* Whatever statements of transactions run between each other, each finds  *)
(* what its next statement relies on: the locks of the one it changes, and *)
(* counters of these that agree with the documents as it would commit them.*)
THEOREM TransactionsInvariant ==
    ASSUME BatchesSuffice
    PROVE  Spec => []TransactionsInv
<1>1. Init => TransactionsInv
  BY InitEstablishesInv
<1>2. TransactionsInv /\ [Next]_vars => TransactionsInv'
  BY StepKeepsInv
<1> QED
  BY <1>1, <1>2, PTL DEF Spec

LEMMA InvIsSound ==
    ASSUME TransactionsInv
    PROVE  CommittedIsSound
<1>1. \A l \in Library : RowOK(library[l], l, status, drift[l])
  BY DEF TransactionsInv, Committed
<1>2. CountersExact
  <2>1. \A l \in Library : Settled(l) = In(status, l, "settled") /\ InFlight(l) = In(status, l, "in_flight")
    BY DEF Settled, InFlight, In
  <2> QED
    BY <1>1, <2>1 DEF CountersExact, RowOK, Counts
<1>3. CapsHeld
  <2>1. \A l \in Library : Settled(l) \cup InFlight(l) = ChargedIn(status, l)
    BY DEF Settled, InFlight, ChargedIn, Charged
  <2>2. {d \in Document : status[d] \in {"in_flight", "settled"}} = Charged(status)
    BY DEF Charged
  <2>3. Total(Charged(status), Pages) <= GlobalPages
    BY DEF TransactionsInv, Committed
  <2> QED
    BY <1>1, <2>1, <2>2, <2>3 DEF CapsHeld, RowOK, HasRoom
<1>4. PurgedIsEmpty
  BY <1>1, TransactionsAssumption DEF PurgedIsEmpty, RowOK, RowIsLive, DocsOf
<1> QED
  BY <1>2, <1>3, <1>4 DEF CommittedIsSound

(* The committed counters always add up to the committed rows but for the  *)
(* drift they began with, no cap is passed and a purged library is empty,  *)
(* whatever transactions run side by side, wait or roll back.              *)
THEOREM CommittedStaysSound ==
    ASSUME BatchesSuffice
    PROVE  Spec => []CommittedIsSound
<1>1. TransactionsInv => CommittedIsSound
  BY InvIsSound
<1> QED
  BY <1>1, TransactionsInvariant, PTL
-----------------------------------------------------------------------------
(* Who holds the advisory lock goes on to its commit without waiting.      *)

AtTheEnd == {"reserve", "insert", "commit"}

LEMMA LockStays ==
    ASSUME Types, LockIsTaken, NEW t \in Transaction, TxStep(t), UNCHANGED reserving,
           tx[t].next \in AtTheEnd => tx'[t].next \in AtTheEnd
    PROVE  LockIsTaken'
<1>1. reserving \in Transaction \cup {NoTransaction}
  BY DEF Types
<1>2. CASE reserving = t
  BY <1>2 DEF LockIsTaken, AtTheEnd
<1>3. CASE reserving # t
  BY <1>1, <1>3 DEF LockIsTaken, TxStep
<1> QED
  BY <1>2, <1>3

LEMMA LockIsDropped ==
    ASSUME Types, LockIsTaken, NEW t \in Transaction, DropDrafts(t)
    PROVE  LockIsTaken'
<1>1. TxStep(t) /\ reserving' = (IF reserving = t THEN NoTransaction ELSE reserving)
  BY EndsFresh
<1>2. reserving \in Transaction \cup {NoTransaction}
  BY DEF Types
<1> QED
  BY <1>1, <1>2 DEF LockIsTaken, TxStep

LEMMA StatementKeepsLock ==
    ASSUME BatchesSuffice, TransactionsInv, LockIsTaken, NEW t \in Transaction,
           UploadStep(t) \/ IngestStep(t) \/ DeleteStep(t) \/ PurgeStep(t) \/ RecountStep(t)
    PROVE  LockIsTaken'
<1>1. Types /\ TxStep(t) /\ tx' \in [Transaction -> TxState] /\ tx \in [Transaction -> TxState]
  BY StatementStep DEF LocalStep, TxStep, TransactionsInv, Types
<1>2. CASE AdvisoryLock(t)
  <2>1. reserving' = t /\ Goto(t, "reserve") /\ "reserve" \in Statement
    BY <1>2 DEF AdvisoryLock, Statement
  <2>2. tx'[t].next = "reserve"
    BY <1>1, <2>1, Goes
  <2> QED
    BY <2>1, <2>2 DEF LockIsTaken
<1>3. ASSUME NEW statement \in AtTheEnd, Goto(t, statement), UNCHANGED reserving
      PROVE  LockIsTaken'
  <2>1. statement \in Statement
    BY DEF AtTheEnd, Statement
  <2>2. tx'[t].next = statement
    BY <1>1, <1>3, <2>1, Goes
  <2> QED
    BY <1>1, <1>3, <2>2, LockStays
<1>4. CASE EnsureLibrary(t) \/ ReservePages(t) \/ InsertDocument(t)
  <2>1. CASE EnsureLibrary(t)
    BY <1>1, <2>1, LockStays DEF EnsureLibrary, AtTheEnd
  <2>2. CASE ReservePages(t) \/ InsertDocument(t)
    BY <1>3, <2>2 DEF ReservePages, InsertDocument, AtTheEnd
  <2> QED
    BY <1>4, <2>1, <2>2
<1>5. CASE IngestStep(t)
  <2>1. UNCHANGED reserving /\ tx[t].next \notin AtTheEnd
    BY <1>5 DEF IngestStep, WriteIndex, SettlePages, ReleasePages, RecordFailure, AtTheEnd
  <2> QED
    BY <1>1, <2>1, LockStays
<1>6. CASE DeleteStep(t)
  <2>1. UNCHANGED reserving /\ tx[t].next \notin AtTheEnd
    BY <1>6 DEF DeleteStep, DeleteDocument, GivePagesBack, AtTheEnd
  <2> QED
    BY <1>1, <2>1, LockStays
<1>7. CASE PurgeStep(t)
  <2>1. UNCHANGED reserving /\ tx[t].next \notin AtTheEnd
    BY <1>7 DEF PurgeStep, LockDuePurge, SelectBatch, WipeDocument, EndBatch, ZeroCounters, AtTheEnd
  <2> QED
    BY <1>1, <2>1, LockStays
<1>8. CASE RecountStep(t)
  <2>1. UNCHANGED reserving /\ tx[t].next \notin AtTheEnd
    BY <1>8 DEF RecountStep, ListLibraries, LockLibrary, CountDocuments, CorrectLibrary,
                EndRecount, AtTheEnd
  <2> QED
    BY <1>1, <2>1, LockStays
<1> QED
  BY <1>2, <1>4, <1>5, <1>6, <1>7, <1>8 DEF UploadStep

LEMMA StepKeepsLock ==
    ASSUME BatchesSuffice, TransactionsInv, LockIsTaken, [Next]_vars
    PROVE  LockIsTaken'
<1>1. Types /\ tx \in [Transaction -> TxState] /\ NoTransaction \notin Transaction
  BY TransactionsAssumption DEF TransactionsInv, Types
<1>2. ASSUME NEW t \in Transaction, NEW s, NEW d, NEW l, Begin(t, s, d, l) PROVE LockIsTaken'
  <2>1. /\ UNCHANGED reserving /\ tx[t].next = "idle"
        /\ \A u \in Transaction \ {t} : tx'[u] = tx[u]
    BY <1>1, <1>2 DEF Begin
  <2>2. reserving # t
    BY <1>1, <2>1 DEF LockIsTaken
  <2> QED
    BY <1>1, <2>1, <2>2 DEF LockIsTaken, Types
<1>3. ASSUME NEW t \in Transaction,
             UploadStep(t) \/ IngestStep(t) \/ DeleteStep(t) \/ PurgeStep(t) \/ RecountStep(t)
      PROVE  LockIsTaken'
  BY <1>3, StatementKeepsLock
<1>4. ASSUME NEW t \in Transaction, Commit(t) \/ Rollback(t) PROVE LockIsTaken'
  BY <1>1, <1>4, LockIsDropped DEF Commit, Rollback
<1>5. ASSUME NEW l \in Library, MarkDue(l) PROVE LockIsTaken'
  BY <1>5 DEF MarkDue, LockIsTaken
<1>6. CASE UNCHANGED vars
  BY <1>6 DEF vars, LockIsTaken
<1>7. CASE Next
  BY <1>2, <1>3, <1>4, <1>5, <1>7 DEF Next
<1> QED
  BY <1>6, <1>7

LEMMA InitFreesLock == Init => LockIsTaken
BY DEF Init, LockIsTaken
-----------------------------------------------------------------------------
(* A circle of transactions that wait for each other.                      *)

(* Who is stopped, and by whom: a library's row is held on to only by a    *)
(* recount that is locking, a document's only by one that goes on to its   *)
(* library.                                                                *)
Waiting == {"ensure", "settle", "release", "give_back", "lock_due", "lock",
            "index", "record", "delete"}

LEMMA WaitsNowhere ==
    ASSUME TransactionsInv, LockIsTaken, NEW t \in Transaction, NEW u \in WaitsFor(t),
           tx[t].next \notin {"insert", "wipe"}
    PROVE  /\ u \in Transaction /\ u # t
           /\ tx[t].next \in Waiting \cup {"advisory"}
           /\ tx[t].next = "advisory" => u = reserving
           /\ tx[t].next # "advisory" =>
                \/ \E d \in Kept(u) : /\ d = tx[t].doc
                                      /\ tx[t].next \in {"index", "record", "delete"}
                \/ \E l \in Held(u) :
                     \/ tx[t].next \in {"ensure", "settle", "release", "give_back", "lock_due"}
                     \/ tx[t].next = "lock" /\ tx[t].todo # {} /\ l = SmallestOf(tx[t].todo)
<1>1. /\ OneHolder /\ Phase(t) /\ u \in Transaction /\ u # t
      /\ Held(t) \cap Held(u) = {}
  BY PhaseParts DEF WaitsFor, OneHolder
<1>2. CASE \E l \in LibrariesAwaited(t) : u \in HolderOfLibrary(l)
  <2>1. PICK l \in LibrariesAwaited(t) : l \in Held(u)
    BY <1>2 DEF HolderOfLibrary, Held
  <2>2. tx[t].next = "zero" => l \in Held(t)
    BY <1>1, <2>1 DEF LibrariesAwaited, Phase, IsPurging
  <2>3. tx[t].next = "correct" => l \in Held(t)
    BY <1>1, <2>1, FirstOfMany DEF LibrariesAwaited, Phase, IsCorrecting
  <2>4. tx[t].next \notin {"zero", "correct"}
    BY <1>1, <2>1, <2>2, <2>3
  <2>5. \/ tx[t].next \in {"ensure", "settle", "release", "give_back", "lock_due"}
        \/ tx[t].next = "lock" /\ tx[t].todo # {} /\ l = SmallestOf(tx[t].todo)
    BY <2>1, <2>4 DEF LibrariesAwaited
  <2> QED
    BY <1>1, <2>1, <2>5 DEF Waiting
<1>3. CASE \E d \in DocumentsAwaited(t) : u \in HolderOfDocument(d)
  <2>1. PICK d \in DocumentsAwaited(t) : d \in Kept(u)
    BY <1>3 DEF HolderOfDocument, Kept
  <2>2. d = tx[t].doc /\ tx[t].next \in {"index", "record", "delete"}
    BY <2>1 DEF DocumentsAwaited
  <2> QED
    BY <1>1, <2>1, <2>2 DEF Waiting
<1>4. CASE tx[t].next = "advisory" /\ u = reserving
  BY <1>1, <1>4
<1> QED
  BY <1>2, <1>3, <1>4 DEF WaitsFor

LEMMA WhoHolds ==
    ASSUME TransactionsInv, NEW u \in Transaction, tx[u].next \in Waiting
    PROVE  /\ Held(u) # {} => /\ tx[u].next = "lock" /\ tx[u].todo \subseteq Library
                              /\ \A k \in Held(u), l \in tx[u].todo : k < l
           /\ Kept(u) # {} => tx[u].next \in {"settle", "release", "give_back"}
<1>1. Phase(u)
  BY PhaseParts
<1> QED
  BY <1>1 DEF Waiting, Phase, IsFresh, HasChanged, IsLocking

LEMMA NoneIsLargest ==
    ASSUME NEW A, A \subseteq Library, A # {}
    PROVE  \E a \in A : \A b \in A : ~(a < b)
<1> DEFINE Above(a) == {l \in Library : a < l}
           F == {Above(a) : a \in A}
<1>1. F # {} /\ \A B \in F : IsFiniteSet(B)
  <2>1. F # {} /\ \A B \in F : B \in SUBSET Library
    OBVIOUS
  <2> HIDE DEF F
  <2> QED
    BY <2>1, TransactionsAssumption, FS_Subset
<1> HIDE DEF F
<1>2. PICK B \in F : \A C \in F : C \subseteq B => C = B
  BY <1>1, MinimalOfFinite
<1>3. PICK a \in A : B = Above(a)
  BY DEF F
<1>4. ASSUME NEW b \in A, a < b PROVE FALSE
  <2>1. Above(b) \in F
    BY DEF F
  <2>2. a \in Nat /\ b \in Nat /\ b \in Library /\ \A l \in Library : l \in Nat
    BY TransactionsAssumption
  <2>3. Above(b) \subseteq Above(a) /\ b \in Above(a) /\ b \notin Above(b)
    <3>1. \A l \in Library : b < l => a < l
      BY <1>4, <2>2
    <3>2. ~(b < b)
      BY <2>2
    <3> QED
      BY <1>4, <2>2, <3>1, <3>2
  <2> QED
    BY <1>2, <1>3, <2>1, <2>3
<1> QED
  BY <1>4

LEMMA NoCircle ==
    ASSUME TransactionsInv, LockIsTaken, NEW D \in SUBSET Transaction, D # {},
           \A t \in D : WaitsFor(t) \cap D # {},
           \A t \in D : tx[t].next \notin {"insert", "wipe"}
    PROVE  FALSE
<1>1. \A t \in D : tx[t].next \in Waiting
  <2>1. \A t \in D : tx[t].next \in Waiting \cup {"advisory"}
    BY WaitsNowhere
  <2>2. ASSUME NEW t \in D, tx[t].next = "advisory" PROVE FALSE
    <3>1. PICK u \in D : u \in WaitsFor(t)
      OBVIOUS
    <3>2. u = reserving /\ u \in Transaction
      BY <2>2, <3>1, WaitsNowhere
    <3>3. tx[u].next \in {"reserve", "insert", "commit"}
      BY <3>2, TransactionsAssumption DEF LockIsTaken
    <3> QED
      BY <2>1, <3>3 DEF Waiting
  <2> QED
    BY <2>1, <2>2
<1>2. ASSUME NEW t \in D, tx[t].next \notin {"index", "record", "delete"}
      PROVE  \E u \in D : /\ tx[u].next = "lock"
                          /\ \E k \in Held(u) : tx[t].next = "lock" => /\ tx[t].todo # {}
                                                                      /\ k = SmallestOf(tx[t].todo)
  <2>1. PICK u \in D : u \in WaitsFor(t)
    OBVIOUS
  <2>2. tx[t].next # "advisory" /\ tx[u].next \in Waiting
    BY <1>1 DEF Waiting
  <2>3. PICK k \in Held(u) : \/ tx[t].next # "lock"
                             \/ tx[t].todo # {} /\ k = SmallestOf(tx[t].todo)
    BY <1>2, <2>1, <2>2, WaitsNowhere
  <2>4. tx[u].next = "lock"
    BY <2>2, <2>3, WhoHolds
  <2> QED
    BY <2>3, <2>4
<1> DEFINE L == {t \in D : tx[t].next = "lock"}
           A == {SmallestOf(tx[t].todo) : t \in L}
<1>3. \E v \in D : tx[v].next = "lock"
  <2>1. PICK t \in D : TRUE
    OBVIOUS
  <2>2. CASE tx[t].next \in {"index", "record", "delete"}
    <3>1. PICK u \in D : u \in WaitsFor(t)
      OBVIOUS
    <3>2. tx[t].next # "advisory" /\ tx[u].next \in Waiting
      BY <1>1, <2>2
    <3>3. Kept(u) # {}
      BY <2>2, <3>1, <3>2, WaitsNowhere
    <3>4. tx[u].next \in {"settle", "release", "give_back"}
      BY <3>2, <3>3, WhoHolds
    <3> QED
      BY <1>2, <3>4
  <2> QED
    BY <1>2, <2>1, <2>2
<1>4. \A t \in L : /\ tx[t].todo # {} /\ tx[t].todo \subseteq Library
                   /\ SmallestOf(tx[t].todo) \in tx[t].todo
  <2> TAKE t \in L
  <2>1. tx[t].todo # {}
    BY <1>2
  <2>2. tx[t].todo \subseteq Library /\ Library \subseteq Nat
    BY PhaseParts, TransactionsAssumption DEF Phase, IsLocking
  <2> QED
    BY <2>1, <2>2, SmallestOfNats
<1>5. A \subseteq Library /\ A # {}
  BY <1>3, <1>4
<1>6. ASSUME NEW a \in A PROVE \E b \in A : a < b
  <2>1. PICK t \in L : a = SmallestOf(tx[t].todo)
    OBVIOUS
  <2>2. PICK u \in L : a \in Held(u)
    BY <1>2, <2>1
  <2>3. \A k \in Held(u), l \in tx[u].todo : k < l
    BY <1>1, <2>2, WhoHolds
  <2>4. SmallestOf(tx[u].todo) \in tx[u].todo /\ SmallestOf(tx[u].todo) \in A
    BY <1>4
  <2> QED
    BY <2>2, <2>3, <2>4
<1> HIDE DEF A
<1> QED
  BY <1>5, <1>6, NoneIsLargest

(* Every circle of transactions that wait for each other has a purge in    *)
(* it, or the upload of a text that is stored already: uploads otherwise,  *)
(* ingests, deletes and the recount, which locks in the order of the ids,  *)
(* never deadlock among themselves.                                        *)
THEOREM NeverDeadlocks ==
    ASSUME BatchesSuffice
    PROVE  Spec => []OrdinaryWorkNeverDeadlocks
<1>1. TransactionsInv /\ LockIsTaken => OrdinaryWorkNeverDeadlocks
  BY NoCircle DEF OrdinaryWorkNeverDeadlocks
<1>2. Spec => []TransactionsInv
  BY TransactionsInvariant
<1>3. Init => LockIsTaken
  BY InitFreesLock
<1>4. TransactionsInv /\ LockIsTaken /\ [Next]_vars => LockIsTaken'
  BY StepKeepsLock
<1> QED
  BY <1>1, <1>2, <1>3, <1>4, PTL DEF Spec
=============================================================================
