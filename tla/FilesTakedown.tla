----------------------------- MODULE FilesTakedown -----------------------------
(***************************************************************************)
(* Notice-and-takedown (src/files/operator.ts takedownContent) against     *)
(* uploads of the same text (src/files/upload.ts).  The takedown looks the *)
(* text up, inserts its block, lists its copies and commits, all in one    *)
(* transaction, then deletes the copies in one transaction per library; an *)
(* upload looks at the daily volume in one transaction and, after the      *)
(* parse, at the block and stores the document in another.  All of them    *)
(* run at READ COMMITTED and the takedown takes no lock an upload takes:   *)
(* its block is seen from its commit on, and its list is what was          *)
(* committed when it was taken.                                            *)
(*                                                                         *)
(* From its reservation on an upload holds the advisory lock of            *)
(* files_reserve_pages until it commits, so everything after the look at   *)
(* the block is one step.  Pages, quotas and page counters are FilesStore; *)
(* one text is reported, one day passes.                                   *)
(***************************************************************************)
EXTENDS Naturals, FiniteSets

CONSTANTS
    Uploads,        \* upload requests; also the ids of the documents they make
    Shelves,        \* bound: libraries 1 .. Shelves, in the order of their ids
    ShelfDay,       \* LIMITS.uploadsPerLibraryPerDay
    GlobalDay,      \* UPLOAD_GUARDS.globalUploadsPerDay
    MaxTakedowns    \* bound: calls of takedownContent

ASSUME TakedownAssumption ==
    /\ Shelves \in Nat \ {0} /\ ShelfDay \in Nat \ {0} /\ GlobalDay \in Nat \ {0}
    /\ MaxTakedowns \in Nat

VARIABLES
    uploads,     \* upload -> its library, whether it carries the reported text, how far it is
    held,        \* the documents stored, by the upload that made them
    counted,     \* library -> uploads counted today
    blocked,     \* the reported text is in blocked_content
    takedown,    \* the last call of takedownContent
    takedowns,   \* bound: calls so far
    spared       \* history: the uploads whose copies no call that has ended accounts for

takedownVars == <<uploads, held, counted, blocked, takedown, takedowns, spared>>

Books == 1 .. Shelves
Copies == {u \in held : uploads[u].reported}
Global == LET total[n \in 0 .. Shelves] == IF n = 0 THEN 0 ELSE counted[n] + total[n - 1] IN total[Shelves]

\* Uploads of the text that have looked at the block, in vain, and not yet committed.
UnderWay == {u \in Uploads : uploads[u].st = "open" /\ uploads[u].reported}

\* racing: history, the uploads under way while the call blocked and listed.
NoTakedown == [st |-> "none", by |-> "hash", todo |-> {}, racing |-> {}]

TakedownInit ==
    /\ uploads = [u \in Uploads |-> [st |-> "new", book |-> 1, reported |-> FALSE]]
    /\ held = {}
    /\ counted = [b \in Books |-> 0]
    /\ blocked = FALSE
    /\ takedown = NoTakedown
    /\ takedowns = 0
    /\ spared = Uploads

-----------------------------------------------------------------------------
(* An upload.  Variants with a plausible bug are named <definition>_<bug>.  *)

\* volumeRefusal: the counters before the work, refused when they are full.
VolumeLeft(b) == counted[b] < ShelfDay /\ Global < GlobalDay

Prechecks(u) ==
    /\ uploads[u].st = "new"
    /\ \E b \in Books, reported \in BOOLEAN :
        uploads' = [uploads EXCEPT ![u] = [st |-> IF VolumeLeft(b) THEN "parsed" ELSE "refused",
                                           book |-> b, reported |-> reported]]
    /\ UNCHANGED <<held, counted, blocked, takedown, takedowns, spared>>

Refused(u) == uploads[u].reported /\ blocked

LooksAtBlock(u) ==
    /\ uploads[u].st = "parsed"
    /\ uploads' = [uploads EXCEPT ![u].st = IF Refused(u) THEN "refused" ELSE "open"]
    /\ takedown' = IF takedown.st = "listed" /\ uploads[u].reported /\ ~Refused(u)
                   THEN [takedown EXCEPT !.racing = @ \cup {u}] ELSE takedown
    /\ UNCHANGED <<held, counted, blocked, takedowns, spared>>

\* The counters are bumped, then read: this upload is among them.
WithinDay(b) == counted[b] + 1 <= ShelfDay /\ Global + 1 <= GlobalDay

\* The same text is in the library already: insertUploadedDocument finds it.
Duplicate(u) == uploads[u].reported /\ \E v \in Copies : uploads[v].book = uploads[u].book

\* The rest of the transaction, to its commit or its rollback.
Stores(u) ==
    LET b == uploads[u].book
        kept == ~Duplicate(u) /\ WithinDay(b) IN
    /\ uploads[u].st = "open"
    /\ uploads' = [uploads EXCEPT ![u].st = IF kept THEN "stored" ELSE "refused"]
    /\ held' = IF kept THEN held \cup {u} ELSE held
    /\ counted' = IF kept THEN [counted EXCEPT ![b] = @ + 1] ELSE counted
    /\ UNCHANGED <<blocked, takedown, takedowns, spared>>

\* Its owner deletes a document.
OwnerDeletes(u) ==
    /\ u \in held
    /\ held' = held \ {u}
    /\ UNCHANGED <<uploads, counted, blocked, takedown, takedowns, spared>>

-----------------------------------------------------------------------------
(* The operator.                                                           *)

\* The text of the notice is looked up; a document's id leads nowhere once the
\* document is gone.
Begins(target) ==
    /\ takedowns < MaxTakedowns
    /\ takedowns' = takedowns + 1
    /\ takedown' = [takedown EXCEPT !.st = IF target = "hash" \/ target \in Copies THEN "begun" ELSE "notFound",
                                    !.by = target]
    /\ UNCHANGED <<uploads, held, counted, blocked, spared>>

\* A notice names a copy or its hash.
OperatorTakesDown ==
    /\ takedown.st = "none"
    /\ Copies # {}
    /\ \E target \in Copies \cup {"hash"} : Begins(target)

\* The same form, sent again: after a failure, or to be sure.
OperatorRetries ==
    /\ takedown.st \in {"failed", "done"}
    /\ Begins(takedown.by)

\* The block is inserted, which nobody sees yet, and the copies are listed.
ListsCopies ==
    /\ takedown.st = "begun"
    /\ takedown' = [takedown EXCEPT !.st = "listed", !.todo = Copies, !.racing = UnderWay]
    /\ UNCHANGED <<uploads, held, counted, blocked, takedowns, spared>>

\* After the audit row: whoever looks from now on finds the block.
CommitsBlock ==
    /\ takedown.st = "listed"
    /\ blocked' = TRUE
    /\ takedown' = [takedown EXCEPT !.st = "deleting"]
    /\ UNCHANGED <<uploads, held, counted, takedowns, spared>>

FirstBook == CHOOSE b \in {uploads[u].book : u \in takedown.todo} :
                \A u \in takedown.todo : b <= uploads[u].book

DeletedTogether_firstOnly == takedown.todo

\* The copies of one library go in one transaction.
DeletedTogether == {u \in takedown.todo : uploads[u].book = FirstBook}

DeletesLibrary ==
    /\ takedown.st = "deleting" /\ takedown.todo # {}
    /\ held' = held \ {u \in DeletedTogether : uploads[u].book = FirstBook}
    /\ takedown' = [takedown EXCEPT !.todo = @ \ DeletedTogether]
    /\ UNCHANGED <<uploads, counted, blocked, takedowns, spared>>

Reports ==
    /\ takedown.st = "deleting" /\ takedown.todo = {}
    /\ takedown' = [takedown EXCEPT !.st = "done"]
    /\ spared' = spared \cap takedown.racing
    /\ UNCHANGED <<uploads, held, counted, blocked, takedowns>>

\* A transaction fails, the first one with its block, or the instance dies.
TakedownFails ==
    /\ takedown.st \in {"begun", "listed", "deleting"}
    /\ takedown' = [takedown EXCEPT !.st = "failed"]
    /\ UNCHANGED <<uploads, held, counted, blocked, takedowns, spared>>

TakedownNext ==
    \/ \E u \in Uploads : Prechecks(u) \/ LooksAtBlock(u) \/ Stores(u) \/ OwnerDeletes(u)
    \/ OperatorTakesDown \/ OperatorRetries \/ ListsCopies \/ CommitsBlock \/ DeletesLibrary \/ Reports \/ TakedownFails

TakedownSpec == TakedownInit /\ [][TakedownNext]_takedownVars

-----------------------------------------------------------------------------
(* Properties.                                                             *)

\* Once a call has ended, the only copies of the text there are, then or ever
\* after, are of uploads that were under way while it blocked and listed: that
\* looked at the block before its commit and had not committed when the copies
\* were listed.  Where there was none the text is gone for good, and a further
\* call that ends removes what such uploads left.
GoneForGood == Copies \subseteq spared

\* "block the hash ... and delete every copy of it in every library"
\* (src/files/operator.ts:194-195; docs/development.md:693 says the same): a
\* call that ends leaves no copy.  It may leave one: of an upload that looked
\* before the commit and committed after the list.
TakedownIsComplete == takedown.st = "done" => Copies = {}

=============================================================================
