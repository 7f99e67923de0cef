----------------------------- MODULE BTreeIndex -----------------------------
(***************************************************************************)
(* BTreeIndex (BTreeIndex.h, BTreeIndex.cc): a B+ tree in the pages of one *)
(* file.  Page 0 is the header: root, height, smallest and largest key.    *)
(* It is read by open and written by close (and by the open that creates   *)
(* the file); in between the four live in the object only.  An insert      *)
(* descends, writes the leaf or its two halves, and carries the separator  *)
(* of a split up the path it came down, one page write at a time: each     *)
(* write is a step here, for between two of them the program may end or    *)
(* the write may fail.                                                     *)
(*                                                                         *)
(* The file is a store of pages as PageStore.tla promises it (PageFile     *)
(* implements it): a read returns the page last written and does not fail. *)
(***************************************************************************)
EXTENDS BTNode

CONSTANTS
  Key,            \* keys, integers
  Rid,            \* record ids
  NoEntry,        \* not an entry: what a call that reads none returns
  IntMin, IntMax, \* numeric_limits<int>::min() and max()
  MaxCalls,       \* bound: insert calls
  MaxFaults,      \* bound: page writes that fail
  Abandons        \* TRUE: a writer may end without close

ASSUME KeyAssumption == Key \subseteq IntMin..IntMax /\ IntMin \in Int /\ IntMax \in Int
ASSUME BoundAssumption == MaxCalls \in Nat /\ MaxFaults \in Nat
ASSUME AbandonsAssumption == Abandons \in BOOLEAN
ASSUME NoEntryAssumption == NoEntry \notin [key : Key, rid : Rid]

VARIABLES
  disk,   \* the pages of the index file, by pid
  size,   \* endPid of the file
  obj,    \* the object: how it is open, rootPid, treeHeight, min_key, max_key
  op,     \* the insert in progress
  cursor, \* the caller's IndexCursor
  out,    \* what the last call returned
  acked,  \* history: the entries insert has answered OK for
  saved,  \* history: those of them that a close has followed
  calls, faults

vars == <<disk, size, obj, op, cursor, out, acked, saved, calls, faults>>

Entry == [key : Key, rid : Rid]
NoCursor == [pid |-> 0, eid |-> 0]
Idle == [pc |-> "idle"]
Fresh == [mode |-> "none", root |-> -1, height |-> 0, min |-> IntMax, max |-> IntMin]

Header(o) ==
  [kind |-> "header", root |-> o.root, height |-> o.height, min |-> o.min, max |-> o.max]
Reply(call, rc) == [call |-> call, rc |-> rc, entry |-> NoEntry]

Init ==
  /\ disk = <<>> /\ size = 0
  /\ obj = Fresh
  /\ op = Idle
  /\ cursor = NoCursor
  /\ out = Reply("none", "OK")
  /\ acked = {} /\ saved = {}
  /\ calls = 0 /\ faults = 0

\* The new last page is not counted.
MutWritePage(pid, page) ==
  /\ disk' = [p \in DOMAIN disk \cup {pid} |-> IF p = pid THEN page ELSE disk[p]]
  /\ size' = IF pid > size THEN pid + 1 ELSE size
WritePage(pid, page) ==
  /\ disk' = [p \in DOMAIN disk \cup {pid} |-> IF p = pid THEN page ELSE disk[p]]
  /\ size' = IF pid >= size THEN pid + 1 ELSE size

WriteFails == faults < MaxFaults /\ faults' = faults + 1

-----------------------------------------------------------------------------
(* Sessions.  An object is opened once, used, and closed or dropped.       *)

\* A file without a page gets the header of an empty tree.  (The function ends
\* without a return there; as built, it returns what the write returned.)
OpenNew ==
  /\ obj.mode = "none" /\ size = 0
  /\ \/ /\ WritePage(0, Header(Fresh))
        /\ obj' = [Fresh EXCEPT !.mode = "w"]
        /\ out' = Reply("open", "OK")
        /\ UNCHANGED faults
     \/ /\ WriteFails
        /\ out' = Reply("open", "RC_FILE_WRITE_FAILED")
        /\ UNCHANGED <<disk, size, obj>>
  /\ UNCHANGED <<op, cursor, acked, saved, calls>>

Open(mode) ==
  /\ obj.mode = "none" /\ size > 0
  /\ obj' = [mode |-> mode, root |-> disk[0].root, height |-> disk[0].height,
             min |-> disk[0].min, max |-> disk[0].max]
  /\ out' = Reply("open", "OK")
  /\ UNCHANGED <<disk, size, op, cursor, acked, saved, calls, faults>>

\* close writes the header, then closes the file.
Close ==
  /\ obj.mode = "w" /\ op = Idle
  /\ WritePage(0, Header(obj))
  /\ saved' = acked
  /\ obj' = Fresh
  /\ cursor' = NoCursor
  /\ out' = Reply("close", "OK")
  /\ UNCHANGED <<op, acked, calls, faults>>

\* The header cannot be written, of a file open for reading never: the object
\* stays open.
CloseFails ==
  /\ op = Idle
  /\ \/ obj.mode = "r" /\ UNCHANGED faults
     \/ obj.mode = "w" /\ WriteFails
  /\ cursor' = NoCursor
  /\ out' = Reply("close", "RC_FILE_WRITE_FAILED")
  /\ UNCHANGED <<disk, size, obj, op, acked, saved, calls>>

\* The object goes away without a close: a select ends, SqlEngine::load returns
\* early, or the process ends, between any two writes.
Abandon ==
  /\ obj.mode = "r" \/ (obj.mode = "w" /\ Abandons)
  /\ obj' = Fresh
  /\ op' = Idle
  /\ cursor' = NoCursor
  /\ acked' = saved
  /\ out' = Reply("none", "OK")
  /\ UNCHANGED <<disk, size, saved, calls, faults>>

-----------------------------------------------------------------------------
(* insert.                                                                 *)

\* A key that lowers the minimum is not compared with the maximum.
MutWidened(o, key) ==
  IF key < o.min THEN [o EXCEPT !.min = key]
  ELSE IF key > o.max THEN [o EXCEPT !.max = key] ELSE o
Widened(o, key) == [o EXCEPT !.min = IF key < @ THEN key ELSE @,
                             !.max = IF key > @ THEN key ELSE @]

\* The call widens min_key and max_key before it has inserted anything; in an
\* empty tree it places the root before it has written it.
InsertCall(e) ==
  /\ obj.mode = "w" /\ op = Idle
  /\ calls < MaxCalls
  /\ e \notin acked
  /\ obj' = [Widened(obj, e.key) EXCEPT !.root = IF obj.height = 0 THEN size ELSE @]
  /\ op' = IF obj.height = 0 THEN [pc |-> "first", entry |-> e]
           ELSE [pc |-> "down", entry |-> e, at |-> obj.root, held |-> <<>>]
  /\ calls' = calls + 1
  /\ cursor' = NoCursor
  /\ UNCHANGED <<disk, size, out, acked, saved, faults>>

\* insertNonLeaf reads its node, keeps it, and calls itself for the child.
AtLeaf == Len(op.held) + 1 = obj.height
Descend ==
  /\ op.pc = "down" /\ ~AtLeaf
  /\ op' = [op EXCEPT !.at   = ChildPtr(disk[op.at], op.entry.key),
                      !.held = Append(@, [pid |-> op.at, node |-> disk[op.at]])]
  /\ UNCHANGED <<disk, size, obj, cursor, out, acked, saved, calls, faults>>

\* The last write of an insert is done: it returns 0.
Return ==
  /\ op' = Idle
  /\ acked' = acked \cup {op.entry}
  /\ out' = Reply("insert", "OK")

InsertFirst ==
  /\ op.pc = "first"
  /\ WritePage(obj.root, LeafInsert(EmptyLeaf, op.entry))
  /\ obj' = [obj EXCEPT !.height = 1]
  /\ Return
  /\ UNCHANGED <<cursor, saved, calls, faults>>

\* The last free entry of a leaf is neither used nor missed.
MutInsertInLeaf ==
  /\ op.pc = "down" /\ AtLeaf
  /\ Len(disk[op.at].ents) + 1 < LeafMax
  /\ WritePage(op.at, LeafInsert(disk[op.at], op.entry))
  /\ Return
  /\ UNCHANGED <<obj, cursor, saved, calls, faults>>
InsertInLeaf ==
  /\ op.pc = "down" /\ AtLeaf
  /\ ~LeafFull(disk[op.at])
  /\ WritePage(op.at, LeafInsert(disk[op.at], op.entry))
  /\ Return
  /\ UNCHANGED <<obj, cursor, saved, calls, faults>>

\* The halves of a full leaf, linked: the sibling is to go to a new page.
MutLeafHalves(leaf, e) ==         \* the sibling's next is not set
  LET s == LeafSplit(leaf, e)
  IN  [s EXCEPT !.left.next = size]
MutLeafHalvesLoop(leaf, e) ==     \* next is read after it was overwritten
  LET s == LeafSplit(leaf, e)
  IN  [s EXCEPT !.left.next = size, !.right.next = size]
LeafHalves(leaf, e) ==
  LET s == LeafSplit(leaf, e)
  IN  [s EXCEPT !.left.next = size, !.right.next = leaf.next]

\* The split leaf goes to disk first.
MutSplitLeaf ==
  /\ op.pc = "down" /\ AtLeaf
  /\ LeafFull(disk[op.at])
  /\ LET s == LeafHalves(disk[op.at], op.entry) IN
       /\ WritePage(op.at, s.left)
       /\ op' = [pc |-> "left", entry |-> op.entry, held |-> op.held, at |-> size,
                 page |-> s.right, over |-> [key |-> s.key, pid |-> size]]
  /\ UNCHANGED <<obj, cursor, out, acked, saved, calls, faults>>

\* The sibling goes to disk first, then the split leaf.
SplitLeaf ==
  /\ op.pc = "down" /\ AtLeaf
  /\ LeafFull(disk[op.at])
  /\ LET s == LeafHalves(disk[op.at], op.entry) IN
       /\ WritePage(size, s.right)
       /\ op' = [pc |-> "left", entry |-> op.entry, held |-> op.held, at |-> op.at,
                 page |-> s.left, over |-> [key |-> s.key, pid |-> size]]
  /\ UNCHANGED <<obj, cursor, out, acked, saved, calls, faults>>

WriteLeft ==
  /\ op.pc = "left"
  /\ WritePage(op.at, op.page)
  /\ op' = [pc |-> "up", entry |-> op.entry, held |-> op.held, over |-> op.over]
  /\ UNCHANGED <<obj, cursor, out, acked, saved, calls, faults>>

\* The node one level up, as it was read on the way down.
Parent == op.held[Len(op.held)]

InsertInNonLeaf ==
  /\ op.pc = "up" /\ op.held # <<>>
  /\ ~NonLeafFull(Parent.node)
  /\ WritePage(Parent.pid, NonLeafInsert(Parent.node, op.over))
  /\ Return
  /\ UNCHANGED <<obj, cursor, saved, calls, faults>>

SplitNonLeaf ==
  /\ op.pc = "up" /\ op.held # <<>>
  /\ NonLeafFull(Parent.node)
  /\ LET s == NonLeafSplit(Parent.node, op.over) IN
       /\ WritePage(size, s.right)
       /\ op' = [pc |-> "left", entry |-> op.entry,
                 held |-> SubSeq(op.held, 1, Len(op.held) - 1),
                 at |-> Parent.pid, page |-> s.left,
                 over |-> [key |-> s.key, pid |-> size]]
  /\ UNCHANGED <<obj, cursor, out, acked, saved, calls, faults>>

\* The tree's height stays as it was.
MutNewRoot ==
  /\ op.pc = "up" /\ op.held = <<>>
  /\ WritePage(size, InitializeRoot(obj.root, op.over.key, op.over.pid))
  /\ obj' = [obj EXCEPT !.root = size]
  /\ Return
  /\ UNCHANGED <<cursor, saved, calls, faults>>
NewRoot ==
  /\ op.pc = "up" /\ op.held = <<>>
  /\ WritePage(size, InitializeRoot(obj.root, op.over.key, op.over.pid))
  /\ obj' = [obj EXCEPT !.root = size, !.height = @ + 1]
  /\ Return
  /\ UNCHANGED <<cursor, saved, calls, faults>>

\* The write to come fails: every level returns the error and nothing is undone.
\* SqlEngine::load returns it too, without closing the index (SqlEngine.cc:360).
InsertFails ==
  /\ op.pc \in {"first", "down", "left", "up"}
  /\ op.pc = "down" => AtLeaf
  /\ WriteFails
  /\ op' = Idle
  /\ obj' = Fresh
  /\ acked' = saved
  /\ out' = Reply("insert", "RC_FILE_WRITE_FAILED")
  /\ UNCHANGED <<disk, size, cursor, saved, calls>>

InsertStep ==
  \/ InsertFirst \/ Descend \/ InsertInLeaf \/ SplitLeaf \/ WriteLeft
  \/ InsertInNonLeaf \/ SplitNonLeaf \/ NewRoot

-----------------------------------------------------------------------------
(* locate and readForward.                                                 *)

\* Of an empty tree the root cannot be read, and the cursor stays unset.
LocateCall(k) ==
  /\ obj.mode # "none" /\ op = Idle
  /\ cursor' = NoCursor
  /\ IF obj.height = 0
     THEN out' = Reply("locate", "RC_INVALID_PID") /\ UNCHANGED op
     ELSE op' = [pc |-> "seek", key |-> k, at |-> obj.root, level |-> 1] /\ UNCHANGED out
  /\ UNCHANGED <<disk, size, obj, acked, saved, calls, faults>>

SeekDown ==
  /\ op.pc = "seek" /\ op.level # obj.height
  /\ op' = [op EXCEPT !.at = ChildPtr(disk[op.at], op.key), !.level = @ + 1]
  /\ UNCHANGED <<disk, size, obj, cursor, out, acked, saved, calls, faults>>

SeekLeaf ==
  /\ op.pc = "seek" /\ op.level = obj.height
  /\ LET ents == disk[op.at].ents IN
       /\ cursor' = [pid |-> op.at, eid |-> Locate(ents, op.key) - 1]
       /\ out' = Reply("locate", IF Holds(ents, op.key) THEN "OK" ELSE "RC_NO_SUCH_RECORD")
  /\ op' = Idle
  /\ UNCHANGED <<disk, size, obj, acked, saved, calls, faults>>

\* At the end of a leaf the cursor moves to the next.
MutAdvanced(c, leaf) ==
  IF c.eid + 1 <= Len(leaf.ents) THEN [c EXCEPT !.eid = @ + 1]
  ELSE [pid |-> leaf.next, eid |-> 0]
Advanced(c, leaf) ==
  IF c.eid + 1 < Len(leaf.ents) THEN [c EXCEPT !.eid = @ + 1]
  ELSE [pid |-> leaf.next, eid |-> 0]

\* Page 0 is no leaf: the cursor that gets there is invalid, also when an entry
\* has been read.
ReadForward ==
  /\ cursor # NoCursor /\ op = Idle
  /\ LET leaf == disk[cursor.pid]
         here == cursor.eid < Len(leaf.ents)
     IN  /\ cursor' = Advanced(cursor, leaf)
         /\ out' = [call  |-> "readForward",
                    rc    |-> IF cursor'.pid = 0 THEN "RC_INVALID_CURSOR"
                              ELSE IF here THEN "OK" ELSE "RC_NO_SUCH_RECORD",
                    entry |-> IF here THEN leaf.ents[cursor.eid + 1] ELSE NoEntry]
  /\ UNCHANGED <<disk, size, obj, op, acked, saved, calls, faults>>

-----------------------------------------------------------------------------
Next ==
  \/ OpenNew \/ Open("r") \/ Open("w") \/ Close \/ CloseFails \/ Abandon
  \/ \E e \in Entry : InsertCall(e)
  \/ InsertStep \/ InsertFails
  \/ \E k \in Key : LocateCall(k)
  \/ SeekDown \/ SeekLeaf
  \/ ReadForward

\* A program in an insert goes on: its steps wait for nothing.
Fairness == WF_vars(InsertStep)

Spec == Init /\ [][Next]_vars
FairSpec == Spec /\ Fairness

\* The behaviours in which no key is inserted twice, no insert fails, a writer
\* closes, and no full non-leaf is split: equal separators, a lost overflow entry,
\* an old header and a lost child each break the order.
Orderly ==
  /\ \A e \in Entry : InsertCall(e) => \A d \in acked : d.key # e.key
  /\ ~InsertFails
  /\ Abandon => obj.mode = "r"
  /\ ~SplitNonLeaf
OrderlySpec == Init /\ [][Next /\ Orderly]_vars

-----------------------------------------------------------------------------
(* The pages of the tree.                                                  *)

IsPage(pid) == pid \in 1..(size - 1)
Entries(ents) == {ents[i] : i \in 1..Len(ents)}

\* What a page, or a node about to be written, points to; a next of 0 is none.
Pointers(page) ==
  IF page.kind = "leaf" THEN {page.next} \ {0}
  ELSE IF page.kind = "nonleaf" THEN {page.first} \cup {x.pid : x \in Entries(page.ents)}
  ELSE IF page.height > 0 THEN {page.root} ELSE {}

\* The pages from the root to the leaf for a key.
Path(root, height, key) ==
  LET page[level \in 1..height] ==
        IF level = 1 THEN root ELSE ChildPtr(disk[page[level - 1]], key)
  IN  page

\* The leaf at the end of the first children.
Leftmost(root, height) ==
  LET page[level \in 1..height] ==
        IF level = 1 THEN root ELSE disk[page[level - 1]].first
  IN  page[height]

\* The leaves one meets from a leaf on; the chain has run out within size steps
\* unless it is a cycle.
Chain(leaf) ==
  LET pid[i \in 0..size] ==
        IF i = 0 THEN leaf ELSE IF pid[i - 1] = 0 THEN 0 ELSE disk[pid[i - 1]].next
  IN  pid
ChainEntries(leaf) ==
  UNION {Entries(disk[p].ents) : p \in {Chain(leaf)[i] : i \in 0..size} \ {0}}

\* The tree as the file has it.
OnDisk == [root |-> disk[0].root, height |-> disk[0].height]
Tree == IF obj.mode = "none" THEN OnDisk ELSE [root |-> obj.root, height |-> obj.height]

TypeOK ==
  /\ size \in Nat /\ DOMAIN disk = 0..(size - 1)
  /\ \A p \in DOMAIN disk :
       /\ (p = 0) <=> (disk[p].kind = "header")
       /\ disk[p].kind \in {"header", "leaf", "nonleaf"}
  /\ obj.mode \in {"none", "r", "w"} /\ obj.root \in -1..size /\ obj.height \in Nat
  /\ op.pc \in {"idle", "first", "down", "left", "up", "seek"}
  /\ cursor.pid \in Nat /\ cursor.eid \in Nat
  /\ acked \subseteq Entry /\ saved \subseteq Entry
  /\ calls \in 0..MaxCalls /\ faults \in 0..MaxFaults

-----------------------------------------------------------------------------
(* Safety.                                                                 *)

\* Nothing on disk or about to be written points past the pages on disk, so a
\* read along a pointer cannot fail, whichever write was the last one: each
\* split writes the new page before the node that leads to it
\* (BTreeIndex.cc:284-293, :323-329).
NoDangling ==
  /\ \A p \in DOMAIN disk : \A q \in Pointers(disk[p]) : IsPage(q)
  /\ obj.height > 0 => IsPage(obj.root)
  /\ op.pc = "left" => \A q \in Pointers(op.page) : IsPage(q)
  /\ op.pc \in {"left", "up"} => IsPage(op.over.pid)
  /\ op.pc \in {"down", "left", "seek"} => IsPage(op.at)
  /\ cursor # NoCursor => IsPage(cursor.pid)

\* The height is right: a descent reads non-leaves until it is at the leaf level,
\* and a leaf there, whichever header it started from.  A page does not say what
\* it holds: insertNonLeaf and locateHelper take it for what the level says.
DescentIsTyped ==
  /\ op.pc = "down" => disk[op.at].kind = IF AtLeaf THEN "leaf" ELSE "nonleaf"
  /\ op.pc = "seek" => disk[op.at].kind = IF op.level = obj.height THEN "leaf" ELSE "nonleaf"

\* The chain of leaves from the leftmost one ends: a scan of it terminates.
ChainEnds ==
  size > 0 => \A t \in {OnDisk, Tree} :
    t.height > 0 => Chain(Leftmost(t.root, t.height))[size] = 0

\* What was inserted before a close is found by a scan of the leaves for ever
\* after, though later writers die in the middle of a split or leave an old header.
SavedOnChain ==
  saved # {} => OnDisk.height > 0
                  /\ saved \subseteq ChainEntries(Leftmost(OnDisk.root, OnDisk.height))

\* SqlEngine::select cuts its scan off at the header's largest key and starts it
\* at the smallest: they cover every entry saved.
HeaderCovers ==
  \A e \in saved : disk[0].min <= e.key /\ e.key <= disk[0].max

\* A descent finds every entry inserted (BTreeIndex.h:66-77).
Found(t, e) ==
  /\ t.height > 0
  /\ Holds(disk[Path(t.root, t.height, e.key)[t.height]].ents, e.key)
LocateFindsStored == op = Idle /\ size > 0 => \A e \in acked : Found(Tree, e)

\* It does when the index is opened again, what close stored being in the header.
LocateFindsSaved == obj.mode = "none" /\ size > 0 => \A e \in saved : Found(OnDisk, e)

\* Splits that were cut short, old headers and lost children make locate stop too
\* early and never too late: reading on from where it leaves the cursor meets
\* every entry on the chain with a key from the one sought up, as long as no key
\* is there twice.  (With equal keys it may be too late: an entry with the key of a
\* separator may be left of it, BTreeNode.cc:437-448.)
FirstAt(leaf, key) ==
  {leaf.ents[i] : i \in Locate(leaf.ents, key)..Len(leaf.ents)}
    \cup (IF leaf.next = 0 THEN {} ELSE ChainEntries(leaf.next))
LocateIsNotLate ==
  op = Idle /\ size > 0 /\ Tree.height > 0 =>
    LET stored == ChainEntries(Leftmost(Tree.root, Tree.height)) IN
    (\A d, e \in stored : d.key = e.key => d = e) =>
      \A k \in Key :
        {e \in stored : e.key >= k}
          \subseteq FirstAt(disk[Path(Tree.root, Tree.height, k)[Tree.height]], k)

\* An insert returns, with success or an error.
InsertReturns == (op.pc \in {"first", "down", "left", "up"}) ~> (op = Idle)

-----------------------------------------------------------------------------
(* The tree behaves as the ordered set of Index.tla.                       *)
Ahead ==
  IF cursor = NoCursor THEN {}
  ELSE LET leaf == disk[cursor.pid] IN
       {leaf.ents[i] : i \in (cursor.eid + 1)..Len(leaf.ents)}
         \cup (IF leaf.next = 0 THEN {} ELSE ChainEntries(leaf.next))

\* The key of the locate that is on its way.
Asked == IF op.pc = "seek" THEN {op.key} ELSE {}

Ordered == INSTANCE Index WITH entries <- acked, sought <- Asked, ahead <- Ahead
IsIndex == Ordered!Spec

=============================================================================
