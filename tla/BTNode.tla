------------------------------- MODULE BTNode -------------------------------
(***************************************************************************)
(* The nodes of the B+ tree (BTreeNode.h, BTreeNode.cc): a leaf holds      *)
(* (key, rid) entries and the page of the next leaf, a non-leaf holds a    *)
(* first child and (key, child) entries.  A node is a value, and an        *)
(* operation of the classes is an operator from nodes to nodes.            *)
(***************************************************************************)
EXTENDS Integers, Sequences, FiniteSets, FiniteSetsExt

CONSTANTS
  LeafMax,    \* entries of a leaf: BTLeafNode::maxKeyCount, 84 for a page of 1024
  NonLeafMax  \* entries of a non-leaf: BTNonLeafNode::maxKeyCount, 126

\* insertAndSplit halves a node of even capacity; of an odd one it would lose
\* the entry in the middle.
ASSUME LeafMaxAssumption    == LeafMax \in Nat \ {0} /\ LeafMax % 2 = 0
ASSUME NonLeafMaxAssumption == NonLeafMax \in Nat /\ NonLeafMax >= 4 /\ NonLeafMax % 2 = 0

EmptyLeaf == [kind |-> "leaf", ents |-> <<>>, next |-> 0]

\* The children of a new root change places.
MutInitializeRoot(pid1, key, pid2) ==
  [kind |-> "nonleaf", first |-> pid2, ents |-> <<[key |-> key, pid |-> pid1]>>]
InitializeRoot(pid1, key, pid2) ==
  [kind |-> "nonleaf", first |-> pid1, ents |-> <<[key |-> key, pid |-> pid2]>>]

-----------------------------------------------------------------------------
(* Entries.  Both classes search from the left and insert at the place     *)
(* where the search stops, so before any entry with an equal key.          *)

\* The search stops at a smaller key.
MutLocate(ents, key) ==
  Min({i \in 1..Len(ents) : ents[i].key <= key} \cup {Len(ents) + 1})

\* The first entry whose key is not smaller, one past the end if there is none.
Locate(ents, key) ==
  Min({i \in 1..Len(ents) : ents[i].key >= key} \cup {Len(ents) + 1})

Holds(ents, key) == \E i \in 1..Len(ents) : ents[i].key = key

Insert(ents, e) ==
  LET at == Locate(ents, e.key) IN
  [i \in 1..(Len(ents) + 1) |->
     IF i < at THEN ents[i] ELSE IF i = at THEN e ELSE ents[i - 1]]

\* The earlier of two equal keys first.
MutBefore(ents, i, j) ==
  ents[i].key < ents[j].key \/ (ents[i].key = ents[j].key /\ i < j)

\* What a split leaves in the empty sibling into which it inserts the entries
\* one after the other: ordered by key, the later of two equal keys first.
Before(ents, i, j) ==
  ents[i].key < ents[j].key \/ (ents[i].key = ents[j].key /\ i > j)
Rank(ents, j) == Cardinality({i \in 1..Len(ents) : Before(ents, i, j)}) + 1
Reinserted(ents) ==
  [r \in 1..Len(ents) |-> ents[CHOOSE j \in 1..Len(ents) : Rank(ents, j) = r]]

\* Where the upper half starts, counted from 0 as the code does.
MutSplitPos(count) == count \div 2 + 1
SplitPos(count) == (count + 1) \div 2

-----------------------------------------------------------------------------
(* BTLeafNode.                                                             *)

LeafFull(n) == Len(n.ents) >= LeafMax

LeafInsert(n, e) == [n EXCEPT !.ents = Insert(@, e)]

\* The key count is not lowered: what moved stays in its first leaf as well.
MutLeafSplit(n, e) ==
  LET pos   == SplitPos(Len(n.ents))
      eid   == Locate(n.ents, e.key) - 1
      moved == Reinserted(SubSeq(n.ents, pos + 1, Len(n.ents)))
  IN  [left  |-> [n EXCEPT !.ents = IF eid < pos THEN Insert(@, e) ELSE @],
       right |-> [EmptyLeaf EXCEPT !.ents = IF eid < pos THEN moved ELSE Insert(moved, e)],
       key   |-> IF eid = pos THEN e.key ELSE n.ents[pos + 1].key]

\* The new key is reported also when it went to the lower half.
MutLeafSplitKey(n, e) ==
  LET count == Len(n.ents)
      pos   == SplitPos(count)
      eid   == Locate(n.ents, e.key) - 1
      kept  == SubSeq(n.ents, 1, count \div 2)
      moved == Reinserted(SubSeq(n.ents, pos + 1, count))
  IN  [left  |-> [n EXCEPT !.ents = IF eid < pos THEN Insert(kept, e) ELSE kept],
       right |-> [EmptyLeaf EXCEPT !.ents = IF eid < pos THEN moved ELSE Insert(moved, e)],
       key   |-> IF eid <= pos THEN e.key ELSE n.ents[pos + 1].key]

\* The upper half moves to the sibling, the new entry goes to its half, and the
\* sibling's first key is reported.  The next pointers are the caller's business.
LeafSplit(n, e) ==
  LET count == Len(n.ents)
      pos   == SplitPos(count)
      eid   == Locate(n.ents, e.key) - 1
      kept  == SubSeq(n.ents, 1, count \div 2)
      moved == Reinserted(SubSeq(n.ents, pos + 1, count))
  IN  [left  |-> [n EXCEPT !.ents = IF eid < pos THEN Insert(kept, e) ELSE kept],
       right |-> [EmptyLeaf EXCEPT !.ents = IF eid < pos THEN moved ELSE Insert(moved, e)],
       key   |-> IF eid = pos THEN e.key ELSE n.ents[pos + 1].key]

-----------------------------------------------------------------------------
(* BTNonLeafNode.                                                          *)

NonLeafFull(n) == Len(n.ents) >= NonLeafMax

\* A full node answers RC_NODE_FULL and stays as it is.
NonLeafInsert(n, e) == IF NonLeafFull(n) THEN n ELSE [n EXCEPT !.ents = Insert(@, e)]

\* The key before the middle one is reported.
MutNonLeafSplit(n, e) ==
  LET pos   == SplitPos(Len(n.ents))
      ents  == NonLeafInsert(n, e).ents
      count == Len(ents)
  IN  [left  |-> [n EXCEPT !.ents = SubSeq(ents, 1, count \div 2)],
       right |-> [kind  |-> "nonleaf",
                  first |-> ents[pos + 1].pid,
                  ents  |-> Reinserted(SubSeq(ents, pos + 2, count))],
       key   |-> ents[pos].key]

\* The middle entry's key goes up, its child is the sibling's first.  The entry
\* is inserted before the split, by the insert that refuses a full node.
NonLeafSplit(n, e) ==
  LET pos   == SplitPos(Len(n.ents))
      ents  == NonLeafInsert(n, e).ents
      count == Len(ents)
  IN  [left  |-> [n EXCEPT !.ents = SubSeq(ents, 1, count \div 2)],
       right |-> [kind  |-> "nonleaf",
                  first |-> ents[pos + 1].pid,
                  ents  |-> Reinserted(SubSeq(ents, pos + 2, count))],
       key   |-> ents[pos + 1].key]

\* A key equal to a separator goes left.
MutChildPtr(n, key) ==
  LET larger == Min({i \in 1..Len(n.ents) : key <= n.ents[i].key} \cup {Len(n.ents) + 1})
  IN  IF larger = 1 THEN n.first ELSE n.ents[larger - 1].pid

\* The child to follow: the one before the first larger key.
ChildPtr(n, key) ==
  LET larger == Min({i \in 1..Len(n.ents) : key < n.ents[i].key} \cup {Len(n.ents) + 1})
  IN  IF larger = 1 THEN n.first ELSE n.ents[larger - 1].pid

=============================================================================
