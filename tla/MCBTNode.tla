------------------------------ MODULE MCBTNode ------------------------------
(***************************************************************************)
(* The node operators against what BTreeNode.h says of them, on the nodes  *)
(* that inserts and splits grow: a leaf with entries of equal keys, and a  *)
(* non-leaf with distinct ones (they separate its children).               *)
(***************************************************************************)
EXTENDS BTNode

CONSTANTS Key, Rid

ASSUME KeyAssumption == Key \subseteq Int

VARIABLES
  n,   \* a node
  did  \* the operation that led to it: its operand, its argument, its result

LeafEntry == [key : Key, rid : Rid]
NonLeafEntry == {[key |-> k, pid |-> 10 + k] : k \in Key}
Entries(ents) == {ents[i] : i \in 1..Len(ents)}
Keys(ents) == {e.key : e \in Entries(ents)}
Sorted(ents) == \A i, j \in 1..Len(ents) : i < j => ents[i].key <= ents[j].key

Nothing == [op |-> "none"]
Did(op, arg, res) == [op |-> op, on |-> n, arg |-> arg, res |-> res]

Init ==
  /\ did = Nothing
  /\ \/ n = EmptyLeaf
     \/ \E e \in NonLeafEntry : n = InitializeRoot(10, e.key, e.pid)

Grow(e) ==
  /\ n.kind = "leaf" /\ ~LeafFull(n)
  /\ n' = LeafInsert(n, e)
  /\ did' = Did("insert", e, n')

Halve(e) ==
  /\ n.kind = "leaf" /\ LeafFull(n)
  /\ LET s == LeafSplit(n, e) IN
       did' = Did("leafSplit", e, s) /\ n' \in {s.left, s.right}

GrowNonLeaf(e) ==
  /\ n.kind = "nonleaf" /\ ~NonLeafFull(n)
  /\ n' = NonLeafInsert(n, e)
  /\ did' = Did("nonLeafInsert", e, n')

HalveNonLeaf(e) ==
  /\ n.kind = "nonleaf" /\ NonLeafFull(n)
  /\ LET s == NonLeafSplit(n, e) IN
       did' = Did("nonLeafSplit", e, s) /\ n' \in {s.left, s.right}

Next ==
  \/ \E e \in LeafEntry : e \notin Entries(n.ents) /\ (Grow(e) \/ Halve(e))
  \/ \E e \in NonLeafEntry :
       e.key \notin Keys(n.ents) /\ (GrowNonLeaf(e) \/ HalveNonLeaf(e))

Spec == Init /\ [][Next]_<<n, did>>

-----------------------------------------------------------------------------
\* "insert the (key, rid) pair to the node and split the node half and half with
\* sibling": no entry is lost or copied, no key is on the wrong side of the
\* separator, and the halves differ by one entry at most (BTreeNode.h:59-70).
LeafSplitHalves ==
  did.op = "leafSplit" =>
    LET left == did.res.left.ents  right == did.res.right.ents IN
    /\ Entries(left) \cup Entries(right) = Entries(did.on.ents) \cup {did.arg}
    /\ Len(left) + Len(right) = Len(did.on.ents) + 1
    /\ Sorted(left) /\ Sorted(right)
    /\ \A l \in Keys(left), r \in Keys(right) : l <= did.res.key /\ did.res.key <= r
    /\ did.res.key = right[1].key
    /\ Len(left) - Len(right) \in {-1, 1}

\* An insert keeps a node sorted, a leaf as well as a non-leaf, and adds the one
\* entry before all others with its key (BTreeNode.cc:99-119, :352-377).
InsertKeepsOrder ==
  did.op \in {"insert", "nonLeafInsert"} =>
    /\ Sorted(n.ents)
    /\ Entries(n.ents) = Entries(did.on.ents) \cup {did.arg}
    /\ n.ents[Locate(n.ents, did.arg.key)] = did.arg

\* A new separator takes over the keys from its own to the next, and no others.
InsertRoutes ==
  did.op = "nonLeafInsert" =>
    \A k \in Key :
      ChildPtr(n, k) =
        IF did.arg.key <= k /\ ~\E x \in Keys(did.on.ents) : did.arg.key <= x /\ x <= k
        THEN did.arg.pid ELSE ChildPtr(did.on, k)

\* Whatever it does with the new entry, a split of a non-leaf sends every key to
\* the child it had before.
SplitRoutes ==
  did.op = "nonLeafSplit" =>
    \A k \in Key :
      ChildPtr(did.on, k) = IF k < did.res.key THEN ChildPtr(did.res.left, k)
                                               ELSE ChildPtr(did.res.right, k)

\* The loop of a split: after i turns the first i entries are inserted
\* (BTreeNode.cc:157-159, :407-409).
OneByOne(ents) ==
  LET sibling[i \in 0..Len(ents)] ==
        IF i = 0 THEN <<>> ELSE Insert(sibling[i - 1], ents[i])
  IN  sibling

\* The order that Reinserted gives is the one that inserting one by one gives.
ReinsertedIsInserted == Reinserted(n.ents) = OneByOne(n.ents)[Len(n.ents)]
=============================================================================
