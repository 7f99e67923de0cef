---------------------------- MODULE MCBTNodeProofs ----------------------------
(***************************************************************************)
(* The nodes that inserts and splits grow are what BTreeNode.h says of     *)
(* them, for every set of keys, of record ids and every even capacity: a   *)
(* leaf is in order of its keys, which may be equal, a non-leaf in order   *)
(* of distinct keys, and neither holds more than its capacity.             *)
(***************************************************************************)
EXTENDS MCBTNode, BTNodeProofs

NodeInv ==
  /\ n.kind \in {"leaf", "nonleaf"}
  /\ n.kind = "leaf" => /\ n \in LeafNode(LeafEntry, {0})
                        /\ Len(n.ents) <= LeafMax /\ Ascending(n.ents)
  /\ n.kind = "nonleaf" => /\ n \in NonLeafNode(Key, Int)
                           /\ Len(n.ents) <= NonLeafMax /\ Distinct(n.ents)

\* What the last operation did.
DidInv == LeafSplitHalves /\ InsertKeepsOrder /\ InsertRoutes /\ SplitRoutes

Inv == NodeInv /\ DidInv

LEMMA EntriesKeyed ==
  /\ Keyed(LeafEntry)
  /\ NonLeafEntry \subseteq Separator(Key, Int) /\ Keyed(Separator(Key, Int))
<1>1. \A k \in Key : k \in Int
  BY KeyAssumption
<1> QED BY <1>1 DEF Keyed, LeafEntry, NonLeafEntry, Separator

\* The model's names for what the lemmas on nodes speak of.
LEMMA SameNames ==
  ASSUME NEW ents
  PROVE  /\ Entries(ents) = Members(ents)
         /\ Sorted(ents) <=> Ascending(ents)
         /\ Keys(ents) = {x.key : x \in Members(ents)}
BY DEF Entries, Members, Sorted, Ascending, Keys

LEMMA InitHolds == Init => Inv
<1> SUFFICES ASSUME Init PROVE Inv
  OBVIOUS
<1>1. DidInv
  BY DEF Init, Nothing, DidInv, LeafSplitHalves, InsertKeepsOrder, InsertRoutes, SplitRoutes
<1>2. CASE n = EmptyLeaf
  <2>1. n \in LeafNode(LeafEntry, {0}) /\ Len(n.ents) = 0 /\ n.kind = "leaf"
    BY <1>2 DEF EmptyLeaf, LeafNode
  <2>2. Ascending(n.ents)
    BY <2>1 DEF Ascending
  <2> QED BY <1>1, <2>1, <2>2, LeafMaxAssumption DEF Inv, NodeInv
<1>3. ASSUME NEW e \in NonLeafEntry, n = InitializeRoot(10, e.key, e.pid)
      PROVE  Inv
  <2>1. e.key \in Key /\ e.pid \in Int
    BY <1>3, EntriesKeyed DEF Separator
  <2>2. n.kind = "nonleaf" /\ n.first = 10 /\ n.ents = <<[key |-> e.key, pid |-> e.pid]>>
        /\ n = [kind |-> "nonleaf", first |-> 10, ents |-> <<[key |-> e.key, pid |-> e.pid]>>]
    BY <1>3 DEF InitializeRoot
  <2>3. n.ents \in Seq(Separator(Key, Int)) /\ Len(n.ents) = 1
    BY <2>1, <2>2 DEF Separator
  <2>4. n \in NonLeafNode(Key, Int)
    BY <2>2, <2>3 DEF NonLeafNode
  <2>5. Distinct(n.ents)
    BY <2>3 DEF Distinct
  <2> QED BY <1>1, <2>2, <2>3, <2>4, <2>5, NonLeafMaxAssumption DEF Inv, NodeInv
<1> QED BY <1>2, <1>3 DEF Init

LEMMA GrowKeeps ==
  ASSUME Inv, NEW e \in LeafEntry, Grow(e)
  PROVE  Inv'
<1>1. /\ n \in LeafNode(LeafEntry, {0}) /\ Len(n.ents) < LeafMax /\ Ascending(n.ents)
      /\ n' = [n EXCEPT !.ents = Insert(n.ents, e)]
      /\ n.ents \in Seq(LeafEntry) /\ Len(n.ents) \in Nat
  BY LeafMaxAssumption DEF Inv, NodeInv, Grow, LeafFull, LeafInsert, LeafNode
<1>2. n'.kind = "leaf" /\ n'.ents = Insert(n.ents, e) /\ n' \in LeafNode(LeafEntry, {0})
  <2>1. LeafInsert(n, e) \in LeafNode(LeafEntry, {0})
    BY <1>1, EntriesKeyed, LeafInsertType
  <2> QED BY <1>1, <2>1 DEF LeafInsert, LeafNode
<1>3. /\ Len(n'.ents) = Len(n.ents) + 1 /\ Ascending(n'.ents)
      /\ Members(n'.ents) = Members(n.ents) \cup {e}
  <2>1. Len(n'.ents) = Len(n.ents) + 1
    BY <1>1, <1>2, EntriesKeyed, InsertType, SMTT(30)
  <2>2. Ascending(n'.ents)
    BY <1>1, <1>2, EntriesKeyed, InsertAscending
  <2>3. Members(n'.ents) = Members(n.ents) \cup {e}
    BY <1>1, <1>2, EntriesKeyed, InsertMembers
  <2> QED BY <2>1, <2>2, <2>3
<1>4. NodeInv'
  BY <1>1, <1>2, <1>3, LeafMaxAssumption DEF NodeInv
<1>5. n'.ents[Locate(n'.ents, e.key)] = e
  BY <1>1, <1>2, EntriesKeyed, InsertedIsLocated, InsertPlaces
<1>6. did' = [op |-> "insert", on |-> n, arg |-> e, res |-> n']
  BY DEF Grow, Did
<1>7. InsertKeepsOrder'
  <2>1. Sorted(n'.ents) /\ Entries(n'.ents) = Entries(n.ents) \cup {e}
    BY <1>3, SameNames
  <2> QED BY <1>5, <1>6, <2>1 DEF InsertKeepsOrder
<1>8. LeafSplitHalves' /\ InsertRoutes' /\ SplitRoutes'
  BY <1>6 DEF LeafSplitHalves, InsertRoutes, SplitRoutes
<1> QED BY <1>4, <1>7, <1>8 DEF Inv, DidInv

LEMMA HalveKeeps ==
  ASSUME Inv, NEW e \in LeafEntry, Halve(e)
  PROVE  Inv'
<1> DEFINE s == LeafSplit(n, e)
           left == s.left.ents
           right == s.right.ents
<1>1. /\ n \in LeafNode(LeafEntry, {0}) /\ Len(n.ents) = LeafMax /\ Ascending(n.ents)
      /\ LeafFull(n)
      /\ n' \in {s.left, s.right} /\ did' = [op |-> "leafSplit", on |-> n, arg |-> e, res |-> s]
  BY LeafMaxAssumption DEF Inv, NodeInv, Halve, LeafFull, LeafNode, Did
<1>2. s.left \in LeafNode(LeafEntry, {0}) /\ s.right \in LeafNode(LeafEntry, {0})
  <2>1. \A x \in LeafEntry : x.key \in Key
    BY DEF LeafEntry
  <2> QED BY <1>1, <2>1, EntriesKeyed, LeafSplitType
<1>3. /\ Members(left) \cup Members(right) = Members(n.ents) \cup {e}
      /\ Len(left) + Len(right) = LeafMax + 1
      /\ Len(left) - Len(right) \in {-1, 1}
      /\ Len(left) <= LeafMax /\ Len(right) <= LeafMax
  <2>1. Halved(n.ents, e, left, right)
    BY <1>1, EntriesKeyed, LeafSplitMembers
  <2> QED BY <2>1 DEF Halved
<1>4. /\ Ascending(left) /\ Ascending(right)
      /\ \A l \in Members(left) : l.key <= s.key
      /\ \A r \in Members(right) : s.key <= r.key
      /\ s.key = right[1].key
  BY <1>1, EntriesKeyed, LeafSplitOrder
<1> HIDE DEF s
<1>5. NodeInv'
  BY <1>1, <1>2, <1>3, <1>4 DEF NodeInv, LeafNode
<1>6. LeafSplitHalves'
  <2>1. Entries(left) \cup Entries(right) = Entries(n.ents) \cup {e}
    BY <1>3, SameNames
  <2>2. Sorted(left) /\ Sorted(right)
    BY <1>4, SameNames
  <2>3. \A l \in Keys(left), r \in Keys(right) : l <= s.key /\ s.key <= r
    BY <1>4, SameNames
  <2> QED BY <1>1, <1>3, <1>4, <2>1, <2>2, <2>3 DEF LeafSplitHalves
<1>7. InsertKeepsOrder' /\ InsertRoutes' /\ SplitRoutes'
  BY <1>1 DEF InsertKeepsOrder, InsertRoutes, SplitRoutes
<1> QED BY <1>5, <1>6, <1>7 DEF Inv, DidInv

LEMMA GrowNonLeafKeeps ==
  ASSUME Inv, NEW e \in NonLeafEntry, e.key \notin Keys(n.ents), GrowNonLeaf(e)
  PROVE  Inv'
<1>1. /\ n \in NonLeafNode(Key, Int) /\ Len(n.ents) < NonLeafMax /\ Distinct(n.ents)
      /\ ~NonLeafFull(n) /\ n' = NonLeafInsert(n, e)
      /\ did' = [op |-> "nonLeafInsert", on |-> n, arg |-> e, res |-> n']
  <2>1. n \in NonLeafNode(Key, Int) /\ ~NonLeafFull(n) /\ Distinct(n.ents)
    BY DEF Inv, NodeInv, GrowNonLeaf
  <2>2. Len(n.ents) \in Nat
    BY <2>1 DEF NonLeafNode
  <2> QED BY <2>1, <2>2, NonLeafMaxAssumption DEF GrowNonLeaf, Did, NonLeafFull
<1>2. e \in Separator(Key, Int) /\ Key \in SUBSET Int
  BY EntriesKeyed, KeyAssumption
<1>3. n' \in NonLeafNode(Key, Int) /\ n'.ents = Insert(n.ents, e) /\ n'.kind = "nonleaf"
  <2>1. NonLeafInsert(n, e) \in NonLeafNode(Key, Int)
    BY <1>1, <1>2, NonLeafInsertType
  <2> QED BY <1>1, <2>1 DEF NonLeafInsert, NonLeafNode
<1>4. n.ents \in Seq(Separator(Key, Int))
  BY <1>1 DEF NonLeafNode
<1>5. Distinct(n'.ents) /\ Len(n'.ents) = Len(n.ents) + 1
  <2>1. \A x \in Members(n.ents) : x.key # e.key
    BY SameNames
  <2> QED BY <1>1, <1>2, <1>3, <1>4, <2>1, EntriesKeyed, InsertDistinct, InsertType
<1>6. Len(n'.ents) <= NonLeafMax
  BY <1>1, <1>4, <1>5, NonLeafMaxAssumption
<1>7. NodeInv'
  BY <1>3, <1>5, <1>6 DEF NodeInv
<1>8. Ascending(n.ents)
  <2>1. \A i \in 1..Len(n.ents) : n.ents[i].key \in Int
    BY <1>4, EntriesKeyed, ElementOfSeq DEF Keyed
  <2> QED BY <1>1, <2>1 DEF Ascending, Distinct
<1>9. \A k \in Key :
        ChildPtr(n', k) =
          IF e.key <= k /\ ~\E x \in Keys(n.ents) : e.key <= x /\ x <= k
          THEN e.pid ELSE ChildPtr(n, k)
  BY <1>1, <1>2, <1>8, NonLeafInsertRoutes, SameNames
<1>10. InsertRoutes'
  BY <1>1, <1>9 DEF InsertRoutes
<1>11. Sorted(n'.ents)
  <2>1. Ascending(n'.ents)
    BY <1>2, <1>3, <1>4, <1>8, EntriesKeyed, InsertAscending
  <2> QED BY <2>1, SameNames
<1>12. Entries(n'.ents) = Entries(n.ents) \cup {e}
  <2>1. Members(n'.ents) = Members(n.ents) \cup {e}
    BY <1>2, <1>3, <1>4, EntriesKeyed, InsertMembers
  <2> QED BY <2>1, SameNames
<1>13. n'.ents[Locate(n'.ents, e.key)] = e
  BY <1>2, <1>3, <1>4, <1>8, EntriesKeyed, InsertedIsLocated, InsertPlaces
<1>14. InsertKeepsOrder'
  BY <1>1, <1>11, <1>12, <1>13 DEF InsertKeepsOrder
<1>15. LeafSplitHalves' /\ SplitRoutes'
  BY <1>1 DEF LeafSplitHalves, SplitRoutes
<1> QED BY <1>7, <1>10, <1>14, <1>15 DEF Inv, DidInv

LEMMA HalveNonLeafKeeps ==
  ASSUME Inv, NEW e \in NonLeafEntry, HalveNonLeaf(e)
  PROVE  Inv'
<1> DEFINE s == NonLeafSplit(n, e)
<1>1. /\ n \in NonLeafNode(Key, Int) /\ Len(n.ents) = NonLeafMax /\ Distinct(n.ents)
      /\ NonLeafFull(n) /\ n' \in {s.left, s.right}
      /\ did' = [op |-> "nonLeafSplit", on |-> n, arg |-> e, res |-> s]
  <2>1. n \in NonLeafNode(Key, Int) /\ NonLeafFull(n) /\ Distinct(n.ents) /\ Len(n.ents) <= NonLeafMax
    BY DEF Inv, NodeInv, HalveNonLeaf
  <2>2. Len(n.ents) \in Nat
    BY <2>1 DEF NonLeafNode
  <2> QED BY <2>1, <2>2, NonLeafMaxAssumption DEF HalveNonLeaf, Did, NonLeafFull
<1>2. e \in Separator(Key, Int) /\ Key \in SUBSET Int
  BY EntriesKeyed, KeyAssumption
<1>3. s.left \in NonLeafNode(Key, Int) /\ s.right \in NonLeafNode(Key, Int)
  BY <1>1, <1>2, NonLeafSplitType
<1>4. /\ Half(n) \in Nat /\ Half(n) >= 2 /\ Len(n.ents) = 2 * Half(n)
      /\ Len(s.left.ents) = Half(n) /\ Len(s.right.ents) = Half(n) - 1
      /\ \A i \in 1..Half(n) : s.left.ents[i] = n.ents[i]
      /\ \A i \in 1..(Half(n) - 1) : s.right.ents[i] = n.ents[Half(n) + 1 + i]
  BY <1>1, <1>2, NonLeafSplitParts
<1>5. \A k \in Key : ChildPtr(n, k) = IF k < s.key THEN ChildPtr(s.left, k) ELSE ChildPtr(s.right, k)
  <2> HIDE DEF s
  <2>1. PICK t : t = NonLeafSplit(n, e)
    OBVIOUS
  <2>2. ASSUME NEW k \in Key
        PROVE  ChildPtr(n, k) = IF k < t.key THEN ChildPtr(t.left, k) ELSE ChildPtr(t.right, k)
    <3>1. k \in Int
      BY <1>2
    <3> QED BY <1>1, <1>2, <2>1, <3>1, NonLeafSplitRoutes
  <2>3. s = t
    BY <2>1 DEF s
  <2> QED BY <2>2, <2>3
<1> HIDE DEF s
<1>6. Distinct(s.left.ents)
  <2> SUFFICES ASSUME NEW i \in 1..Half(n), NEW j \in 1..Half(n), i < j
               PROVE  s.left.ents[i].key < s.left.ents[j].key
    BY <1>4 DEF Distinct
  <2>1. i \in 1..Len(n.ents) /\ j \in 1..Len(n.ents)
    BY <1>4
  <2> QED BY <1>1, <1>4, <2>1 DEF Distinct
<1>7. Distinct(s.right.ents)
  <2> SUFFICES ASSUME NEW i \in 1..(Half(n) - 1), NEW j \in 1..(Half(n) - 1), i < j
               PROVE  s.right.ents[i].key < s.right.ents[j].key
    BY <1>4 DEF Distinct
  <2>1. /\ Half(n) + 1 + i \in 1..Len(n.ents) /\ Half(n) + 1 + j \in 1..Len(n.ents)
        /\ Half(n) + 1 + i < Half(n) + 1 + j
    BY <1>4
  <2> QED BY <1>1, <1>4, <2>1 DEF Distinct
<1>8. Len(s.left.ents) <= NonLeafMax /\ Len(s.right.ents) <= NonLeafMax
  BY <1>1, <1>4
<1>9. NodeInv'
  BY <1>1, <1>3, <1>6, <1>7, <1>8 DEF NodeInv, NonLeafNode
<1>10. SplitRoutes'
  BY <1>1, <1>5 DEF SplitRoutes
<1>11. LeafSplitHalves' /\ InsertKeepsOrder' /\ InsertRoutes'
  BY <1>1 DEF LeafSplitHalves, InsertKeepsOrder, InsertRoutes
<1> QED BY <1>9, <1>10, <1>11 DEF Inv, DidInv

LEMMA NextKeeps == Inv /\ [Next]_<<n, did>> => Inv'
<1> SUFFICES ASSUME Inv, [Next]_<<n, did>> PROVE Inv'
  OBVIOUS
<1>1. ASSUME NEW e \in LeafEntry, Grow(e) \/ Halve(e) PROVE Inv'
  BY <1>1, GrowKeeps, HalveKeeps
<1>2. ASSUME NEW e \in NonLeafEntry, e.key \notin Keys(n.ents), GrowNonLeaf(e) \/ HalveNonLeaf(e)
      PROVE  Inv'
  BY <1>2, GrowNonLeafKeeps, HalveNonLeafKeeps
<1>3. CASE UNCHANGED <<n, did>>
  BY <1>3 DEF Inv, NodeInv, DidInv, LeafSplitHalves, InsertKeepsOrder, InsertRoutes, SplitRoutes
<1> QED BY <1>1, <1>2, <1>3 DEF Next

LEMMA Inductive == Spec => []Inv
BY InitHolds, NextKeeps, PTL DEF Spec

-----------------------------------------------------------------------------
\* A split of a leaf loses no entry, makes none up, and leaves every key on its
\* side of the separator that goes up (insertAndSplit, BTreeNode.cc).
THEOREM LeafSplitsHalve == Spec => []LeafSplitHalves
<1>1. Inv => LeafSplitHalves
  BY DEF Inv, DidInv
<1> QED BY <1>1, Inductive, PTL

\* An insert keeps a leaf in order of its keys, and a non-leaf too, adds the one
\* entry, and places it before all others with its key.
THEOREM InsertsKeepOrder == Spec => []InsertKeepsOrder
<1>1. Inv => InsertKeepsOrder
  BY DEF Inv, DidInv
<1> QED BY <1>1, Inductive, PTL

\* A new separator takes over the keys from its own to the next, and no others.
THEOREM InsertsRoute == Spec => []InsertRoutes
<1>1. Inv => InsertRoutes
  BY DEF Inv, DidInv
<1> QED BY <1>1, Inductive, PTL

\* A split of a non-leaf sends every key to the child it had before.
THEOREM SplitsRoute == Spec => []SplitRoutes
<1>1. Inv => SplitRoutes
  BY DEF Inv, DidInv
<1> QED BY <1>1, Inductive, PTL

-----------------------------------------------------------------------------
\* After i turns of its loop a split has what Reinserted makes of the first i
\* entries: such a function there is, so OneByOne is one, and two that take the
\* same turns cannot part.
LEMMA OneByOneIs ==
  ASSUME NEW T, Keyed(T), NEW ents \in Seq(T)
  PROVE  OneByOne(ents)[Len(ents)] = Reinserted(ents)
<1> DEFINE m    == Len(ents)
           R(i) == Reinserted(SubSeq(ents, 1, i))
           f    == OneByOne(ents)
           Bad  == {i \in 0..m : f[i] # R(i)}
<1>1. m \in Nat /\ \A i \in 1..m : ents[i] \in T
  BY ElementOfSeq
<1>2. R(0) = <<>>
  <2>1. SubSeq(ents, 1, 0) = <<>>
    OBVIOUS
  <2>2. Reinserted(<<>>) = <<>>
    BY DEF Reinserted
  <2> QED BY <2>1, <2>2
<1>3. R(m) = Reinserted(ents)
  <2>1. SubSeq(ents, 1, m) = ents
    OBVIOUS
  <2> QED BY <2>1
<1>4. ASSUME NEW i \in 1..m PROVE R(i) = Insert(R(i - 1), ents[i])
  <2> DEFINE s == SubSeq(ents, 1, i - 1)
  <2>1. s \in Seq(T) /\ SubSeq(ents, 1, i) = Append(s, ents[i])
    BY <1>1
  <2>2. ents[i] \in T
    BY <1>1
  <2> HIDE DEF s
  <2>3. Reinserted(Append(s, ents[i])) = Insert(Reinserted(s), ents[i])
    BY <2>1, <2>2, ReinsertedAppend
  <2> QED BY <2>1, <2>3 DEF s
<1> HIDE DEF R
<1>5. f = [i \in 0..m |-> IF i = 0 THEN <<>> ELSE Insert(f[i - 1], ents[i])]
  <2> DEFINE g == [i \in 0..m |-> R(i)]
  <2>1. \A i \in 0..m : g[i] = IF i = 0 THEN <<>> ELSE Insert(g[i - 1], ents[i])
    <3> SUFFICES ASSUME NEW i \in 0..m
                 PROVE  g[i] = IF i = 0 THEN <<>> ELSE Insert(g[i - 1], ents[i])
      OBVIOUS
    <3>1. CASE i = 0
      BY <1>2, <3>1
    <3>2. CASE i \in 1..m
      <4>1. i - 1 \in 0..m /\ i # 0
        BY <1>1, <3>2
      <4>2. g[i] = R(i) /\ g[i - 1] = R(i - 1)
        BY <4>1
      <4> QED BY <1>4, <3>2, <4>1, <4>2
    <3> QED BY <1>1, <3>1, <3>2
  <2>2. g = [i \in 0..m |-> g[i]]
    OBVIOUS
  <2> HIDE DEF g
  <2>3. g = [i \in 0..m |-> IF i = 0 THEN <<>> ELSE Insert(g[i - 1], ents[i])]
    BY <2>1, <2>2
  <2> QED BY <2>3 DEF OneByOne
<1> HIDE DEF f
<1>6. Bad = {}
  <2> SUFFICES ASSUME Bad # {} PROVE FALSE
    OBVIOUS
  <2>1. PICK i \in Bad : \A k \in Bad : i <= k
    <3>1. Bad \subseteq Nat
      BY <1>1
    <3> QED BY <3>1, MinExists
  <2>2. i \in 0..m /\ f[i] # R(i)
    BY <2>1
  <2>3. i # 0
    BY <1>1, <1>2, <1>5, <2>2
  <2>4. i \in 1..m /\ i - 1 \in 0..m /\ i - 1 < i
    BY <1>1, <2>2, <2>3
  <2>5. f[i - 1] = R(i - 1)
    BY <1>1, <2>1, <2>4
  <2>6. f[i] = Insert(f[i - 1], ents[i])
    BY <1>5, <2>3, <2>2
  <2> QED BY <1>4, <2>2, <2>4, <2>5, <2>6
<1>7. f[m] = R(m)
  BY <1>1, <1>6
<1> QED BY <1>3, <1>7 DEF f

\* The sibling's order that the model of a split gives at once is the one that
\* the split's loop of inserts gives (BTreeNode.cc:157-159, :407-409).
THEOREM ReinsertsOneByOne == Spec => []ReinsertedIsInserted
<1>1. ASSUME Inv PROVE ReinsertedIsInserted
  <2>1. CASE n.kind = "leaf"
    <3>1. n.ents \in Seq(LeafEntry)
      BY <1>1, <2>1 DEF Inv, NodeInv, LeafNode
    <3> QED BY <3>1, EntriesKeyed, OneByOneIs DEF ReinsertedIsInserted
  <2>2. CASE n.kind = "nonleaf"
    <3>1. n.ents \in Seq(Separator(Key, Int))
      BY <1>1, <2>2 DEF Inv, NodeInv, NonLeafNode
    <3> QED BY <3>1, EntriesKeyed, OneByOneIs DEF ReinsertedIsInserted
  <2> QED BY <1>1, <2>1, <2>2 DEF Inv, NodeInv
<1> QED BY <1>1, Inductive, PTL

=============================================================================
