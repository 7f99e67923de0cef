-------------------------- MODULE BTreeOrderProofs --------------------------
(***************************************************************************)
(* The tree is the ordered set of Index.tla as long as no key is inserted  *)
(* twice, no insert fails, a writer closes and no non-leaf is split, for   *)
(* every set of keys and every capacity.                                   *)
(***************************************************************************)
EXTENDS BTreeChainProofs

-----------------------------------------------------------------------------
(* Nodes with distinct keys.                                               *)

LEMMA KeyBounds == IntMin \in Int /\ \A k \in Key : k \in Int /\ IntMin <= k
BY KeyAssumption

\* No entry of S has the key of e.
NewKey(S, e) == \A x \in S : x.key # e.key

LEMMA DistinctBasics ==
  ASSUME NEW T, Keyed(T), NEW ents \in Seq(T), Distinct(ents)
  PROVE  /\ Ascending(ents) /\ Single(ents)
         /\ \A x, y \in Members(ents) : x.key = y.key => x = y
<1>1. \A i \in 1..Len(ents) : ents[i].key \in Int
  BY ElementOfSeq DEF Keyed
<1>2. Ascending(ents)
  BY <1>1 DEF Distinct, Ascending
<1>3. \A i, j \in 1..Len(ents) : ents[i].key = ents[j].key => i = j
  <2> SUFFICES ASSUME NEW i \in 1..Len(ents), NEW j \in 1..Len(ents), i # j
               PROVE  ents[i].key # ents[j].key
    OBVIOUS
  <2>1. i < j \/ j < i
    OBVIOUS
  <2> QED BY <1>1, <2>1 DEF Distinct
<1>4. Single(ents)
  BY <1>3 DEF Single
<1>5. \A x, y \in Members(ents) : x.key = y.key => x = y
  BY <1>3 DEF Members
<1> QED BY <1>2, <1>4, <1>5

\* The halves of a full leaf of distinct keys, and the key reported.
CutAt(ents, e, left, right, key) ==
  /\ Len(left) \in 1..LeafMax /\ Len(right) \in 1..LeafMax
  /\ Distinct(left) /\ Distinct(right)
  /\ \A x \in Members(left) : x.key < key /\ (x \in Members(ents) \/ x = e)
  /\ \A x \in Members(right) : key <= x.key /\ (x \in Members(ents) \/ x = e)
  /\ \A x \in Members(ents) : x \in Members(left) \/ x \in Members(right)
  /\ e \in Members(left) \/ e \in Members(right)
  /\ \E x \in Members(right) : x.key = key

LEMMA LeafSplitCut ==
  ASSUME NEW E, Keyed(E), NEW N, NEW n \in LeafNode(E, N), Len(n.ents) = LeafMax, NEW e \in E,
         Distinct(n.ents), NewKey(Members(n.ents), e),
         NEW left, left = LeafSplit(n, e).left.ents,
         NEW right, right = LeafSplit(n, e).right.ents,
         NEW key, key = LeafSplit(n, e).key
  PROVE  /\ left \in Seq(E) /\ right \in Seq(E)
         /\ CutAt(n.ents, e, left, right, key)
<1>0. n.ents \in Seq(E)
  BY DEF LeafNode
<1>1. /\ Ascending(n.ents) /\ Single(n.ents)
      /\ \A x, y \in Members(n.ents) : x.key = y.key => x = y
  BY <1>0, DistinctBasics
<1>2. e \notin Members(n.ents)
  BY DEF NewKey
<1>3. left \in Seq(E) /\ right \in Seq(E) /\ Halved(n.ents, e, left, right)
  BY LeafSplitMembers
<1>4. /\ Ascending(left) /\ Ascending(right)
      /\ \A l \in Members(left) : l.key <= key
      /\ \A r \in Members(right) : key <= r.key
      /\ key = right[1].key
  BY <1>1, LeafSplitOrder
<1>5. Parted(n.ents, e, left, right)
  BY <1>1, <1>2, SplitParts
<1>6. /\ Len(left) \in Nat \ {0} /\ Len(right) \in Nat \ {0}
      /\ Len(left) <= LeafMax /\ Len(right) <= LeafMax
  BY <1>3, <1>5 DEF Parted, Halved
<1>7. Len(left) \in 1..LeafMax /\ Len(right) \in 1..LeafMax
  BY <1>6, LeafMaxAssumption
<1> DEFINE S == Members(n.ents) \cup {e}
<1>8. \A x, y \in S : x.key = y.key => x = y
  BY <1>1 DEF NewKey
<1>9. /\ \A x \in Members(left) : x \in S
      /\ \A x \in Members(right) : x \in S
      /\ \A x \in S : x \in Members(left) \/ x \in Members(right)
  BY <1>3, <1>5 DEF Halved, Parted
<1>10. \A x \in S : x.key \in Int
  <2>1. \A x \in Members(n.ents) : x \in E
    BY <1>0, MembersType
  <2> QED BY <2>1 DEF Keyed
<1> HIDE DEF S
<1>11. ASSUME NEW s, s \in {left, right} PROVE Distinct(s)
  <2>1. Ascending(s) /\ Single(s) /\ \A x \in Members(s) : x \in S
    BY <1>4, <1>5, <1>9, <1>11 DEF Parted
  <2> SUFFICES ASSUME NEW i \in 1..Len(s), NEW j \in 1..Len(s), i < j
               PROVE  s[i].key < s[j].key
    BY DEF Distinct
  <2>2. s[i] \in S /\ s[j] \in S
    BY <2>1 DEF Members
  <2>3. s[i] # s[j] /\ s[i].key <= s[j].key
    BY <2>1 DEF Single, Ascending
  <2>4. s[i].key # s[j].key
    BY <1>8, <2>2, <2>3
  <2> QED BY <1>10, <2>2, <2>3, <2>4
<1>12. right[1] \in Members(right) /\ right[1].key = key
  BY <1>4, <1>6 DEF Members
<1>13. ASSUME NEW x \in Members(left) PROVE x.key < key
  <2>1. x \in S /\ right[1] \in S /\ x.key <= key
    BY <1>4, <1>9, <1>12
  <2>2. x # right[1]
    BY <1>5, <1>12 DEF Parted, Apart
  <2>3. x.key # key
    BY <1>8, <1>12, <2>1, <2>2
  <2> QED BY <1>10, <1>12, <2>1, <2>3
<1>14. \A x \in S : x \in Members(n.ents) \/ x = e
  BY DEF S
<1>15. \A x \in Members(n.ents) : x \in S
  BY DEF S
<1>16. e \in S
  BY DEF S
<1>17. Distinct(left) /\ Distinct(right)
  BY <1>11
<1>18. CutAt(n.ents, e, left, right, key)
  BY <1>4, <1>7, <1>9, <1>12, <1>13, <1>14, <1>15, <1>16, <1>17 DEF CutAt
<1> QED BY <1>3, <1>18

-----------------------------------------------------------------------------
(* Leaves and the node above them.  C are leaves, and low gives the least  *)
(* key that may be sent to each.                                           *)

Lows(C, low) ==
  /\ low \in [C -> Int]
  /\ \A p \in C : IntMin <= low[p]
  /\ \A p, q \in C : low[p] = low[q] => p = q

\* Key k is sent to leaf p.
Covers(C, low, p, k) == low[p] <= k /\ \A q \in C : low[p] < low[q] => k < low[q]

\* Node n leads to the leaves D.
Fits(low, n, D) ==
  /\ n \in NonLeafNode(Int, D) /\ Distinct(n.ents)
  /\ low[n.first] = IntMin
  /\ \A x \in Members(n.ents) : x.pid # n.first /\ x.key = low[x.pid]
  /\ \A q \in D : q # n.first => \E x \in Members(n.ents) : x.pid = q

LEMMA SeparatorEntries ==
  ASSUME NEW Q, NEW n \in NonLeafNode(Int, Q)
  PROVE  /\ n.first \in Q /\ n.ents \in Seq(Separator(Int, Q)) /\ Keyed(Separator(Int, Q))
         /\ \A i \in 1..Len(n.ents) : n.ents[i].key \in Int /\ n.ents[i].pid \in Q
                                      /\ n.ents[i] \in Members(n.ents)
         /\ \A x \in Members(n.ents) : x.key \in Int /\ x.pid \in Q
<1>1. n.first \in Q /\ n.ents \in Seq(Separator(Int, Q))
  BY DEF NonLeafNode
<1>2. \A i \in 1..Len(n.ents) : n.ents[i] \in Separator(Int, Q)
  BY <1>1, ElementOfSeq
<1> QED BY <1>1, <1>2 DEF Separator, Keyed, Members

LEMMA FitsRoutes ==
  ASSUME NEW C, NEW low, Lows(C, low), NEW n, Fits(low, n, C), NEW k \in Int, IntMin <= k
  PROVE  ChildPtr(n, k) \in C /\ Covers(C, low, ChildPtr(n, k), k)
<1>1. n \in NonLeafNode(Int, C) /\ IntMin \in Int
  BY KeyAssumption DEF Fits
<1>2. PICK at : FirstLarger(n.ents, k, at)
  BY <1>1, ChildPtrIs
<1>3. ChildPtr(n, k) = ChildBefore(n, at)
  BY <1>1, <1>2, ChildPtrIs
<1>4. /\ n.first \in C
      /\ \A i \in 1..Len(n.ents) : n.ents[i].key \in Int /\ n.ents[i].pid \in C
                                   /\ n.ents[i] \in Members(n.ents)
  BY <1>1, SeparatorEntries
<1>5. Len(n.ents) \in Nat
  BY <1>1 DEF NonLeafNode
<1>6. \A i \in 1..Len(n.ents) : n.ents[i].key = low[n.ents[i].pid]
  BY <1>4 DEF Fits
<1>7. \A q \in C : q # n.first => \E i \in 1..Len(n.ents) : n.ents[i].pid = q
  BY DEF Fits, Members
<1>8. \A i, j \in 1..Len(n.ents) : i < j => n.ents[i].key < n.ents[j].key
  BY DEF Fits, Distinct
<1>9. /\ at \in 1..(Len(n.ents) + 1)
      /\ at <= Len(n.ents) => k < n.ents[at].key
      /\ \A i \in 1..Len(n.ents) : i < at => n.ents[i].key <= k
  BY <1>2 DEF FirstLarger
\* The separators from at on are larger than k.
<1>10. ASSUME NEW i \in 1..Len(n.ents), at <= i PROVE k < n.ents[i].key
  <2>1. at \in 1..Len(n.ents) /\ k < n.ents[at].key
    BY <1>5, <1>9, <1>10
  <2>2. at = i \/ n.ents[at].key < n.ents[i].key
    BY <1>8, <1>10, <2>1
  <2>3. n.ents[at].key \in Int /\ n.ents[i].key \in Int
    BY <1>4, <2>1
  <2> QED BY <2>1, <2>2, <2>3
<1>11. CASE at = 1
  <2>1. ChildPtr(n, k) = n.first /\ low[n.first] = IntMin
    BY <1>3, <1>11 DEF ChildBefore, Fits
  <2>2. ASSUME NEW q \in C, low[n.first] < low[q] PROVE k < low[q]
    <3>1. q # n.first
      BY <1>1, <2>1, <2>2
    <3>2. PICK i \in 1..Len(n.ents) : n.ents[i].pid = q
      BY <1>7, <3>1
    <3> QED BY <1>6, <1>10, <1>11, <3>2
  <2> QED BY <1>4, <2>1, <2>2 DEF Covers
<1>12. CASE at # 1
  <2> DEFINE b == at - 1
  <2>1. b \in 1..Len(n.ents) /\ b < at
    BY <1>5, <1>9, <1>12
  <2>2. ChildPtr(n, k) = n.ents[b].pid /\ low[n.ents[b].pid] = n.ents[b].key /\ n.ents[b].key <= k
    BY <1>3, <1>6, <1>9, <1>12, <2>1 DEF ChildBefore
  <2>3. b + 1 = at
    BY <1>9
  <2> HIDE DEF b
  <2>4. ASSUME NEW q \in C, n.ents[b].key < low[q] PROVE k < low[q]
    <3>0. n.ents[b].key \in Int /\ n.ents[b].pid \in C
      BY <1>4, <2>1
    <3>1. IntMin <= n.ents[b].key /\ low[q] \in Int
      BY <2>2, <3>0 DEF Lows
    <3>2. q # n.first
      <4>1. low[n.first] = IntMin
        BY DEF Fits
      <4> QED BY <1>1, <2>4, <3>0, <3>1, <4>1
    <3>3. PICK i \in 1..Len(n.ents) : n.ents[i].pid = q
      BY <1>7, <3>2
    <3>4. n.ents[i].key = low[q]
      BY <1>6, <3>3
    <3>5. at <= i
      <4>1. i <= b => i = b \/ n.ents[i].key < n.ents[b].key
        BY <1>8, <2>1
      <4>2. n.ents[i].key \in Int
        BY <1>4
      <4>3. ~(i <= b)
        BY <2>4, <3>0, <3>4, <4>1, <4>2
      <4> QED BY <2>1, <2>3, <4>3
    <3> QED BY <1>10, <3>4, <3>5
  <2> QED BY <1>4, <2>1, <2>2, <2>4 DEF Covers
<1> QED BY <1>11, <1>12

LEMMA FitsInserted ==
  ASSUME NEW C, NEW low, Lows(C, low), NEW D, NEW b, D \subseteq C, b \in C, b \notin D,
         NEW n, Fits(low, n, D), ~NonLeafFull(n),
         NEW e, e = [key |-> low[b], pid |-> b]
  PROVE  Fits(low, NonLeafInsert(n, e), D \cup {b})
<1> DEFINE Q   == D \cup {b}
           T   == Separator(Int, Q)
           new == NonLeafInsert(n, e)
<1>1. n \in NonLeafNode(Int, D) /\ low[b] \in Int
  BY DEF Fits, Lows
<1>2. n \in NonLeafNode(Int, Q)
  <2>1. Separator(Int, D) \subseteq T
    BY DEF Separator
  <2>2. Seq(Separator(Int, D)) \subseteq Seq(T)
    BY <2>1, SeqMonotonic
  <2> QED BY <1>1, <2>2 DEF NonLeafNode
<1>3. e \in T /\ e.key = low[b] /\ e.pid = b
  BY <1>1 DEF Separator
<1>4. n.ents \in Seq(T) /\ Keyed(T)
  BY <1>2, SeparatorEntries
<1>5. \A x \in Members(n.ents) : x.pid \in D /\ x.key = low[x.pid] /\ x.pid # n.first
  BY <1>1, SeparatorEntries DEF Fits
<1>6. \A x \in Members(n.ents) : x.key # e.key
  BY <1>3, <1>5 DEF Lows
<1>7. Distinct(n.ents)
  BY DEF Fits
<1> HIDE DEF Q, T
<1>8. Distinct(Insert(n.ents, e))
  BY <1>3, <1>4, <1>6, <1>7, InsertDistinct
<1>9. Members(Insert(n.ents, e)) = Members(n.ents) \cup {e}
  BY <1>3, <1>4, InsertMembers
<1>10. new = [n EXCEPT !.ents = Insert(@, e)]
  BY DEF NonLeafInsert
<1>11. new.ents = Insert(n.ents, e) /\ new.first = n.first
  BY <1>2, <1>10 DEF NonLeafNode
<1>12. new \in NonLeafNode(Int, Q)
  BY <1>2, <1>3, NonLeafInsertType DEF T
<1>13. n.first \in D /\ n.first # b
  BY <1>1 DEF NonLeafNode
<1>14. low[n.first] = IntMin /\ \A q \in D : q # n.first => \E x \in Members(n.ents) : x.pid = q
  BY DEF Fits
<1> HIDE DEF new
<1>15. \A x \in Members(new.ents) : x.pid # new.first /\ x.key = low[x.pid]
  BY <1>3, <1>5, <1>9, <1>11, <1>13
<1>16. \A q \in Q : q # new.first => \E x \in Members(new.ents) : x.pid = q
  BY <1>3, <1>9, <1>11, <1>14 DEF Q
<1>17. Distinct(new.ents) /\ low[new.first] = IntMin
  BY <1>8, <1>11, <1>14
<1>18. Fits(low, new, Q)
  BY <1>12, <1>15, <1>16, <1>17 DEF Fits
<1> QED BY <1>18 DEF new, Q

LEMMA FitsRoot ==
  ASSUME NEW low, NEW a, NEW b, a # b, low[a] = IntMin, low[b] \in Int
  PROVE  Fits(low, InitializeRoot(a, low[b], b), {a, b})
<1> DEFINE n == InitializeRoot(a, low[b], b)
           e == [key |-> low[b], pid |-> b]
<1>1. n.kind = "nonleaf" /\ n.first = a /\ n.ents = <<e>>
  BY DEF InitializeRoot
<1>2. n.ents \in Seq(Separator(Int, {a, b})) /\ Len(n.ents) = 1 /\ n.ents[1] = e
  BY <1>1 DEF Separator
<1>3. n \in NonLeafNode(Int, {a, b})
  BY <1>1, <1>2 DEF NonLeafNode, InitializeRoot
<1>4. \A x \in Members(n.ents) : x = e
  BY <1>2 DEF Members
<1>5. e \in Members(n.ents)
  BY <1>2 DEF Members
<1>6. Distinct(n.ents)
  BY <1>2 DEF Distinct
<1> HIDE DEF n
<1> QED BY <1>1, <1>3, <1>4, <1>5, <1>6 DEF Fits, n


-----------------------------------------------------------------------------
(* The leaves C of the pages d, in the order of their keys.                *)

LeafInOrder(C, low, d, p) ==
  /\ d[p] \in LeafNode(Entry, C \cup {0}) /\ Len(d[p].ents) \in 1..LeafMax
  /\ Distinct(d[p].ents)
  /\ \A x \in Members(d[p].ents) : Covers(C, low, p, x.key)
  /\ d[p].next = 0 => \A q \in C : low[q] <= low[p]
  /\ d[p].next # 0 => /\ low[p] < low[d[p].next]
                      /\ \A q \in C : low[p] < low[q] => low[d[p].next] <= low[q]

InOrder(C, low, d) == Lows(C, low) /\ 0 \notin C /\ \A p \in C : LeafInOrder(C, low, d, p)

\* Between the two writes of a leaf split: the sibling is in the file, and the
\* leaf still has what is to move.
Severed(C, low, d, c) ==
  /\ c.at \in C /\ c.over.pid \notin C \cup {0}
  /\ c.page \in LeafNode(Entry, {c.over.pid})
  /\ d[c.over.pid] \in LeafNode(Entry, C \cup {0}) /\ d[c.over.pid].next = d[c.at].next
  /\ CutAt(d[c.at].ents, c.entry, c.page.ents, d[c.over.pid].ents, c.over.key)
  /\ Covers(C, low, c.at, c.entry.key) /\ c.entry \in Entry

LEMMA LeafEntries ==
  ASSUME NEW C, NEW low, NEW d, InOrder(C, low, d), NEW p \in C
  PROVE  /\ d[p].ents \in Seq(Entry) /\ d[p].next \in C \cup {0}
         /\ \A x \in Members(d[p].ents) : x \in Entry /\ x.key \in Int
         /\ \A x, y \in Members(d[p].ents) : x.key = y.key => x = y
<1>1. d[p].ents \in Seq(Entry) /\ d[p].next \in C \cup {0} /\ Distinct(d[p].ents)
  BY DEF InOrder, LeafInOrder, LeafNode
<1>2. \A x \in Members(d[p].ents) : x \in Entry
  BY <1>1, MembersType
<1>3. \A x \in Entry : x.key \in Int
  BY EntryKeyed
<1> QED BY <1>1, <1>2, <1>3, EntryKeyed, DistinctBasics

LEMMA SameLeaves ==
  ASSUME NEW C, NEW low, NEW d, InOrder(C, low, d), NEW e, \A p \in C : e[p] = d[p]
  PROVE  InOrder(C, low, e)
BY DEF InOrder, LeafInOrder

\* A leaf that is not full gets an entry with a key sent to it.
LEMMA LeafInserted ==
  ASSUME NEW C, NEW low, NEW d, InOrder(C, low, d), NEW a \in C, NEW x \in Entry,
         ~LeafFull(d[a]), Covers(C, low, a, x.key), NewKey(Members(d[a].ents), x),
         NEW page, page = LeafInsert(d[a], x),
         NEW e, \A p \in C : e[p] = IF p = a THEN page ELSE d[p]
  PROVE  /\ InOrder(C, low, e)
         /\ \A y : y \in Members(e[a].ents) <=> y \in Members(d[a].ents) \/ y = x
<1> DEFINE N == C \cup {0}
<1>1. /\ d[a] \in LeafNode(Entry, N) /\ Len(d[a].ents) \in 1..LeafMax /\ Distinct(d[a].ents)
      /\ \A y \in Members(d[a].ents) : Covers(C, low, a, y.key)
  BY DEF InOrder, LeafInOrder
<1> HIDE DEF N
<1>2. page \in LeafNode(Entry, N) /\ page.ents = Insert(d[a].ents, x) /\ page.next = d[a].next
  <2>1. page \in LeafNode(Entry, N)
    BY <1>1, EntryKeyed, LeafInsertType
  <2> QED BY <1>1, <2>1 DEF LeafInsert, LeafNode
<1>3. d[a].ents \in Seq(Entry) /\ \A y \in Members(d[a].ents) : y.key # x.key
  BY <1>1 DEF LeafNode, NewKey
<1>4. Len(page.ents) = Len(d[a].ents) + 1
  BY <1>2, <1>3, EntryKeyed, InsertType, SMTT(30)
<1>5. Len(page.ents) \in 1..LeafMax
  BY <1>1, <1>4, LeafMaxAssumption DEF LeafFull
<1>6. Distinct(page.ents)
  BY <1>1, <1>2, <1>3, EntryKeyed, InsertDistinct
<1>7. Members(page.ents) = Members(d[a].ents) \cup {x}
  BY <1>2, <1>3, EntryKeyed, InsertMembers
<1>8. \A y \in Members(page.ents) : Covers(C, low, a, y.key)
  BY <1>1, <1>7
<1>9. LeafInOrder(C, low, d, a)
  BY DEF InOrder
<1>10. LeafInOrder(C, low, e, a)
  BY <1>2, <1>5, <1>6, <1>8, <1>9 DEF LeafInOrder, N
<1>11. ASSUME NEW p \in C, p # a PROVE LeafInOrder(C, low, e, p)
  <2>1. e[p] = d[p] /\ LeafInOrder(C, low, d, p)
    BY <1>11 DEF InOrder
  <2> QED BY <2>1 DEF LeafInOrder
<1> QED BY <1>7, <1>10, <1>11 DEF InOrder

LEMMA LeafStored ==
  ASSUME NEW C, NEW low, InOrder(C, low, disk), NEW a \in C, NEW x \in Entry,
         ~LeafFull(disk[a]), Covers(C, low, a, x.key), NewKey(Members(disk[a].ents), x),
         NEW page, page = LeafInsert(disk[a], x),
         \A p \in C : disk'[p] = IF p = a THEN page ELSE disk[p]
  PROVE  /\ InOrder(C, low, disk')
         /\ \A y : y \in Members(disk'[a].ents) <=> y \in Members(disk[a].ents) \/ y = x
BY LeafInserted

Extended(low, b, key) == [p \in DOMAIN low \cup {b} |-> IF p = b THEN key ELSE low[p]]

\* The split leaf gets its lower half and leads to the sibling.
LEMMA SiblingInOrder ==
  ASSUME NEW C, NEW low, NEW d, InOrder(C, low, d), NEW c, Severed(C, low, d, c),
         NEW e, \A p \in C \cup {c.over.pid} : e[p] = IF p = c.at THEN c.page ELSE d[p],
         NEW new, new = Extended(low, c.over.pid, c.over.key)
  PROVE  /\ InOrder(C \cup {c.over.pid}, new, e)
         /\ new[c.over.pid] = c.over.key /\ c.over.key \in Int
         /\ \A p \in C : new[p] = low[p]
<1> DEFINE a    == c.at
           b    == c.over.pid
           key  == c.over.key
           B    == C \cup {b}
           old  == d[a]
           page == c.page
           sib  == d[b]
           x    == c.entry
<1>1. /\ a \in C /\ b \notin C /\ b # 0 /\ 0 \notin C
      /\ page \in LeafNode(Entry, {b}) /\ sib \in LeafNode(Entry, C \cup {0}) /\ sib.next = old.next
      /\ CutAt(old.ents, x, page.ents, sib.ents, key)
      /\ Covers(C, low, a, x.key) /\ x \in Entry
  BY DEF Severed, InOrder
<1>2. \A p \in C : LeafInOrder(C, low, d, p)
  BY DEF InOrder
<1>3. /\ Lows(C, low) /\ IntMin \in Int /\ \A p \in C : low[p] \in Int /\ IntMin <= low[p]
  BY KeyAssumption DEF InOrder, Lows
<1>4. \A p \in C : e[p] = IF p = a THEN page ELSE d[p]
  OBVIOUS
<1>5. e[b] = sib
  BY <1>1
<1>6. /\ new \in [B -> {new[p] : p \in B}] /\ new[b] = key /\ \A p \in C : new[p] = low[p]
  BY <1>1, <1>3 DEF Extended, Lows
<1>7. /\ \A y \in Members(page.ents) \cup Members(sib.ents) : Covers(C, low, a, y.key) /\ y.key \in Int
  <2>1. \A y \in Members(old.ents) : Covers(C, low, a, y.key) /\ y.key \in Int
    BY <1>1, <1>2, LeafEntries DEF LeafInOrder
  <2>2. x.key \in Int
    BY <1>1, EntryKeyed
  <2> QED BY <1>1, <2>1, <2>2 DEF CutAt
<1>8. /\ Len(page.ents) \in 1..LeafMax /\ Distinct(page.ents) /\ Len(sib.ents) \in 1..LeafMax /\ Distinct(sib.ents)
      /\ \A y \in Members(page.ents) : y.key < key
      /\ \A y \in Members(sib.ents) : key <= y.key
      /\ \E y \in Members(sib.ents) : y.key = key
  BY <1>1 DEF CutAt
<1> HIDE DEF a, b, key, B, old, page, sib, x
<1>9. key \in Int /\ low[a] < key /\ \A q \in C : low[a] < low[q] => key < low[q]
  <2>1. PICK y \in Members(sib.ents) : y.key = key
    BY <1>8
  <2>2. key \in Int /\ \A q \in C : low[a] < low[q] => key < low[q]
    BY <1>7, <2>1 DEF Covers
  <2>3. page.ents[1] \in Members(page.ents)
    BY <1>8 DEF Members
  <2>4. page.ents[1].key < key /\ low[a] <= page.ents[1].key /\ page.ents[1].key \in Int
    BY <1>7, <1>8, <2>3 DEF Covers
  <2> QED BY <1>1, <1>3, <2>2, <2>4
<1>10. \A q \in C : low[q] <= low[a] \/ low[a] < low[q]
  BY <1>1, <1>3
<1>11. \A q \in C : low[q] # key /\ (low[q] < key => low[q] <= low[a])
  BY <1>1, <1>3, <1>9, <1>10
<1>12. \A q \in C : q # a => low[q] # low[a]
  BY <1>1, <1>3 DEF Lows
<1>13. Lows(B, new)
  <2>1. \A p \in B : new[p] \in Int /\ IntMin <= new[p]
    <3>1. IntMin <= key
      BY <1>1, <1>3, <1>9
    <3> QED BY <1>3, <1>6, <1>9, <3>1 DEF B
  <2>2. new \in [B -> Int]
    BY <1>6, <2>1
  <2>3. \A p, q \in B : new[p] = new[q] => p = q
    BY <1>3, <1>6, <1>11 DEF B, Lows
  <2> QED BY <2>1, <2>2, <2>3 DEF Lows
<1>14. LeafInOrder(B, new, e, a)
  <2>1. e[a] = page /\ page.next = b
    BY <1>1, <1>4 DEF LeafNode
  <2>2. page \in LeafNode(Entry, B \cup {0})
    BY <1>1 DEF LeafNode, B
  <2>3. \A y \in Members(page.ents) : Covers(B, new, a, y.key)
    BY <1>1, <1>6, <1>7, <1>8 DEF Covers, B
  <2>4. new[a] < new[b] /\ \A q \in B : new[a] < new[q] => new[b] <= new[q]
    BY <1>1, <1>3, <1>6, <1>9 DEF B
  <2> QED BY <1>1, <1>8, <2>1, <2>2, <2>3, <2>4 DEF LeafInOrder
<1>15. LeafInOrder(B, new, e, b)
  <2>1. sib \in LeafNode(Entry, B \cup {0})
    BY <1>1 DEF LeafNode, B
  <2>2. \A y \in Members(sib.ents) : Covers(B, new, b, y.key)
    <3> SUFFICES ASSUME NEW y \in Members(sib.ents) PROVE Covers(B, new, b, y.key)
      OBVIOUS
    <3>1. Covers(C, low, a, y.key) /\ y.key \in Int /\ key <= y.key
      BY <1>7, <1>8
    <3>2. \A q \in C : key < low[q] => y.key < low[q]
      BY <1>1, <1>3, <1>9, <3>1 DEF Covers
    <3> QED BY <1>6, <1>9, <3>1, <3>2 DEF Covers, B
  <2>3. LeafInOrder(C, low, d, a) /\ old = d[a]
    BY <1>1, <1>2 DEF old
  <2>4. sib.next = 0 => \A q \in B : new[q] <= new[b]
    <3>1. sib.next = 0 => \A q \in C : low[q] <= low[a]
      BY <1>1, <2>3 DEF LeafInOrder
    <3>2. sib.next = 0 => \A q \in C : low[q] <= key
      BY <1>1, <1>3, <1>9, <3>1
    <3> QED BY <1>6, <1>9, <3>2 DEF B
  <2>5. sib.next # 0 => /\ new[b] < new[sib.next]
                        /\ \A q \in B : new[b] < new[q] => new[sib.next] <= new[q]
    <3> SUFFICES ASSUME sib.next # 0 PROVE /\ new[b] < new[sib.next]
                        /\ \A q \in B : new[b] < new[q] => new[sib.next] <= new[q]
      OBVIOUS
    <3>1. /\ sib.next \in C
          /\ low[a] < low[sib.next] /\ \A q \in C : low[a] < low[q] => low[sib.next] <= low[q]
      BY <1>1, <2>3 DEF LeafInOrder, LeafNode
    <3>2. \A q \in C : key < low[q] => low[a] < low[q]
      BY <1>1, <1>3, <1>9
    <3> QED BY <1>6, <1>9, <3>1, <3>2 DEF B
  <2> QED BY <1>5, <1>8, <2>1, <2>2, <2>4, <2>5 DEF LeafInOrder
<1>16. ASSUME NEW p \in C, p # a PROVE LeafInOrder(B, new, e, p)
  <2>1. e[p] = d[p] /\ LeafInOrder(C, low, d, p) /\ new[p] = low[p] /\ low[p] \in Int
    BY <1>2, <1>3, <1>4, <1>6, <1>16
  <2>2. d[p] \in LeafNode(Entry, B \cup {0})
    BY <2>1 DEF LeafInOrder, LeafNode, B
  <2>3. \A y \in Members(d[p].ents) : Covers(B, new, p, y.key)
    <3> SUFFICES ASSUME NEW y \in Members(d[p].ents) PROVE Covers(B, new, p, y.key)
      OBVIOUS
    <3>1. Covers(C, low, p, y.key) /\ y.key \in Int
      BY <2>1, LeafEntries DEF LeafInOrder
    <3>2. low[p] < key => low[p] < low[a]
      BY <1>1, <1>3, <1>11, <1>12, <1>16
    <3>3. low[p] < key => y.key < key
      BY <1>1, <1>3, <1>9, <3>1, <3>2 DEF Covers
    <3> QED BY <1>6, <2>1, <3>1, <3>3 DEF Covers, B
  <2>4. d[p].next = 0 => \A q \in B : new[q] <= new[p]
    <3>1. d[p].next = 0 => \A q \in C : low[q] <= low[p]
      BY <2>1 DEF LeafInOrder
    <3>2. d[p].next = 0 => low[a] < low[p]
      BY <1>1, <1>3, <1>12, <1>16, <3>1
    <3>3. d[p].next = 0 => key <= low[p]
      BY <1>3, <1>9, <2>1, <3>2
    <3> QED BY <1>6, <2>1, <3>1, <3>3 DEF B
  <2>5. d[p].next # 0 => /\ new[p] < new[d[p].next]
                         /\ \A q \in B : new[p] < new[q] => new[d[p].next] <= new[q]
    <3> SUFFICES ASSUME d[p].next # 0 PROVE /\ new[p] < new[d[p].next]
                         /\ \A q \in B : new[p] < new[q] => new[d[p].next] <= new[q]
      OBVIOUS
    <3>1. /\ d[p].next \in C /\ low[p] < low[d[p].next]
          /\ \A q \in C : low[p] < low[q] => low[d[p].next] <= low[q]
      BY <2>1 DEF LeafInOrder, LeafNode
    <3>2. low[p] < key => low[p] < low[a]
      BY <1>1, <1>3, <1>11, <1>12, <1>16
    <3>3. low[p] < key => low[d[p].next] <= key
      <4>1. low[p] < key => low[d[p].next] <= low[a]
        BY <1>1, <3>1, <3>2
      <4> QED BY <1>1, <1>3, <1>9, <3>1, <4>1
    <3> QED BY <1>6, <2>1, <3>1, <3>3 DEF B
  <2>6. Len(d[p].ents) \in 1..LeafMax /\ Distinct(d[p].ents)
    BY <2>1 DEF LeafInOrder
  <2> QED BY <2>1, <2>2, <2>3, <2>4, <2>5, <2>6 DEF LeafInOrder
<1>17. \A p \in B : LeafInOrder(B, new, e, p)
  BY <1>14, <1>15, <1>16 DEF B
<1>18. 0 \notin B
  BY <1>1 DEF B
<1>19. InOrder(B, new, e)
  BY <1>13, <1>17, <1>18 DEF InOrder
<1> QED BY <1>6, <1>9, <1>19 DEF B, b, key


-----------------------------------------------------------------------------
(* The chain from a leaf on: the leaves of larger keys, and no others.     *)

Above(C, low, p) == {q \in C : low[p] < low[q]}
RankBy(C, low) == [p \in C |-> Cardinality(Above(C, low, p))]

LEMMA OrderIsStrung ==
  ASSUME NEW s \in Nat, NEW C \in SUBSET Pages(s), NEW low, NEW d, InOrder(C, low, d),
         NEW rank, rank = RankBy(C, low)
  PROVE  /\ Strung(rank, d, s) /\ DOMAIN rank = C
         /\ \A p, q \in C : rank[p] <= rank[q] <=> low[q] <= low[p]
<1>1. IsFiniteSet(C) /\ Cardinality(C) \in Nat
  BY PagesAreFinite
<1>2. \A p \in C : low[p] \in Int
  BY DEF InOrder, Lows
<1>3. \A p \in C : IsFiniteSet(Above(C, low, p)) /\ Cardinality(Above(C, low, p)) \in Nat
  <2> SUFFICES ASSUME NEW p \in C
               PROVE  IsFiniteSet(Above(C, low, p)) /\ Cardinality(Above(C, low, p)) \in Nat
    OBVIOUS
  <2>1. Above(C, low, p) \in SUBSET C
    BY DEF Above
  <2>2. IsFiniteSet(Above(C, low, p))
    BY <1>1, <2>1, FS_Subset
  <2> QED BY <2>2, FS_CardinalityType
<1>4. DOMAIN rank = C /\ \A p \in C : rank[p] = Cardinality(Above(C, low, p))
  BY DEF RankBy
\* More leaves are above a lower one.
<1>5. ASSUME NEW p \in C, NEW q \in C, low[p] < low[q] PROVE rank[q] < rank[p]
  <2>1. Above(C, low, q) \in SUBSET Above(C, low, p)
    BY <1>2, <1>5 DEF Above
  <2>2. q \in Above(C, low, p) /\ q \notin Above(C, low, q)
    BY <1>2, <1>5 DEF Above
  <2>3. /\ Cardinality(Above(C, low, q)) <= Cardinality(Above(C, low, p))
        /\ Cardinality(Above(C, low, p)) = Cardinality(Above(C, low, q))
             => Above(C, low, p) = Above(C, low, q)
    BY <1>3, <2>1, FS_Subset
  <2> QED BY <1>3, <1>4, <2>2, <2>3
<1>6. \A p \in C : rank[p] \in Nat
  BY <1>3, <1>4
<1>7. \A p, q \in C : rank[p] <= rank[q] <=> low[q] <= low[p]
  <2> SUFFICES ASSUME NEW p \in C, NEW q \in C PROVE rank[p] <= rank[q] <=> low[q] <= low[p]
    OBVIOUS
  <2>1. CASE low[p] = low[q]
    <3>1. p = q
      BY <2>1 DEF InOrder, Lows
    <3> QED BY <1>2, <1>6, <3>1
  <2>2. CASE low[p] < low[q]
    BY <1>2, <1>5, <1>6, <2>2
  <2>3. CASE low[q] < low[p]
    BY <1>2, <1>5, <1>6, <2>3
  <2> QED BY <1>2, <2>1, <2>2, <2>3
<1>8. ASSUME NEW p \in C PROVE rank[p] < Cardinality(C)
  <2>1. Above(C, low, p) \in SUBSET C /\ p \notin Above(C, low, p)
    BY <1>2 DEF Above
  <2>2. /\ Cardinality(Above(C, low, p)) <= Cardinality(C)
        /\ Cardinality(C) = Cardinality(Above(C, low, p)) => C = Above(C, low, p)
    BY <1>1, <2>1, FS_Subset
  <2> QED BY <1>1, <1>3, <1>4, <2>1, <2>2
<1>9. ASSUME NEW p \in C, d[p].next = 0 PROVE rank[p] = 0
  <2>1. \A q \in C : low[q] <= low[p]
    BY <1>9 DEF InOrder, LeafInOrder
  <2>2. Above(C, low, p) = {}
    BY <1>2, <2>1 DEF Above
  <2> QED BY <1>4, <2>2, FS_EmptySet
<1>10. ASSUME NEW p \in C, d[p].next # 0 PROVE rank[d[p].next] = rank[p] - 1
  <2> DEFINE n == d[p].next
  <2>1. /\ n \in C /\ low[p] < low[n]
        /\ \A q \in C : low[p] < low[q] => low[n] <= low[q]
    BY <1>10 DEF InOrder, LeafInOrder, LeafNode
  <2> HIDE DEF n
  <2>2. Above(C, low, p) = Above(C, low, n) \cup {n}
    <3>1. ASSUME NEW q \in C PROVE low[p] < low[q] <=> low[n] < low[q] \/ q = n
      <4>1. low[n] = low[q] => q = n
        BY <2>1 DEF InOrder, Lows
      <4> QED BY <1>2, <2>1, <4>1
    <3> QED BY <2>1, <3>1 DEF Above
  <2>3. n \notin Above(C, low, n)
    BY <1>2, <2>1 DEF Above
  <2>4. Cardinality(Above(C, low, p)) = Cardinality(Above(C, low, n)) + 1
    BY <1>3, <2>1, <2>2, <2>3, FS_AddElement
  <2>5. rank[n] = rank[p] - 1
    BY <1>3, <1>4, <2>1, <2>4
  <2> QED BY <2>5 DEF n
<1>11. \A p, q \in C : rank[p] = rank[q] => p = q
  <2> SUFFICES ASSUME NEW p \in C, NEW q \in C, rank[p] = rank[q] PROVE p = q
    OBVIOUS
  <2>1. low[p] = low[q]
    BY <1>2, <1>6, <1>7
  <2> QED BY <2>1 DEF InOrder, Lows
<1>12. \A p \in C : d[p] \in LeafNode(Entry, C \cup {0}) /\ Len(d[p].ents) <= LeafMax
  <2> SUFFICES ASSUME NEW p \in C
               PROVE  d[p] \in LeafNode(Entry, C \cup {0}) /\ Len(d[p].ents) <= LeafMax
    OBVIOUS
  <2>1. d[p] \in LeafNode(Entry, C \cup {0}) /\ Len(d[p].ents) \in 1..LeafMax
    BY DEF InOrder, LeafInOrder
  <2> QED BY <2>1, LeafMaxAssumption
<1>13. Strung(rank, d, s)
  BY <1>4, <1>6, <1>8, <1>9, <1>10, <1>11, <1>12 DEF Strung
<1> QED BY <1>4, <1>7, <1>13

LEMMA ChainInOrder ==
  ASSUME size \in Nat, NEW C \in SUBSET Pages(size), NEW low, InOrder(C, low, disk), NEW leaf \in C
  PROVE  \A q : q \in {Chain(leaf)[i] : i \in 0..size} \ {0} <=> q \in C /\ low[leaf] <= low[q]
<1> DEFINE rank == RankBy(C, low)
<1>1. /\ Strung(rank, disk, size) /\ DOMAIN rank = C
      /\ \A p, q \in C : rank[p] <= rank[q] <=> low[q] <= low[p]
  BY OrderIsStrung
<1> HIDE DEF rank
<1>2. /\ \A p \in C : rank[p] <= rank[leaf] => \E i \in 0..size : Chain(leaf)[i] = p
      /\ \A i \in 0..size : Chain(leaf)[i] # 0 => Chain(leaf)[i] \in C /\ rank[Chain(leaf)[i]] <= rank[leaf]
  BY <1>1, ChainRuns
<1>3. 0 \notin C
  BY DEF InOrder
<1> QED BY <1>1, <1>2, <1>3

\* Index's view of a cursor, of any pages.
ChainIn(d, s, leaf) ==
  LET pid[i \in 0..s] ==
        IF i = 0 THEN leaf ELSE IF pid[i - 1] = 0 THEN 0 ELSE d[pid[i - 1]].next
  IN  pid
AheadIn(d, s, c) ==
  IF c = NoCursor THEN {}
  ELSE {d[c.pid].ents[i] : i \in (c.eid + 1)..Len(d[c.pid].ents)}
         \cup (IF d[c.pid].next = 0 THEN {}
               ELSE UNION {Entries(d[p].ents) :
                             p \in {ChainIn(d, s, d[c.pid].next)[i] : i \in 0..s} \ {0}})

LEMMA AheadIs ==
  Ahead = AheadIn(disk, size, cursor) /\ Ahead' = AheadIn(disk', size', cursor')
<1>1. Ahead = AheadIn(disk, size, cursor)
  BY DEF Ahead, AheadIn, ChainEntries, Chain, ChainIn
<1>2. Ahead' = AheadIn(disk', size', cursor')
  BY DEF Ahead, AheadIn, ChainEntries, Chain, ChainIn
<1> QED BY <1>1, <1>2

\* Entry x is yet to be read.
Remains(C, low, d, c, x) ==
  \/ \E i \in 1..Len(d[c.pid].ents) : c.eid < i /\ x = d[c.pid].ents[i]
  \/ \E q \in C : low[c.pid] < low[q] /\ x \in Members(d[q].ents)

LEMMA AheadRemains ==
  ASSUME size \in Nat, NEW C \in SUBSET Pages(size), NEW low, InOrder(C, low, disk),
         NEW c \in [pid : C, eid : Nat]
  PROVE  \A x : x \in AheadIn(disk, size, c) <=> Remains(C, low, disk, c, x)
<1> DEFINE p    == c.pid
           leaf == disk[p]
           n    == leaf.next
<1>1. p \in C /\ c.eid \in Nat /\ c # NoCursor /\ 0 \notin C
  BY DEF InOrder, NoCursor
<1>2. leaf \in LeafNode(Entry, C \cup {0}) /\ LeafInOrder(C, low, disk, p)
  BY <1>1 DEF InOrder, LeafInOrder
<1>3. Len(leaf.ents) \in Nat /\ n \in C \cup {0}
  BY <1>2 DEF LeafNode
<1>4. \A q \in C : low[q] \in Int
  BY DEF InOrder, Lows
<1> HIDE DEF p, leaf, n
<1>5. \A x : x \in {leaf.ents[i] : i \in (c.eid + 1)..Len(leaf.ents)} <=>
             \E i \in 1..Len(leaf.ents) : c.eid < i /\ x = leaf.ents[i]
  BY <1>1, <1>3
<1> DEFINE rest == IF n = 0 THEN {}
                   ELSE UNION {Entries(disk[q].ents) : q \in {ChainIn(disk, size, n)[i] : i \in 0..size} \ {0}}
<1>6. \A x : x \in rest <=> \E q \in C : low[p] < low[q] /\ x \in Members(disk[q].ents)
  <2>1. CASE n = 0
    <3>1. \A q \in C : low[q] <= low[p]
      BY <1>2, <2>1 DEF LeafInOrder, n, leaf
    <3> QED BY <1>1, <1>4, <2>1, <3>1
  <2>2. CASE n # 0
    <3>1. n \in C /\ low[p] < low[n] /\ \A q \in C : low[p] < low[q] => low[n] <= low[q]
      BY <1>2, <1>3, <2>2 DEF LeafInOrder, n, leaf
    <3>2. \A q : q \in {Chain(n)[i] : i \in 0..size} \ {0} <=> q \in C /\ low[n] <= low[q]
      BY <3>1, ChainInOrder
    <3>3. ChainIn(disk, size, n) = Chain(n)
      BY DEF ChainIn, Chain
    <3>4. \A q \in C : low[p] < low[q] <=> low[n] <= low[q]
      BY <1>1, <1>4, <3>1
    <3> DEFINE on == {ChainIn(disk, size, n)[i] : i \in 0..size} \ {0}
    <3>5. \A q : q \in on <=> q \in C /\ low[p] < low[q]
      BY <3>2, <3>3, <3>4
    <3> HIDE DEF on
    <3>6. \A x : x \in UNION {Entries(disk[q].ents) : q \in on} <=> \E q \in on : x \in Members(disk[q].ents)
      BY DEF Entries, Members
    <3>7. rest = UNION {Entries(disk[q].ents) : q \in on}
      BY <2>2 DEF on
    <3> QED BY <3>5, <3>6, <3>7
  <2> QED BY <2>1, <2>2
<1>7. AheadIn(disk, size, c) = {leaf.ents[i] : i \in (c.eid + 1)..Len(leaf.ents)} \cup rest
  BY <1>1 DEF AheadIn, p, leaf, n
<1> HIDE DEF rest
<1> QED BY <1>5, <1>6, <1>7 DEF Remains, p, leaf


-----------------------------------------------------------------------------
(* The invariant: some leaves C, in an order low, hold what was inserted,  *)
(* and the tree leads to them.                                             *)

Content(C, d, S) ==
  /\ \A p \in C : \A x \in Members(d[p].ents) : x \in S
  /\ \A x \in S : \E p \in C : x \in Members(d[p].ents)

\* A tree of height 1 is a leaf, one of height 2 a node above leaves.  It leads to
\* the leaves D of C.
LeadsTo(low, d, s, root, height, C, D) ==
  /\ height \in 0..2
  /\ height = 0 => C = {}
  /\ height = 1 => D = {root} /\ low[root] = IntMin
  /\ height = 2 => root \in Pages(s) /\ root \notin C /\ Fits(low, d[root], D)

Base(C, low, d, s, root, height, D, S) ==
  /\ C \in SUBSET Pages(s) /\ InOrder(C, low, d) /\ Content(C, d, S)
  /\ s = 0 => C = {}
  /\ s > 0 => LeadsTo(low, d, s, root, height, C, D)

\* What an insert keeps of the node above the leaf.
HeldIs(c, o, d) ==
  /\ Len(c.held) = o.height - 1
  /\ o.height = 2 => c.held[1] = [pid |-> o.root, node |-> d[o.root]]

\* An operation is on its way to the leaf its key is sent to.
Stage(C, low, d, c, o, S) ==
  /\ c.pc \in {"first", "down", "left"} => NewKey(S, c.entry)
  /\ c.pc = "down" =>
       \/ c.held = <<>> /\ c.at = o.root
       \/ HeldIs(c, o, d) /\ o.height = 2 /\ c.at \in C /\ Covers(C, low, c.at, c.entry.key)
  /\ c.pc = "left" =>
       HeldIs(c, o, d) /\ Severed(C, low, d, c) /\ (o.height = 2 => c.over.pid # o.root)
  /\ c.pc = "up" => HeldIs(c, o, d) /\ c.over.pid \in C /\ low[c.over.pid] = c.over.key
  /\ c.pc = "seek" =>
       \/ c.level = 1 /\ c.at = o.root
       \/ c.level = 2 /\ o.height = 2 /\ c.at \in C /\ Covers(C, low, c.at, c.key)

Missed(o) == o.call = "locate" /\ o.rc # "OK"
Session ==
  /\ obj.mode = "r" =>
       acked = saved /\ obj.root = disk[0].root /\ obj.height = disk[0].height
  /\ obj.mode = "none" \/ op.pc # "idle" => cursor = NoCursor
CursorFits(C, d, c, o) ==
  c # NoCursor => c \in [pid : C, eid : Nat] /\ (c.eid < Len(d[c.pid].ents) \/ Missed(o))

\* The sibling of a split leaf is on the chain before the node above leads to it.
Led(C) == IF op.pc = "up" THEN C \ {op.over.pid} ELSE C
AllEntries == IF op.pc = "up" THEN acked \cup {op.entry} ELSE acked

Sorted(C, low) ==
  /\ Base(C, low, disk, size, Tree.root, Tree.height, Led(C), AllEntries)
  /\ Stage(C, low, disk, op, obj, acked)
  /\ Session
  /\ CursorFits(C, disk, cursor, out)

LEMMA InitSorted == Init => \E C, low : Sorted(C, low)
<1> SUFFICES ASSUME Init PROVE \E C, low : Sorted(C, low)
  OBVIOUS
<1> DEFINE low == [p \in {} |-> 0]
<1>1. /\ size = 0 /\ op.pc = "idle" /\ cursor = NoCursor /\ obj.mode = "none" /\ acked = {}
  BY DEF Init, Idle, Fresh
<1>2. InOrder({}, low, disk)
  BY DEF InOrder, Lows
<1>3. Base({}, low, disk, size, Tree.root, Tree.height, Led({}), AllEntries)
  BY <1>1, <1>2 DEF Base, Content, AllEntries
<1>4. Stage({}, low, disk, op, obj, acked) /\ Session /\ CursorFits({}, disk, cursor, out)
  BY <1>1 DEF Stage, Session, CursorFits
<1> QED BY <1>3, <1>4 DEF Sorted

\* The pages and the entries are as they were, and so is the tree.
LEMMA BaseStays ==
  ASSUME NEW C, NEW low, Sorted(C, low), op.pc # "up", op'.pc # "up",
         UNCHANGED <<disk, size>>, acked' = acked, Tree'.height = Tree.height,
         Tree.height > 0 => Tree'.root = Tree.root
  PROVE  Base(C, low, disk', size', Tree'.root, Tree'.height, Led(C)', AllEntries')
<1>1. Led(C) = C /\ Led(C)' = C /\ AllEntries = acked /\ AllEntries' = acked
  BY DEF Led, AllEntries
<1>2. Base(C, low, disk, size, Tree.root, Tree.height, C, acked)
  BY <1>1 DEF Sorted
<1>3. size > 0 => LeadsTo(low, disk, size, Tree.root, Tree.height, C, C)
  BY <1>2 DEF Base
<1>4. size > 0 => LeadsTo(low, disk, size, Tree'.root, Tree.height, C, C)
  BY <1>3 DEF LeadsTo
<1>5. Base(C, low, disk, size, Tree'.root, Tree.height, C, acked)
  BY <1>2, <1>4 DEF Base
<1> QED BY <1>1, <1>5

LEMMA OpensSorted ==
  ASSUME NEW C, NEW low, Sorted(C, low), Typed, Books, OpenNew \/ Open("r") \/ Open("w")
  PROVE  Sorted(C, low)'
<1>1. /\ obj.mode = "none" /\ acked = saved /\ op.pc = "idle" /\ op' = op /\ acked' = acked /\ saved' = saved
      /\ cursor = NoCursor /\ cursor' = NoCursor
  BY DEF OpenNew, Open, Books, Sorted, Session
<1>2. Stage(C, low, disk', op', obj', acked') /\ CursorFits(C, disk', cursor', out')
  BY <1>1 DEF Stage, CursorFits
<1>3. Led(C) = C /\ Led(C)' = C /\ AllEntries = acked /\ AllEntries' = acked
  BY <1>1 DEF Led, AllEntries
<1>4. CASE OpenNew
  <2>1. size = 0
    BY <1>4 DEF OpenNew
  <2>2. CASE UNCHANGED <<disk, size, obj>>
    <3>1. Tree' = Tree
      BY <2>2 DEF Tree, OnDisk
    <3>2. Base(C, low, disk', size', Tree'.root, Tree'.height, Led(C)', AllEntries')
      BY <1>1, <2>2, <3>1, BaseStays
    <3>3. Session'
      BY <1>1, <2>2 DEF Session
    <3> QED BY <1>2, <3>2, <3>3 DEF Sorted
  <2>3. CASE WritePage(0, Header(Fresh)) /\ obj' = [Fresh EXCEPT !.mode = "w"]
    <3>1. size' = 1
      BY <2>1, <2>3 DEF WritePage
    <3>2. obj'.mode = "w" /\ obj'.height = 0
      BY <2>3 DEF Fresh
    <3>3. Tree'.height = 0
      BY <3>2 DEF Tree
    <3>4. C = {} /\ InOrder(C, low, disk) /\ Content(C, disk, acked)
      BY <1>3, <2>1 DEF Sorted, Base
    <3>5. InOrder(C, low, disk') /\ Content(C, disk', acked)
      BY <3>4 DEF InOrder, Content
    <3>6. LeadsTo(low, disk', size', Tree'.root, Tree'.height, C, C)
      BY <3>3, <3>4 DEF LeadsTo
    <3>7. Base(C, low, disk', size', Tree'.root, Tree'.height, Led(C)', AllEntries')
      BY <1>3, <3>1, <3>4, <3>5, <3>6 DEF Base
    <3>8. Session'
      BY <1>1, <3>2 DEF Session
    <3> QED BY <1>2, <3>7, <3>8 DEF Sorted
  <2> QED BY <1>4, <2>2, <2>3 DEF OpenNew
<1>5. CASE Open("r") \/ Open("w")
  <2>1. /\ UNCHANGED <<disk, size>> /\ obj'.root = disk[0].root /\ obj'.height = disk[0].height
        /\ obj'.mode \in {"r", "w"}
    BY <1>5 DEF Open
  <2>2. Tree'.root = Tree.root /\ Tree'.height = Tree.height
    BY <1>1, <2>1 DEF Tree, OnDisk
  <2>3. Base(C, low, disk', size', Tree'.root, Tree'.height, Led(C)', AllEntries')
    BY <1>1, <2>1, <2>2, BaseStays
  <2>4. Session'
    BY <1>1, <2>1 DEF Session
  <2> QED BY <1>2, <2>3, <2>4 DEF Sorted
<1> QED BY <1>4, <1>5

\* Pages outside C may be written.
LEMMA BaseElsewhere ==
  ASSUME NEW C, NEW low, NEW d, NEW s \in Nat, NEW root, NEW height, NEW D, NEW S,
         Base(C, low, d, s, root, height, D, S), s > 0,
         NEW e, NEW t \in Nat, s <= t, \A p \in C : e[p] = d[p], height = 2 => e[root] = d[root]
  PROVE  Base(C, low, e, t, root, height, D, S)
<1>1. C \in SUBSET Pages(s) /\ Pages(s) \subseteq Pages(t)
  BY DEF Base, Pages
<1>2. InOrder(C, low, e)
  BY SameLeaves DEF Base
<1>3. Content(C, e, S)
  BY DEF Base, Content
<1>4. LeadsTo(low, d, s, root, height, C, D)
  BY DEF Base
<1>5. LeadsTo(low, e, t, root, height, C, D)
  BY <1>1, <1>4 DEF LeadsTo
<1> QED BY <1>1, <1>2, <1>3, <1>5 DEF Base

LEMMA CloseSorted ==
  ASSUME NEW C, NEW low, Sorted(C, low), Typed, Close
  PROVE  Sorted(C, low)'
<1>1. /\ obj.mode = "w" /\ op.pc = "idle" /\ op' = op /\ acked' = acked
      /\ WritePage(0, Header(obj)) /\ obj'.mode = "none" /\ cursor' = NoCursor
  BY DEF Close, Fresh, Idle
<1>2. size \in Nat /\ size > 0
  BY <1>1 DEF Typed
<1>3. /\ size' \in Nat /\ size' = size /\ \A p \in Pages(size) : disk'[p] = disk[p]
      /\ disk'[0] = Header(obj)
  BY <1>1, <1>2, Wrote DEF Pages
<1>4. Tree.root = obj.root /\ Tree.height = obj.height
  BY <1>1 DEF Tree
<1>5. Tree'.root = obj.root /\ Tree'.height = obj.height
  BY <1>1, <1>3 DEF Tree, OnDisk, Header
<1>6. Led(C) = C /\ Led(C)' = C /\ AllEntries = acked /\ AllEntries' = acked
  BY <1>1 DEF Led, AllEntries
<1>7. Base(C, low, disk, size, obj.root, obj.height, C, acked)
  BY <1>4, <1>6 DEF Sorted
<1>8. /\ \A p \in C : disk'[p] = disk[p]
      /\ obj.height = 2 => disk'[obj.root] = disk[obj.root]
  BY <1>2, <1>3, <1>7 DEF Base, LeadsTo
<1>9. Base(C, low, disk', size', obj.root, obj.height, C, acked)
  BY <1>2, <1>3, <1>7, <1>8, BaseElsewhere
<1>10. Stage(C, low, disk', op', obj', acked') /\ CursorFits(C, disk', cursor', out') /\ Session'
  BY <1>1 DEF Stage, CursorFits, Session
<1> QED BY <1>5, <1>6, <1>9, <1>10 DEF Sorted

LEMMA EndsSorted ==
  ASSUME NEW C, NEW low, Sorted(C, low), Typed, Books,
         CloseFails \/ (Abandon /\ obj.mode = "r")
  PROVE  Sorted(C, low)'
<1>1. UNCHANGED <<disk, size>> /\ cursor' = NoCursor
  BY DEF CloseFails, Abandon
<1>2. CursorFits(C, disk', cursor', out')
  BY <1>1 DEF CursorFits
<1>3. CASE CloseFails
  <2>1. op.pc = "idle" /\ op' = op /\ UNCHANGED <<obj, acked, saved>>
    BY <1>3 DEF CloseFails, Idle
  <2>2. Tree' = Tree
    BY <1>1, <2>1 DEF Tree, OnDisk
  <2>3. Base(C, low, disk', size', Tree'.root, Tree'.height, Led(C)', AllEntries')
    BY <1>1, <2>1, <2>2, BaseStays
  <2>4. Stage(C, low, disk', op', obj', acked')
    BY <2>1 DEF Stage
  <2>5. Session'
    BY <1>1, <2>1 DEF Sorted, Session
  <2> QED BY <1>2, <2>3, <2>4, <2>5 DEF Sorted
<1>4. CASE Abandon /\ obj.mode = "r"
  <2>1. op'.pc = "idle" /\ obj'.mode = "none" /\ acked' = saved
    BY <1>4 DEF Abandon, Idle, Fresh
  <2>2. acked = saved /\ obj.root = disk[0].root /\ obj.height = disk[0].height
    BY <1>4 DEF Sorted, Session
  <2>3. op.pc # "up"
    BY <1>4 DEF Typed, Inserting
  <2>4. Tree'.root = Tree.root /\ Tree'.height = Tree.height
    BY <1>1, <1>4, <2>1, <2>2 DEF Tree, OnDisk
  <2>5. Base(C, low, disk', size', Tree'.root, Tree'.height, Led(C)', AllEntries')
    BY <1>1, <2>1, <2>2, <2>3, <2>4, BaseStays
  <2>6. Stage(C, low, disk', op', obj', acked') /\ Session'
    BY <1>1, <2>1 DEF Stage, Session
  <2> QED BY <1>2, <2>5, <2>6 DEF Sorted
<1> QED BY <1>3, <1>4


-----------------------------------------------------------------------------
(* Searches.                                                               *)

\* The leaf at the root of a tree of height 1 is sent all keys.
LEMMA RootCovers ==
  ASSUME NEW C, NEW low, NEW d, NEW s, NEW root, NEW S, s > 0, Base(C, low, d, s, root, 1, C, S),
         NEW k \in Key
  PROVE  root \in C /\ Covers(C, low, root, k)
<1>1. C = {root} /\ low[root] = IntMin
  BY DEF Base, LeadsTo
<1>2. IntMin <= k /\ IntMin \in Int
  BY KeyAssumption
<1> QED BY <1>1, <1>2 DEF Covers

\* The node at the root of a tree of height 2 sends a key to the leaf that covers it.
LEMMA NodeCovers ==
  ASSUME NEW C, NEW low, NEW d, NEW s, NEW root, NEW S, s > 0, Base(C, low, d, s, root, 2, C, S),
         NEW k \in Key
  PROVE  ChildPtr(d[root], k) \in C /\ Covers(C, low, ChildPtr(d[root], k), k)
<1>1. Lows(C, low) /\ Fits(low, d[root], C)
  BY DEF Base, LeadsTo, InOrder
<1>2. IntMin <= k /\ k \in Int
  BY KeyAssumption
<1> QED BY <1>1, <1>2, FitsRoutes

\* What Sorted says of a tree that is in use and not about to grow.
LEMMA InUse ==
  ASSUME NEW C, NEW low, Sorted(C, low), Typed, obj.mode # "none", op.pc # "up"
  PROVE  /\ Led(C) = C /\ AllEntries = acked
         /\ Tree.root = obj.root /\ Tree.height = obj.height
         /\ Base(C, low, disk, size, obj.root, obj.height, C, acked)
         /\ size > 0 /\ obj.height \in 0..2
         /\ LeadsTo(low, disk, size, obj.root, obj.height, C, C)
<1>1. Led(C) = C /\ AllEntries = acked /\ Tree.root = obj.root /\ Tree.height = obj.height
  BY DEF Led, AllEntries, Tree
<1>2. Base(C, low, disk, size, obj.root, obj.height, C, acked)
  BY <1>1 DEF Sorted
<1>3. size > 0
  BY DEF Typed
<1> QED BY <1>1, <1>2, <1>3 DEF Base, LeadsTo

\* Where a search stands when it is at its leaf.
LEMMA SeekAtLeaf ==
  ASSUME NEW C, NEW low, Sorted(C, low), Typed, obj.mode # "none", op.pc = "seek",
         op \in [pc : {"seek"}, key : Key, at : Pages(size), level : Nat],
         op.level = obj.height
  PROVE  op.at \in C /\ Covers(C, low, op.at, op.key)
<1>1. Base(C, low, disk, size, obj.root, obj.height, C, acked) /\ size > 0
  BY InUse
<1>2. \/ op.level = 1 /\ op.at = obj.root
      \/ op.at \in C /\ Covers(C, low, op.at, op.key)
  BY DEF Sorted, Stage
<1>3. op.key \in Key
  OBVIOUS
<1> QED BY <1>1, <1>2, <1>3, RootCovers

LEMMA SeekTyped ==
  ASSUME IInv, op.pc = "seek"
  PROVE  /\ op \in [pc : {"seek"}, key : Key, at : Pages(size), level : Nat]
         /\ op.level \in 1..obj.height /\ obj.mode # "none"
<1>1. PICK lvl \in Levels(size) : Levelled(lvl)
  BY DEF IInv
<1>2. DOMAIN lvl = Pages(size)
  BY <1>1 DEF Levels, Pages
<1>3. /\ op \in [pc : {"seek"}, key : Key, at : Pages(size), level : Nat]
      /\ op.level \in 1..obj.height
  BY <1>1, <1>2 DEF Levelled, Operation
<1>4. obj.mode # "none"
  BY DEF IInv, Books
<1> QED BY <1>3, <1>4

LEMMA SearchesSorted ==
  ASSUME NEW C, NEW low, Sorted(C, low), Typed, IInv,
         (\E k \in Key : LocateCall(k)) \/ SeekDown \/ SeekLeaf \/ ReadForward
  PROVE  Sorted(C, low)'
<1>1. UNCHANGED <<disk, size, obj, acked, saved>> /\ op.pc \in {"idle", "seek"} /\ op'.pc \in {"idle", "seek"}
  <2>1. UNCHANGED <<disk, size, obj, acked, saved>>
    BY DEF LocateCall, SeekDown, SeekLeaf, ReadForward
  <2>2. op.pc \in {"idle", "seek"}
    BY DEF LocateCall, SeekDown, SeekLeaf, ReadForward, Idle
  <2>3. CASE SeekDown
    <3>1. op.pc = "seek" /\ op' = [op EXCEPT !.at = ChildPtr(disk[op.at], op.key), !.level = @ + 1]
      BY <2>3 DEF SeekDown
    <3>2. op \in [pc : {"seek"}, key : Key, at : Pages(size), level : Nat]
      BY <3>1, SeekTyped
    <3>3. op'.pc = "seek"
      BY <3>1, <3>2
    <3> QED BY <2>1, <2>2, <3>3
  <2>4. CASE (\E k \in Key : LocateCall(k)) \/ SeekLeaf \/ ReadForward
    <3>1. op'.pc \in {"idle", "seek"}
      BY <2>2, <2>4 DEF LocateCall, SeekLeaf, ReadForward, Idle
    <3> QED BY <2>1, <2>2, <3>1
  <2> QED BY <2>3, <2>4
<1>2. Tree' = Tree
  BY <1>1 DEF Tree, OnDisk
<1>3. Base(C, low, disk', size', Tree'.root, Tree'.height, Led(C)', AllEntries')
  BY <1>1, <1>2, BaseStays
<1>4. InOrder(C, low, disk) /\ 0 \notin C
  BY DEF Sorted, Base, InOrder
<1>5. CASE \E k \in Key : LocateCall(k)
  <2>1. PICK k \in Key : LocateCall(k)
    BY <1>5
  <2>2. cursor' = NoCursor
    BY <2>1 DEF LocateCall
  <2>3. Stage(C, low, disk', op', obj', acked')
    BY <1>1, <2>1 DEF LocateCall, Stage, Idle
  <2>4. Session' /\ CursorFits(C, disk', cursor', out')
    <3>1. obj.mode # "none"
      BY <2>1 DEF LocateCall
    <3>2. Session'
      BY <1>1, <2>2, <3>1 DEF Session, Sorted
    <3> QED BY <2>2, <3>2 DEF CursorFits
  <2> QED BY <1>3, <2>3, <2>4 DEF Sorted
<1>6. CASE SeekDown
  <2>1. op.pc = "seek" /\ op.level # obj.height /\ UNCHANGED <<cursor, out>>
    BY <1>6 DEF SeekDown
  <2>2. /\ op \in [pc : {"seek"}, key : Key, at : Pages(size), level : Nat]
        /\ op.level \in 1..obj.height /\ obj.mode # "none"
    BY <2>1, SeekTyped
  <2>3. /\ Base(C, low, disk, size, obj.root, obj.height, C, acked) /\ size > 0 /\ obj.height \in 0..2
    BY <2>1, <2>2, InUse
  <2>4. op.level = 1 /\ obj.height = 2
    BY <2>1, <2>2, <2>3
  <2>5. op.at = obj.root
    BY <2>1, <2>4 DEF Sorted, Stage
  <2>6. op'.pc = "seek" /\ op'.key = op.key /\ op'.level = 2 /\ op'.at = ChildPtr(disk[obj.root], op.key)
    BY <1>6, <2>2, <2>4, <2>5 DEF SeekDown
  <2>7. op'.at \in C /\ Covers(C, low, op'.at, op'.key)
    BY <2>2, <2>3, <2>4, <2>6, NodeCovers
  <2>8. Stage(C, low, disk', op', obj', acked')
    BY <1>1, <2>4, <2>6, <2>7 DEF Stage
  <2>9. cursor = NoCursor
    BY <2>1 DEF Sorted, Session
  <2>10. Session' /\ CursorFits(C, disk', cursor', out')
    BY <1>1, <2>1, <2>9 DEF Sorted, Session, CursorFits
  <2> QED BY <1>3, <2>8, <2>10 DEF Sorted
<1>7. CASE SeekLeaf
  <2>1. op.pc = "seek" /\ op.level = obj.height /\ op' = Idle
    BY <1>7 DEF SeekLeaf
  <2>2. /\ op \in [pc : {"seek"}, key : Key, at : Pages(size), level : Nat]
        /\ op.level \in 1..obj.height /\ obj.mode # "none"
    BY <2>1, SeekTyped
  <2>3. op.at \in C
    BY <2>1, <2>2, SeekAtLeaf
  <2>4. /\ cursor' = [pid |-> op.at, eid |-> Locate(disk[op.at].ents, op.key) - 1]
        /\ out' = Reply("locate", IF Holds(disk[op.at].ents, op.key) THEN "OK" ELSE "RC_NO_SUCH_RECORD")
    BY <1>7 DEF SeekLeaf
  <2>5. disk[op.at].ents \in Seq(Entry) /\ op.key \in Int
    <3>1. disk[op.at].ents \in Seq(Entry)
      BY <1>4, <2>3, LeafEntries
    <3>2. op.key \in Key
      BY <2>2
    <3>3. op.key \in Int
      BY <3>2, EntryKeyed
    <3> QED BY <3>1, <3>3
  <2>6. /\ Locate(disk[op.at].ents, op.key) \in 1..(Len(disk[op.at].ents) + 1)
        /\ Locate(disk[op.at].ents, op.key) <= Len(disk[op.at].ents) =>
             disk[op.at].ents[Locate(disk[op.at].ents, op.key)].key >= op.key
        /\ \A i \in 1..Len(disk[op.at].ents) :
             i < Locate(disk[op.at].ents, op.key) => disk[op.at].ents[i].key < op.key
    BY <2>5, EntryKeyed, LocateRange
  <2> DEFINE ents == disk[op.at].ents
             at   == Locate(ents, op.key)
  <2>7. at \in 1..(Len(ents) + 1) /\ \A i \in 1..Len(ents) : i < at => ents[i].key < op.key
    BY <2>6
  <2>8. cursor'.pid = op.at /\ cursor'.eid = at - 1 /\ cursor' \in [pid : C, eid : Nat]
    BY <2>3, <2>4, <2>7
  <2>9. at - 1 < Len(ents) \/ ~Holds(ents, op.key)
    <3> SUFFICES ASSUME ~(at - 1 < Len(ents)), Holds(ents, op.key) PROVE FALSE
      OBVIOUS
    <3>0. Len(ents) \in Nat /\ at \in 1..(Len(ents) + 1)
      BY <2>5, <2>7
    <3> HIDE DEF at, ents
    <3>1. at = Len(ents) + 1
      BY <3>0
    <3>2. PICK i \in 1..Len(ents) : ents[i].key = op.key
      BY DEF Holds
    <3>3. ents[i].key < op.key /\ op.key \in Int
      BY <2>5, <2>7, <3>0, <3>1
    <3> QED BY <3>2, <3>3
  <2>10. CursorFits(C, disk', cursor', out')
    BY <1>1, <2>4, <2>8, <2>9 DEF CursorFits, Missed, Reply
  <2>11. Stage(C, low, disk', op', obj', acked') /\ Session'
    BY <1>1, <2>1, <2>2 DEF Stage, Idle, Sorted, Session
  <2> QED BY <1>3, <2>10, <2>11 DEF Sorted
<1>8. CASE ReadForward
  <2>1. cursor # NoCursor /\ op = Idle /\ op' = op /\ cursor' = Advanced(cursor, disk[cursor.pid])
    BY <1>8 DEF ReadForward
  <2>2. cursor \in [pid : C, eid : Nat]
    BY <2>1 DEF Sorted, CursorFits
  <2>3. /\ cursor.pid \in C /\ LeafInOrder(C, low, disk, cursor.pid)
        /\ \A p \in C : LeafInOrder(C, low, disk, p)
    BY <1>4, <2>2 DEF InOrder
  <2>4. CursorFits(C, disk', cursor', out')
    <3>1. CASE cursor.eid + 1 < Len(disk[cursor.pid].ents)
      <4>1. cursor' = [cursor EXCEPT !.eid = @ + 1]
        BY <2>1, <3>1 DEF Advanced
      <4>2. cursor'.pid = cursor.pid /\ cursor'.eid = cursor.eid + 1 /\ cursor' \in [pid : C, eid : Nat]
        BY <2>2, <4>1
      <4> QED BY <1>1, <3>1, <4>2 DEF CursorFits
    <3>2. CASE ~(cursor.eid + 1 < Len(disk[cursor.pid].ents))
      <4>1. cursor' = [pid |-> disk[cursor.pid].next, eid |-> 0]
        BY <2>1, <3>2 DEF Advanced
      <4>2. disk[cursor.pid].next \in C \cup {0}
        BY <2>3 DEF LeafInOrder, LeafNode
      <4>3. CASE disk[cursor.pid].next = 0
        BY <4>1, <4>3 DEF CursorFits, NoCursor
      <4>4. CASE disk[cursor.pid].next \in C
        <5>1. cursor'.pid \in C /\ cursor'.eid = 0 /\ cursor' \in [pid : C, eid : Nat]
          BY <4>1, <4>4
        <5>2. Len(disk[cursor'.pid].ents) \in 1..LeafMax
          BY <2>3, <5>1 DEF LeafInOrder
        <5>3. cursor'.eid < Len(disk[cursor'.pid].ents)
          BY <5>1, <5>2, LeafMaxAssumption
        <5> QED BY <1>1, <5>1, <5>3 DEF CursorFits
      <4> QED BY <4>2, <4>3, <4>4
    <3> QED BY <3>1, <3>2
  <2>5. obj.mode # "none"
    BY <2>1 DEF Sorted, Session
  <2>6. Stage(C, low, disk', op', obj', acked') /\ Session'
    BY <1>1, <2>1, <2>5 DEF Stage, Idle, Sorted, Session
  <2> QED BY <1>3, <2>4, <2>6 DEF Sorted
<1> QED BY <1>5, <1>6, <1>7, <1>8


-----------------------------------------------------------------------------
(* Inserts.                                                                *)

LEMMA InsertCallSorted ==
  ASSUME NEW C, NEW low, Sorted(C, low), Typed, NEW e \in Entry, InsertCall(e), NewKey(acked, e)
  PROVE  Sorted(C, low)'
<1>1. /\ UNCHANGED <<disk, size, acked, saved>> /\ obj.height \in Nat /\ op.pc = "idle"
      /\ obj.mode = "w" /\ cursor' = NoCursor
  BY DEF InsertCall, Typed, ObjType, Idle
<1>2. obj'.height = obj.height /\ obj'.mode = obj.mode /\ (obj.height # 0 => obj'.root = obj.root)
  <2> DEFINE w == Widened(obj, e.key)
  <2>1. obj \in ObjType /\ e.key \in Key
    BY EntryKeyed DEF Typed
  <2>2. w \in ObjType /\ w.height = obj.height /\ w.mode = obj.mode /\ w.root = obj.root
    BY <2>1 DEF Widened, ObjType, Bound
  <2>3. obj' = [w EXCEPT !.root = IF obj.height = 0 THEN size ELSE @]
    BY DEF InsertCall
  <2> HIDE DEF w
  <2> QED BY <2>2, <2>3 DEF ObjType
<1>3. op'.pc \in {"first", "down"} /\ op'.entry = e
      /\ (op'.pc = "down" => op'.held = <<>> /\ op'.at = obj.root /\ obj.height # 0)
  BY DEF InsertCall
<1>4. Tree'.height = Tree.height /\ (Tree.height > 0 => Tree'.root = Tree.root)
  BY <1>1, <1>2 DEF Tree
<1>5. Base(C, low, disk', size', Tree'.root, Tree'.height, Led(C)', AllEntries')
  BY <1>1, <1>3, <1>4, BaseStays
<1>6. Stage(C, low, disk', op', obj', acked')
  BY <1>1, <1>2, <1>3 DEF Stage
<1>7. Session' /\ CursorFits(C, disk', cursor', out')
  BY <1>1, <1>2 DEF Session, CursorFits
<1> QED BY <1>5, <1>6, <1>7 DEF Sorted

LEMMA DescendSorted ==
  ASSUME NEW C, NEW low, Sorted(C, low), Typed, Descend
  PROVE  Sorted(C, low)'
<1>1. /\ op.pc = "down" /\ ~AtLeaf /\ UNCHANGED <<disk, size, obj, cursor, out, acked, saved>>
      /\ op' = [op EXCEPT !.at   = ChildPtr(disk[op.at], op.entry.key),
                          !.held = Append(@, [pid |-> op.at, node |-> disk[op.at]])]
  BY DEF Descend
<1>2. /\ op \in [pc : {"down"}, entry : Entry, at : Pages(size), held : Seq(HeldPage)]
      /\ obj.mode = "w" /\ obj.height \in Nat /\ obj.height > 0
  BY <1>1 DEF Typed, Inserting, ObjType
<1>3. Base(C, low, disk, size, obj.root, obj.height, C, acked) /\ size > 0 /\ obj.height \in 0..2
  BY <1>1, <1>2, InUse
<1>4. op.held = <<>> /\ op.at = obj.root
  <2>1. HeldIs(op, obj, disk) => AtLeaf
    BY <1>2 DEF HeldIs, AtLeaf
  <2> QED BY <1>1, <2>1 DEF Sorted, Stage
<1>5. obj.height = 2
  <2>1. Len(op.held) = 0
    BY <1>4
  <2> QED BY <1>1, <1>2, <1>3, <2>1 DEF AtLeaf
<1>6. /\ op'.pc = "down" /\ op'.entry = op.entry /\ op'.at = ChildPtr(disk[obj.root], op.entry.key)
      /\ op'.held = Append(<<>>, [pid |-> obj.root, node |-> disk[obj.root]])
  BY <1>1, <1>2, <1>4
<1>7. HeldIs(op', obj', disk')
  <2>1. Len(op'.held) = 1 /\ op'.held[1] = [pid |-> obj.root, node |-> disk[obj.root]]
    BY <1>6
  <2> QED BY <1>1, <1>5, <2>1 DEF HeldIs
<1>8. op'.at \in C /\ Covers(C, low, op'.at, op'.entry.key)
  <2>1. op.entry.key \in Key
    BY <1>2, EntryKeyed
  <2> QED BY <1>3, <1>5, <1>6, <2>1, NodeCovers
<1>9. Stage(C, low, disk', op', obj', acked')
  <2>1. NewKey(acked, op.entry)
    BY <1>1 DEF Sorted, Stage
  <2> QED BY <1>1, <1>5, <1>6, <1>7, <1>8, <2>1 DEF Stage
<1>10. Tree' = Tree
  BY <1>1 DEF Tree, OnDisk
<1>11. Base(C, low, disk', size', Tree'.root, Tree'.height, Led(C)', AllEntries')
  BY <1>1, <1>6, <1>10, BaseStays
<1>12. Session' /\ CursorFits(C, disk', cursor', out')
  <2>1. cursor' = NoCursor /\ obj'.mode = "w"
    BY <1>1, <1>2 DEF Sorted, Session
  <2> QED BY <2>1 DEF Session, CursorFits
<1> QED BY <1>9, <1>11, <1>12 DEF Sorted

\* An insert has returned.
LEMMA ReturnSorted ==
  ASSUME NEW C, NEW low, op' = Idle, cursor' = NoCursor, obj'.mode = "w",
         Base(C, low, disk', size', obj'.root, obj'.height, C, acked')
  PROVE  Sorted(C, low)'
<1>1. Led(C)' = C /\ AllEntries' = acked' /\ Tree' = [root |-> obj'.root, height |-> obj'.height]
  BY DEF Led, AllEntries, Tree, Idle
<1>2. Stage(C, low, disk', op', obj', acked') /\ Session' /\ CursorFits(C, disk', cursor', out')
  BY DEF Stage, Session, CursorFits, Idle
<1> QED BY <1>1, <1>2 DEF Sorted

\* Where an insert stands when it is at its leaf.
LEMMA InsertAtLeaf ==
  ASSUME NEW C, NEW low, Sorted(C, low), Typed, op.pc = "down", AtLeaf
  PROVE  /\ op.at \in C /\ op.entry \in Entry /\ op.entry.key \in Key
         /\ Covers(C, low, op.at, op.entry.key)
         /\ HeldIs(op, obj, disk) /\ obj.height \in {1, 2} /\ obj.mode = "w"
         /\ Base(C, low, disk, size, obj.root, obj.height, C, acked) /\ size \in Nat /\ size > 0
         /\ LeadsTo(low, disk, size, obj.root, obj.height, C, C)
         /\ NewKey(acked, op.entry) /\ NewKey(Members(disk[op.at].ents), op.entry)
         /\ cursor = NoCursor
<1>1. /\ op \in [pc : {"down"}, entry : Entry, at : Pages(size), held : Seq(HeldPage)]
      /\ obj.mode = "w" /\ obj.height \in Nat /\ obj.height > 0 /\ size \in Nat
  BY DEF Typed, Inserting, ObjType
<1>2. /\ Base(C, low, disk, size, obj.root, obj.height, C, acked) /\ size > 0 /\ obj.height \in 0..2
      /\ LeadsTo(low, disk, size, obj.root, obj.height, C, C)
  BY <1>1, InUse
<1>3. op.entry \in Entry /\ op.entry.key \in Key
  BY <1>1, EntryKeyed
<1>4. NewKey(acked, op.entry) /\ cursor = NoCursor
  BY DEF Sorted, Stage, Session
<1>5. op.at \in C /\ Covers(C, low, op.at, op.entry.key) /\ HeldIs(op, obj, disk)
  <2>1. CASE op.held = <<>> /\ op.at = obj.root
    <3>1. Len(op.held) = 0
      BY <2>1
    <3>2. obj.height = 1
      BY <3>1 DEF AtLeaf
    <3>3. HeldIs(op, obj, disk)
      BY <3>1, <3>2 DEF HeldIs
    <3> QED BY <1>2, <1>3, <2>1, <3>2, <3>3, RootCovers
  <2>2. CASE ~(op.held = <<>> /\ op.at = obj.root)
    BY <2>2 DEF Sorted, Stage
  <2> QED BY <2>1, <2>2
<1>6. NewKey(Members(disk[op.at].ents), op.entry)
  BY <1>2, <1>4, <1>5 DEF Base, Content, NewKey
<1> QED BY <1>1, <1>2, <1>3, <1>4, <1>5, <1>6

LEMMA InsertedMembers ==
  \A ents \in Seq(Entry) : \A x \in Entry : Members(Insert(ents, x)) = Members(ents) \cup {x}
BY EntryKeyed, InsertMembers

LEMMA OnlyEntry ==
  ASSUME NEW e \in Entry
  PROVE  Members(Insert(<<>>, e)) = {e} /\ Len(Insert(<<>>, e)) = 1
<1> PICK none : none = <<>>
  OBVIOUS
<1>1. none \in Seq(Entry) /\ Members(none) = {} /\ Len(none) = 0
  BY DEF Members
<1>2. Members(Insert(none, e)) = Members(none) \cup {e}
  BY <1>1, InsertedMembers
<1>3. Len(Insert(none, e)) = Len(none) + 1
  BY <1>1, EntryKeyed, InsertType
<1> QED BY <1>1, <1>2, <1>3

LEMMA InsertFirstSorted ==
  ASSUME NEW C, NEW low, Sorted(C, low), Typed, InsertFirst
  PROVE  \E one, sole : Sorted(one, sole)'
<1> PICK s : s = size
  OBVIOUS
<1> PICK e : e = op.entry
  OBVIOUS
<1> DEFINE page == LeafInsert(EmptyLeaf, e)
           one  == {s}
           sole == [p \in {s} |-> IntMin]
<1>1. /\ op.pc = "first" /\ e \in Entry /\ obj.height = 0 /\ obj.root = s /\ obj.mode = "w"
      /\ size \in Nat /\ size > 0 /\ obj \in ObjType
  BY DEF InsertFirst, Typed, Inserting
<1>2. /\ WritePage(size, page) /\ obj' = [obj EXCEPT !.height = 1] /\ op' = Idle
      /\ acked' = acked \cup {e} /\ cursor' = cursor
  BY <1>1 DEF InsertFirst, Return
<1>3. size' = size + 1 /\ disk'[s] = page
  <2>1. size \in 0..size /\ size \in Pages(size + 1)
    BY <1>1 DEF Pages
  <2> QED BY <1>1, <1>2, <2>1, Wrote
<1>4. C = {} /\ acked = {}
  <2>1. Base(C, low, disk, size, obj.root, obj.height, C, acked)
        /\ LeadsTo(low, disk, size, obj.root, obj.height, C, C)
    BY <1>1, InUse
  <2> QED BY <1>1, <2>1 DEF Base, LeadsTo, Content
<1>5. page.ents = Insert(<<>>, e) /\ page.next = 0 /\ page \in LeafNode(Entry, {0})
  <2>1. EmptyLeaf \in LeafNode(Entry, {0})
    BY DEF EmptyLeaf, LeafNode
  <2>2. page \in LeafNode(Entry, {0})
    BY <1>1, <2>1, EntryKeyed, LeafInsertType
  <2> QED BY <2>2 DEF LeafInsert, EmptyLeaf, LeafNode
<1>6. Members(page.ents) = {e} /\ Len(page.ents) = 1
  <2>1. e \in Entry
    BY <1>1
  <2> QED BY <1>5, <2>1, OnlyEntry
<1> HIDE DEF page
<1>7. IntMin \in Int /\ e.key \in Int /\ IntMin <= e.key
  <2>1. e.key \in Key
    BY <1>1, EntryKeyed
  <2> QED BY <2>1, KeyBounds
<1>8. Lows(one, sole) /\ Covers(one, sole, s, e.key)
  BY <1>7 DEF Lows, Covers
<1>9. LeafInOrder(one, sole, disk', s)
  <2>1. page \in LeafNode(Entry, one \cup {0})
    BY <1>5 DEF LeafNode
  <2>2. Distinct(page.ents) /\ Len(page.ents) \in 1..LeafMax
    BY <1>6, LeafMaxAssumption DEF Distinct
  <2>3. \A q \in one : sole[q] <= sole[s]
    BY <1>7
  <2>4. \A x \in Members(page.ents) : Covers(one, sole, s, x.key)
    BY <1>6, <1>8
  <2> QED BY <1>3, <1>5, <2>1, <2>2, <2>3, <2>4 DEF LeafInOrder
<1>10. InOrder(one, sole, disk')
  BY <1>1, <1>8, <1>9 DEF InOrder
<1>11. Content(one, disk', acked')
  BY <1>2, <1>3, <1>4, <1>6 DEF Content
<1>12. obj'.root = s /\ obj'.height = 1 /\ obj'.mode = "w"
  BY <1>1, <1>2 DEF ObjType
<1>13. LeadsTo(sole, disk', size', obj'.root, obj'.height, one, one)
  BY <1>12 DEF LeadsTo
<1>14. one \in SUBSET Pages(size') /\ size' # 0
  BY <1>1, <1>3 DEF Pages
<1>15. Base(one, sole, disk', size', obj'.root, obj'.height, one, acked')
  BY <1>10, <1>11, <1>13, <1>14 DEF Base
<1>16. cursor' = NoCursor
  BY <1>1, <1>2 DEF Sorted, Session
<1> HIDE DEF one, sole
<1>17. Sorted(one, sole)'
  BY <1>2, <1>12, <1>15, <1>16, ReturnSorted
<1> QED BY <1>17 DEF one, sole

LEMMA InsertInLeafSorted ==
  ASSUME NEW C, NEW low, Sorted(C, low), Typed, InsertInLeaf
  PROVE  Sorted(C, low)'
<1>0. op.at \in C /\ op.entry \in Entry
  BY InsertAtLeaf DEF InsertInLeaf
<1> PICK a \in C : a = op.at
  BY <1>0
<1> PICK x \in Entry : x = op.entry
  BY <1>0
<1> PICK page : page = LeafInsert(disk[a], x)
  OBVIOUS
<1>1. /\ op.pc = "down" /\ AtLeaf /\ ~LeafFull(disk[a]) /\ WritePage(a, page) /\ op' = Idle
      /\ acked' = acked \cup {x} /\ UNCHANGED <<obj, cursor>>
  BY DEF InsertInLeaf, Return
<1>2. /\ a \in C /\ x \in Entry /\ Covers(C, low, a, x.key) /\ obj.mode = "w"
      /\ Base(C, low, disk, size, obj.root, obj.height, C, acked) /\ size \in Nat /\ size > 0
      /\ LeadsTo(low, disk, size, obj.root, obj.height, C, C)
      /\ NewKey(Members(disk[a].ents), x) /\ cursor = NoCursor
  BY <1>1, InsertAtLeaf
<1>3. C \in SUBSET Pages(size) /\ InOrder(C, low, disk) /\ Content(C, disk, acked)
  BY <1>2 DEF Base
<1>4. size' = size /\ \A p \in Pages(size) : disk'[p] = IF p = a THEN page ELSE disk[p]
  <2>1. a \in 0..size /\ a # size
    BY <1>2, <1>3 DEF Pages
  <2> QED BY <1>1, <1>2, <2>1, Wrote
<1>5. \A p \in C : disk'[p] = IF p = a THEN page ELSE disk[p]
  BY <1>3, <1>4
<1>6. /\ InOrder(C, low, disk')
      /\ \A y : y \in Members(disk'[a].ents) <=> y \in Members(disk[a].ents) \/ y = x
  <2>1. InOrder(C, low, disk) /\ a \in C /\ x \in Entry /\ ~LeafFull(disk[a])
        /\ Covers(C, low, a, x.key) /\ NewKey(Members(disk[a].ents), x)
    BY <1>1, <1>2, <1>3
  <2> QED BY <1>5, <2>1, LeafStored
<1>7. Content(C, disk', acked')
  <2>1. \A p \in C : \A y \in Members(disk'[p].ents) : y \in acked'
    BY <1>1, <1>3, <1>5, <1>6 DEF Content
  <2>2. \A y \in acked' : \E p \in C : y \in Members(disk'[p].ents)
    <3> SUFFICES ASSUME NEW y \in acked' PROVE \E p \in C : y \in Members(disk'[p].ents)
      OBVIOUS
    <3>1. CASE y = x
      BY <1>2, <1>6, <3>1
    <3>2. CASE y \in acked
      <4>1. PICK p \in C : y \in Members(disk[p].ents)
        BY <1>3, <3>2 DEF Content
      <4> QED BY <1>5, <1>6, <4>1
    <3> QED BY <1>1, <3>1, <3>2
  <2> QED BY <2>1, <2>2 DEF Content
<1>8. LeadsTo(low, disk', size', obj'.root, obj'.height, C, C)
  <2>1. obj.height = 2 => obj.root \in Pages(size) /\ obj.root # a
    BY <1>2 DEF LeadsTo
  <2>2. obj.height = 2 => disk'[obj.root] = disk[obj.root]
    BY <1>4, <2>1
  <2> QED BY <1>1, <1>2, <1>4, <2>2 DEF LeadsTo
<1>9. Base(C, low, disk', size', obj'.root, obj'.height, C, acked')
  BY <1>2, <1>3, <1>4, <1>6, <1>7, <1>8 DEF Base
<1> QED BY <1>1, <1>2, <1>9, ReturnSorted

\* The two nodes a leaf split writes.
Linked(N, leaf, h, s) ==
  /\ s.left \in LeafNode(Entry, {size}) /\ s.left.ents = h.left.ents
  /\ s.right \in LeafNode(Entry, N) /\ s.right.next = leaf.next
  /\ s.right.ents = h.right.ents /\ s.key = h.key

LEMMA SplitNodes ==
  ASSUME NEW N, NEW leaf, leaf \in LeafNode(Entry, N), LeafFull(leaf), NEW e \in Entry,
         NEW h, h = LeafSplit(leaf, e), NEW s, s = LeafHalves(leaf, e)
  PROVE  Linked(N, leaf, h, s)
<1>1. h.left \in LeafNode(Entry, N) /\ h.right \in LeafNode(Entry, {0})
  BY EntryKeyed, LeafSplitType
<1>2. h = [left |-> h.left, right |-> h.right, key |-> h.key]
  BY DEF LeafSplit
<1>3. s = [h EXCEPT !.left.next = size, !.right.next = leaf.next]
  BY DEF LeafHalves
<1> DEFINE left  == [h.left EXCEPT !.next = size]
           right == [h.right EXCEPT !.next = leaf.next]
<1>4. s.left = left /\ s.right = right /\ s.key = h.key
  BY <1>2, <1>3
<1>5. left \in LeafNode(Entry, {size}) /\ left.ents = h.left.ents
  BY <1>1 DEF LeafNode
<1>6. right \in LeafNode(Entry, N) /\ right.next = leaf.next /\ right.ents = h.right.ents
  BY <1>1 DEF LeafNode
<1> QED BY <1>4, <1>5, <1>6 DEF Linked

LEMMA SplitLeafSorted ==
  ASSUME NEW C, NEW low, Sorted(C, low), Typed, SplitLeaf
  PROVE  Sorted(C, low)'
<1> DEFINE leaf == disk[op.at]
           e    == op.entry
           h    == LeafSplit(leaf, e)
           s    == LeafHalves(leaf, e)
<1>1. op.pc = "down" /\ AtLeaf /\ LeafFull(leaf) /\ UNCHANGED <<obj, cursor, out, acked, saved>>
  BY DEF SplitLeaf
<1>2. /\ op.at \in C /\ e \in Entry /\ Covers(C, low, op.at, e.key) /\ HeldIs(op, obj, disk)
      /\ obj.mode = "w" /\ Base(C, low, disk, size, obj.root, obj.height, C, acked)
      /\ size \in Nat /\ size > 0 /\ LeadsTo(low, disk, size, obj.root, obj.height, C, C)
      /\ NewKey(acked, e) /\ NewKey(Members(leaf.ents), e) /\ cursor = NoCursor
  BY <1>1, InsertAtLeaf
<1>3. C \in SUBSET Pages(size) /\ InOrder(C, low, disk) /\ LeafInOrder(C, low, disk, op.at)
  BY <1>2 DEF Base, InOrder
<1>4. /\ leaf \in LeafNode(Entry, C \cup {0}) /\ Len(leaf.ents) = LeafMax /\ Distinct(leaf.ents)
  BY <1>1, <1>3, LeafMaxAssumption DEF LeafInOrder, LeafFull
<1>5. /\ WritePage(size, s.right)
      /\ op' = [pc |-> "left", entry |-> e, held |-> op.held, at |-> op.at,
                page |-> s.left, over |-> [key |-> s.key, pid |-> size]]
  BY DEF SplitLeaf
<1> HIDE DEF h, s
<1>6. /\ s.left \in LeafNode(Entry, {size}) /\ s.left.ents = h.left.ents
      /\ s.right \in LeafNode(Entry, C \cup {0}) /\ s.right.next = leaf.next
      /\ s.right.ents = h.right.ents /\ s.key = h.key
  <2>1. /\ leaf \in LeafNode(Entry, C \cup {0}) /\ LeafFull(leaf) /\ e \in Entry
        /\ h = LeafSplit(leaf, e) /\ s = LeafHalves(leaf, e)
    BY <1>1, <1>2, <1>4 DEF h, s
  <2> DEFINE N == C \cup {0}
  <2>2. leaf \in LeafNode(Entry, N)
    BY <2>1
  <2> HIDE DEF leaf, e, N
  <2>3. Linked(N, leaf, h, s)
    BY <2>1, <2>2, SplitNodes
  <2> QED BY <2>3 DEF Linked, N
<1>7. CutAt(leaf.ents, e, h.left.ents, h.right.ents, h.key)
  BY <1>2, <1>4, EntryKeyed, LeafSplitCut DEF h
<1>8. /\ op'.pc = "left" /\ op'.entry = e /\ op'.held = op.held /\ op'.at = op.at
      /\ op'.page = s.left /\ op'.over.key = s.key /\ op'.over.pid = size
  BY <1>5
<1>9. size' = size + 1 /\ disk'[size] = s.right /\ \A p \in Pages(size) : disk'[p] = disk[p]
  <2>1. size \in 0..size /\ size > 0 /\ size \in Pages(size + 1)
        /\ \A p \in Pages(size) : p \in Pages(size + 1) /\ p # size
    BY <1>2 DEF Pages
  <2> QED BY <1>5, <2>1, Wrote
<1>10. /\ \A p \in C : disk'[p] = disk[p]
       /\ obj.height = 2 => disk'[obj.root] = disk[obj.root] /\ obj.root # size
  BY <1>2, <1>3, <1>9 DEF LeadsTo, Pages
<1>11. size \notin C \cup {0} /\ size' \in Nat /\ size <= size'
  BY <1>2, <1>3, <1>9 DEF Pages
<1>12. Base(C, low, disk', size', obj.root, obj.height, C, acked)
  BY <1>2, <1>10, <1>11, BaseElsewhere
<1>13. Severed(C, low, disk', op')
  <2>1. disk'[op.at] = leaf
    BY <1>2, <1>10
  <2> HIDE DEF leaf
  <2> QED BY <1>2, <1>6, <1>7, <1>8, <1>9, <1>11, <2>1 DEF Severed
<1>14. HeldIs(op', obj', disk')
  BY <1>1, <1>2, <1>8, <1>10 DEF HeldIs
<1>15. Stage(C, low, disk', op', obj', acked')
  BY <1>1, <1>2, <1>8, <1>10, <1>13, <1>14 DEF Stage
<1>16. Led(C)' = C /\ AllEntries' = acked /\ Tree'.root = obj.root /\ Tree'.height = obj.height
  BY <1>1, <1>2, <1>8 DEF Led, AllEntries, Tree
<1>17. Session' /\ CursorFits(C, disk', cursor', out')
  BY <1>1, <1>2 DEF Session, CursorFits
<1> QED BY <1>12, <1>15, <1>16, <1>17 DEF Sorted

\* Only the order of the leaves a node leads to matters to it.
LEMMA FitsSame ==
  ASSUME NEW low, NEW n, NEW D, Fits(low, n, D), NEW new, \A p \in D : new[p] = low[p]
  PROVE  Fits(new, n, D)
<1>1. n \in NonLeafNode(Int, D)
  BY DEF Fits
<1>2. n.first \in D /\ \A x \in Members(n.ents) : x.pid \in D
  BY <1>1, SeparatorEntries
<1> QED BY <1>2 DEF Fits

\* The upper half of a full leaf has moved to the sibling.
LEMMA HalvesContent ==
  ASSUME NEW C, NEW low, NEW d, NEW c, Severed(C, low, d, c), NEW S, Content(C, d, S),
         NEW B, B = C \cup {c.over.pid}, NEW T, \A x : x \in T <=> x \in S \/ x = c.entry,
         NEW e, \A p \in B : e[p] = IF p = c.at THEN c.page ELSE d[p]
  PROVE  Content(B, e, T)
<1>1. /\ c.at \in C /\ c.over.pid \notin C
      /\ CutAt(d[c.at].ents, c.entry, c.page.ents, d[c.over.pid].ents, c.over.key)
  BY DEF Severed
<1>2. e[c.at] = c.page /\ e[c.over.pid] = d[c.over.pid] /\ \A p \in C : p # c.at => e[p] = d[p]
  BY <1>1
<1>3. ASSUME NEW p \in B, NEW x \in Members(e[p].ents) PROVE x \in T
  <2>1. CASE p = c.at \/ p = c.over.pid
    <3>1. x \in Members(d[c.at].ents) \/ x = c.entry
      BY <1>1, <1>2, <1>3, <2>1 DEF CutAt
    <3> QED BY <1>1, <3>1 DEF Content
  <2>2. CASE p \in C /\ p # c.at
    BY <1>2, <1>3, <2>2 DEF Content
  <2> QED BY <2>1, <2>2
<1>4. ASSUME NEW x \in T PROVE \E p \in B : x \in Members(e[p].ents)
  <2>1. CASE x = c.entry
    BY <1>1, <1>2, <2>1 DEF CutAt
  <2>2. CASE x \in S
    <3>1. PICK p \in C : x \in Members(d[p].ents)
      BY <2>2 DEF Content
    <3>2. CASE p = c.at
      BY <1>1, <1>2, <3>1, <3>2 DEF CutAt
    <3>3. CASE p # c.at
      BY <1>2, <3>1, <3>3
    <3> QED BY <3>2, <3>3
  <2> QED BY <2>1, <2>2
<1> QED BY <1>3, <1>4 DEF Content

LEMMA WriteLeftSorted ==
  ASSUME NEW C, NEW low, Sorted(C, low), Typed, WriteLeft
  PROVE  \E more, new : Sorted(more, new)'
<1> DEFINE b    == op.over.pid
           more == C \cup {b}
           new  == Extended(low, b, op.over.key)
<1>1. /\ op.pc = "left" /\ WritePage(op.at, op.page) /\ UNCHANGED <<obj, cursor, out, acked, saved>>
      /\ op'.pc = "up" /\ op'.entry = op.entry /\ op'.held = op.held /\ op'.over = op.over
  BY DEF WriteLeft
<1>2. /\ size \in Nat /\ obj.mode = "w" /\ b \in Pages(size)
  BY <1>1 DEF Typed, Separator
<1>3. /\ Base(C, low, disk, size, obj.root, obj.height, C, acked) /\ size > 0
      /\ LeadsTo(low, disk, size, obj.root, obj.height, C, C)
  BY <1>1, <1>2, InUse
<1>4. /\ HeldIs(op, obj, disk) /\ Severed(C, low, disk, op) /\ (obj.height = 2 => b # obj.root)
      /\ cursor = NoCursor
  BY <1>1 DEF Sorted, Stage, Session
<1>5. C \in SUBSET Pages(size) /\ InOrder(C, low, disk) /\ Content(C, disk, acked)
  BY <1>3 DEF Base
<1>6. op.at \in C /\ b \notin C /\ op.at \in Pages(size)
  BY <1>4, <1>5 DEF Severed
<1>7. size' = size /\ \A p \in Pages(size) : disk'[p] = IF p = op.at THEN op.page ELSE disk[p]
  <2>1. op.at \in 0..size /\ op.at # size
    BY <1>2, <1>6 DEF Pages
  <2> QED BY <1>1, <1>3, <2>1, Wrote
<1>8. more \in SUBSET Pages(size) /\ \A p \in more : disk'[p] = IF p = op.at THEN op.page ELSE disk[p]
  BY <1>2, <1>5, <1>7
<1>9. /\ InOrder(more, new, disk') /\ new[b] = op.over.key /\ \A p \in C : new[p] = low[p]
  BY <1>4, <1>5, <1>8, SiblingInOrder
<1> DEFINE T == acked \cup {op.entry}
<1>10. Content(more, disk', T)
  <2>1. \A x : x \in T <=> x \in acked \/ x = op.entry
    OBVIOUS
  <2> HIDE DEF T
  <2> QED BY <1>4, <1>5, <1>8, <2>1, HalvesContent
<1> HIDE DEF new
<1>11. LeadsTo(new, disk', size', obj.root, obj.height, more, C)
  <2>1. obj.height \in {1, 2}
    BY <1>3, <1>6 DEF LeadsTo
  <2>2. CASE obj.height = 1
    <3>1. C = {obj.root} /\ low[obj.root] = IntMin
      BY <1>3, <2>2 DEF LeadsTo
    <3> QED BY <1>9, <2>2, <3>1 DEF LeadsTo
  <2>3. CASE obj.height = 2
    <3>1. obj.root \in Pages(size) /\ obj.root \notin more /\ Fits(low, disk[obj.root], C)
      BY <1>3, <1>4, <2>3 DEF LeadsTo
    <3>2. disk'[obj.root] = disk[obj.root]
      BY <1>6, <1>7, <3>1
    <3>3. Fits(new, disk[obj.root], C)
      BY <1>9, <3>1, FitsSame
    <3> QED BY <1>7, <2>3, <3>1, <3>2, <3>3 DEF LeadsTo
  <2> QED BY <2>1, <2>2, <2>3
<1>12. Base(more, new, disk', size', obj.root, obj.height, C, T)
  BY <1>3, <1>7, <1>8, <1>9, <1>10, <1>11 DEF Base
<1>13. HeldIs(op', obj', disk')
  <2>1. obj.height = 2 => disk'[obj.root] = disk[obj.root]
    BY <1>3, <1>6, <1>7 DEF LeadsTo
  <2> QED BY <1>1, <1>4, <2>1 DEF HeldIs
<1> HIDE DEF T
<1>14. PICK B, by : B = more /\ by = new
  OBVIOUS
<1>15. /\ Base(B, by, disk', size', obj.root, obj.height, C, T)
       /\ b \in B /\ by[b] = op.over.key
  BY <1>9, <1>12, <1>14
<1>16. Stage(B, by, disk', op', obj', acked')
  BY <1>1, <1>13, <1>15 DEF Stage
<1>17. Led(B)' = C /\ AllEntries' = T /\ Tree'.root = obj.root /\ Tree'.height = obj.height
  BY <1>1, <1>2, <1>6, <1>14 DEF Led, AllEntries, Tree, T
<1>18. Session' /\ CursorFits(B, disk', cursor', out')
  BY <1>1, <1>2, <1>4 DEF Session, CursorFits
<1>19. Sorted(B, by)'
  BY <1>15, <1>16, <1>17, <1>18 DEF Sorted
<1> QED BY <1>19

\* A split leaf's sibling is yet to be told to the level above.
LEMMA Raising ==
  ASSUME NEW C, NEW low, Sorted(C, low), Typed, op.pc = "up"
  PROVE  /\ size \in Nat /\ size > 0 /\ obj.mode = "w" /\ obj \in ObjType /\ obj.height \in {1, 2}
         /\ C \in SUBSET Pages(size) /\ InOrder(C, low, disk)
         /\ Content(C, disk, acked \cup {op.entry})
         /\ op.over.pid \in C /\ op.over = [key |-> low[op.over.pid], pid |-> op.over.pid]
         /\ LeadsTo(low, disk, size, obj.root, obj.height, C, C \ {op.over.pid})
         /\ HeldIs(op, obj, disk) /\ cursor = NoCursor
<1>1. /\ size \in Nat /\ size > 0 /\ obj.mode = "w" /\ obj \in ObjType /\ obj.height > 0
      /\ op.over \in Separator(Key, Pages(size))
  BY DEF Typed, Inserting
<1>2. /\ Led(C) = C \ {op.over.pid} /\ AllEntries = acked \cup {op.entry}
      /\ Tree.root = obj.root /\ Tree.height = obj.height
  BY <1>1 DEF Led, AllEntries, Tree
<1>3. Base(C, low, disk, size, obj.root, obj.height, C \ {op.over.pid}, acked \cup {op.entry})
  BY <1>2 DEF Sorted
<1>4. HeldIs(op, obj, disk) /\ op.over.pid \in C /\ low[op.over.pid] = op.over.key /\ cursor = NoCursor
  BY DEF Sorted, Stage, Session
<1>5. op.over = [key |-> low[op.over.pid], pid |-> op.over.pid]
  BY <1>1, <1>4 DEF Separator
<1>6. LeadsTo(low, disk, size, obj.root, obj.height, C, C \ {op.over.pid})
  BY <1>1, <1>3 DEF Base
<1>7. obj.height \in {1, 2}
  BY <1>1, <1>6 DEF LeadsTo
<1> QED BY <1>1, <1>3, <1>4, <1>5, <1>6, <1>7 DEF Base

LEMMA InsertInNonLeafSorted ==
  ASSUME NEW C, NEW low, Sorted(C, low), Typed, InsertInNonLeaf
  PROVE  Sorted(C, low)'
<1> DEFINE b    == op.over.pid
           D    == C \ {b}
           page == NonLeafInsert(disk[obj.root], op.over)
<1>1. /\ op.pc = "up" /\ op.held # <<>> /\ ~NonLeafFull(Parent.node) /\ op' = Idle
      /\ WritePage(Parent.pid, NonLeafInsert(Parent.node, op.over))
      /\ acked' = acked \cup {op.entry} /\ UNCHANGED <<obj, cursor>>
  BY DEF InsertInNonLeaf, Return
<1>2. /\ size \in Nat /\ size > 0 /\ obj.mode = "w" /\ obj.height \in {1, 2}
      /\ C \in SUBSET Pages(size) /\ InOrder(C, low, disk)
      /\ Content(C, disk, acked \cup {op.entry})
      /\ b \in C /\ op.over = [key |-> low[b], pid |-> b]
      /\ LeadsTo(low, disk, size, obj.root, obj.height, C, D)
      /\ HeldIs(op, obj, disk) /\ cursor = NoCursor
  BY <1>1, Raising
<1>3. obj.height = 2 /\ Parent = [pid |-> obj.root, node |-> disk[obj.root]]
  <2>1. op.held \in Seq(HeldPage)
    BY <1>1 DEF Typed
  <2>2. Len(op.held) # 0
    BY <1>1, <2>1
  <2> QED BY <1>2, <2>2 DEF HeldIs, Parent
<1>4. obj.root \in Pages(size) /\ obj.root \notin C /\ Fits(low, disk[obj.root], D)
  BY <1>2, <1>3 DEF LeadsTo
<1>5. WritePage(obj.root, page) /\ ~NonLeafFull(disk[obj.root])
  BY <1>1, <1>3
<1>6. size' = size /\ \A p \in Pages(size) : disk'[p] = IF p = obj.root THEN page ELSE disk[p]
  <2>1. obj.root \in 0..size /\ obj.root # size
    BY <1>2, <1>4 DEF Pages
  <2> HIDE DEF page
  <2> QED BY <1>2, <1>5, <2>1, Wrote
<1>7. Fits(low, page, C)
  <2>1. Lows(C, low) /\ D \subseteq C /\ b \notin D
    BY <1>2 DEF InOrder
  <2> HIDE DEF D
  <2>2. Fits(low, page, D \cup {b})
    BY <1>2, <1>4, <1>5, <2>1, FitsInserted
  <2>3. D \cup {b} = C
    BY <1>2 DEF D
  <2> QED BY <2>2, <2>3
<1> HIDE DEF page
<1>8. \A p \in C : disk'[p] = disk[p]
  BY <1>2, <1>4, <1>6
<1>9. InOrder(C, low, disk') /\ Content(C, disk', acked')
  <2>1. InOrder(C, low, disk')
    BY <1>2, <1>8, SameLeaves
  <2> QED BY <1>1, <1>2, <1>8, <2>1 DEF Content
<1>10. LeadsTo(low, disk', size', obj.root, obj.height, C, C)
  <2>1. disk'[obj.root] = page
    BY <1>4, <1>6
  <2> QED BY <1>3, <1>4, <1>6, <1>7, <2>1 DEF LeadsTo
<1>11. Base(C, low, disk', size', obj'.root, obj'.height, C, acked')
  BY <1>1, <1>2, <1>6, <1>9, <1>10 DEF Base
<1> QED BY <1>1, <1>2, <1>11, ReturnSorted

LEMMA NewRootSorted ==
  ASSUME NEW C, NEW low, Sorted(C, low), Typed, NewRoot
  PROVE  Sorted(C, low)'
<1> DEFINE a    == obj.root
           b    == op.over.pid
           page == InitializeRoot(a, op.over.key, b)
<1>1. /\ op.pc = "up" /\ op.held = <<>> /\ op' = Idle /\ WritePage(size, page)
      /\ obj' = [obj EXCEPT !.root = size, !.height = @ + 1]
      /\ acked' = acked \cup {op.entry} /\ UNCHANGED cursor
  BY DEF NewRoot, Return
<1>2. /\ size \in Nat /\ size > 0 /\ obj.mode = "w" /\ obj \in ObjType /\ obj.height \in {1, 2}
      /\ C \in SUBSET Pages(size) /\ InOrder(C, low, disk)
      /\ Content(C, disk, acked \cup {op.entry})
      /\ b \in C /\ op.over = [key |-> low[b], pid |-> b]
      /\ LeadsTo(low, disk, size, obj.root, obj.height, C, C \ {b})
      /\ HeldIs(op, obj, disk) /\ cursor = NoCursor
  BY <1>1, Raising
<1>3. obj.height = 1
  <2>1. Len(op.held) = 0
    BY <1>1
  <2> QED BY <1>2, <2>1 DEF HeldIs
<1>4. C \ {b} = {a} /\ low[a] = IntMin
  BY <1>2, <1>3 DEF LeadsTo
<1>5. C = {a, b} /\ a # b /\ low[b] \in Int
  BY <1>2, <1>4 DEF InOrder, Lows
<1>6. size' = size + 1 /\ disk'[size] = page /\ \A p \in Pages(size) : disk'[p] = disk[p]
  <2>1. size \in 0..size /\ size > 0 /\ size \in Pages(size + 1)
        /\ \A p \in Pages(size) : p \in Pages(size + 1) /\ p # size
    BY <1>2 DEF Pages
  <2> HIDE DEF page
  <2> QED BY <1>1, <2>1, Wrote
<1>7. Fits(low, page, C)
  <2>1. Fits(low, InitializeRoot(a, low[b], b), {a, b})
    BY <1>4, <1>5, FitsRoot
  <2>2. op.over.key = low[b]
    BY <1>2
  <2> QED BY <1>5, <2>1, <2>2
<1> HIDE DEF page
<1>8. \A p \in C : disk'[p] = disk[p]
  BY <1>2, <1>6
<1>9. InOrder(C, low, disk') /\ Content(C, disk', acked')
  <2>1. InOrder(C, low, disk')
    BY <1>2, <1>8, SameLeaves
  <2> QED BY <1>1, <1>2, <1>8, <2>1 DEF Content
<1>10. obj'.root = size /\ obj'.height = 2 /\ obj'.mode = "w"
  BY <1>1, <1>2, <1>3 DEF ObjType
<1>11. C \in SUBSET Pages(size') /\ size \in Pages(size') /\ size \notin C
  BY <1>2, <1>6 DEF Pages
<1>12. LeadsTo(low, disk', size', obj'.root, obj'.height, C, C)
  BY <1>6, <1>7, <1>10, <1>11 DEF LeadsTo
<1>13. Base(C, low, disk', size', obj'.root, obj'.height, C, acked')
  BY <1>2, <1>6, <1>9, <1>11, <1>12 DEF Base
<1> QED BY <1>1, <1>2, <1>10, <1>13, ReturnSorted

-----------------------------------------------------------------------------
(* The invariant holds in the orderly behaviours.                          *)

SInv == IInv /\ \E C, low : Sorted(C, low)

LEMMA IdleSorted ==
  ASSUME NEW C, NEW low, Sorted(C, low), UNCHANGED vars
  PROVE  Sorted(C, low)'
<1>1. /\ disk' = disk /\ size' = size /\ obj' = obj /\ op' = op /\ cursor' = cursor /\ out' = out
      /\ acked' = acked /\ saved' = saved
  BY DEF vars
<1>2. Led(C)' = Led(C) /\ AllEntries' = AllEntries /\ Tree' = Tree
  BY <1>1 DEF Led, AllEntries, Tree, OnDisk
<1>3. Base(C, low, disk', size', Tree'.root, Tree'.height, Led(C)', AllEntries')
  BY <1>1, <1>2 DEF Sorted
<1>4. Stage(C, low, disk', op', obj', acked')
  BY <1>1 DEF Sorted
<1>5. Session'
  BY <1>1 DEF Sorted, Session
<1>6. CursorFits(C, disk', cursor', out')
  BY <1>1 DEF Sorted
<1> QED BY <1>3, <1>4, <1>5, <1>6 DEF Sorted

LEMMA NextKeepsOrder ==
  ASSUME SInv, [Next /\ Orderly]_vars
  PROVE  \E C, low : Sorted(C, low)'
<1> PICK C, low : Sorted(C, low)
  BY DEF SInv
<1>1. IInv /\ Typed /\ Books
  BY IsTyped DEF SInv, IInv
<1>2. CASE UNCHANGED vars
  BY <1>2, IdleSorted
<1> SUFFICES ASSUME Next, Orderly PROVE \E D, by : Sorted(D, by)'
  BY <1>2
<1>3. CASE OpenNew \/ Open("r") \/ Open("w")
  BY <1>1, <1>3, OpensSorted
<1>4. CASE Close
  BY <1>1, <1>4, CloseSorted
<1>5. CASE CloseFails \/ Abandon
  <2>1. CloseFails \/ (Abandon /\ obj.mode = "r")
    BY <1>5 DEF Orderly
  <2> QED BY <1>1, <2>1, EndsSorted
<1>6. CASE \E e \in Entry : InsertCall(e)
  <2>1. PICK e \in Entry : InsertCall(e)
    BY <1>6
  <2>2. NewKey(acked, e)
    BY <2>1 DEF Orderly, NewKey
  <2> QED BY <1>1, <2>1, <2>2, InsertCallSorted
<1>7. CASE InsertStep
  <2>1. CASE InsertFirst
    BY <1>1, <2>1, InsertFirstSorted
  <2>2. CASE Descend
    BY <1>1, <2>2, DescendSorted
  <2>3. CASE InsertInLeaf
    BY <1>1, <2>3, InsertInLeafSorted
  <2>4. CASE SplitLeaf
    BY <1>1, <2>4, SplitLeafSorted
  <2>5. CASE WriteLeft
    BY <1>1, <2>5, WriteLeftSorted
  <2>6. CASE InsertInNonLeaf
    BY <1>1, <2>6, InsertInNonLeafSorted
  <2>7. CASE NewRoot
    BY <1>1, <2>7, NewRootSorted
  <2>8. ~SplitNonLeaf
    BY DEF Orderly
  <2> QED BY <1>7, <2>1, <2>2, <2>3, <2>4, <2>5, <2>6, <2>7, <2>8 DEF InsertStep
<1>8. CASE (\E k \in Key : LocateCall(k)) \/ SeekDown \/ SeekLeaf \/ ReadForward
  BY <1>1, <1>8, SearchesSorted
<1>9. ~InsertFails
  BY DEF Orderly
<1> QED BY <1>3, <1>4, <1>5, <1>6, <1>7, <1>8, <1>9 DEF Next

LEMMA OrderInductive == OrderlySpec => []SInv
<1>1. Init => SInv
  BY InitLevelled, InitSorted DEF SInv
<1>2. SInv /\ [Next /\ Orderly]_vars => SInv'
  <2> SUFFICES ASSUME SInv, [Next /\ Orderly]_vars PROVE SInv'
    OBVIOUS
  <2>1. IInv' 
    BY NextKeeps DEF SInv
  <2>2. PICK C, low : Sorted(C, low)'
    BY NextKeepsOrder
  <2> QED BY <2>1, <2>2 DEF SInv
<1> QED BY <1>1, <1>2, PTL DEF OrderlySpec

\* The path to a leaf in a tree of at most two levels.
LEMMA PathIs ==
  ASSUME NEW root, NEW key
  PROVE  Path(root, 1, key)[1] = root /\ Path(root, 2, key)[2] = ChildPtr(disk[root], key)
<1> DEFINE Child(p) == ChildPtr(disk[p], key)
           Page(height) == CHOOSE f : f = [i \in 1..height |-> IF i = 1 THEN root ELSE Child(f[i - 1])]
<1>1. \A height : Path(root, height, key) = Page(height)
  BY DEF Path
<1> HIDE DEF Child
<1>2. Page(1)[1] = root
  <2> DEFINE f == [i \in 1..1 |-> root]
  <2>1. f = [i \in 1..1 |-> IF i = 1 THEN root ELSE Child(f[i - 1])]
    OBVIOUS
  <2> HIDE DEF f
  <2>2. Page(1) = [i \in 1..1 |-> IF i = 1 THEN root ELSE Child(Page(1)[i - 1])]
    BY <2>1
  <2> HIDE DEF Page
  <2> QED BY <2>2
<1>3. Page(2)[2] = Child(root)
  <2> DEFINE f == [i \in 1..2 |-> IF i = 1 THEN root ELSE Child(root)]
  <2>1. f = [i \in 1..2 |-> IF i = 1 THEN root ELSE Child(f[i - 1])]
    OBVIOUS
  <2> HIDE DEF f
  <2>2. Page(2) = [i \in 1..2 |-> IF i = 1 THEN root ELSE Child(Page(2)[i - 1])]
    BY <2>1
  <2> HIDE DEF Page
  <2>3. Page(2)[1] = root
    BY <2>2
  <2> QED BY <2>2, <2>3
<1> HIDE DEF Page
<1>4. Path(root, 1, key)[1] = root /\ Path(root, 2, key)[2] = Child(root)
  BY <1>1, <1>2, <1>3
<1> QED BY <1>4 DEF Child

\* A key is sent to one leaf, the one that has its entries.
LEMMA CoveredOnce ==
  ASSUME NEW C, NEW low, NEW d, InOrder(C, low, d), NEW p \in C, NEW q \in C, NEW k \in Int,
         Covers(C, low, p, k), Covers(C, low, q, k)
  PROVE  p = q
<1>1. low[p] \in Int /\ low[q] \in Int
  BY DEF InOrder, Lows
<1>2. low[p] = low[q]
  BY <1>1 DEF Covers
<1> QED BY <1>2 DEF InOrder, Lows

LEMMA SortedFinds ==
  ASSUME NEW C, NEW low, Sorted(C, low), IInv, size > 0, op.pc # "up", NEW e \in acked
  PROVE  Found(Tree, e)
<1> DEFINE t    == Tree
           leaf == Path(t.root, t.height, e.key)[t.height]
<1>1. Base(C, low, disk, size, t.root, t.height, C, acked) /\ LeadsTo(low, disk, size, t.root, t.height, C, C)
  BY DEF Sorted, Base, Led, AllEntries
<1>2. InOrder(C, low, disk) /\ \A p \in C : LeafInOrder(C, low, disk, p)
  BY <1>1 DEF Base, InOrder
<1>3. e \in Entry /\ e.key \in Key /\ e.key \in Int
  <2>1. e \in Entry
    BY DEF IInv, Books
  <2>2. e.key \in Key
    BY <2>1, EntryKeyed
  <2> QED BY <2>1, <2>2, KeyBounds
<1>4. PICK p \in C : e \in Members(disk[p].ents)
  BY <1>1 DEF Base, Content
<1>5. Covers(C, low, p, e.key)
  BY <1>2, <1>4 DEF LeafInOrder
<1>6. t.height \in {1, 2}
  BY <1>1, <1>4 DEF LeadsTo
<1>7. leaf \in C /\ Covers(C, low, leaf, e.key)
  <2>1. CASE t.height = 1
    <3>1. leaf = t.root
      BY <2>1, PathIs
    <3> QED BY <1>1, <1>3, <2>1, <3>1, RootCovers
  <2>2. CASE t.height = 2
    <3>1. leaf = ChildPtr(disk[t.root], e.key)
      BY <2>2, PathIs
    <3> QED BY <1>1, <1>3, <2>2, <3>1, NodeCovers
  <2> QED BY <1>6, <2>1, <2>2
<1>8. leaf = p
  <2> HIDE DEF leaf
  <2> QED BY <1>2, <1>3, <1>4, <1>5, <1>7, CoveredOnce
<1>9. Holds(disk[p].ents, e.key)
  BY <1>4 DEF Members, Holds
<1>10. t.height > 0
  BY <1>6
<1> HIDE DEF t
<1>11. Found(t, e)
  BY <1>8, <1>9, <1>10 DEF Found
<1> QED BY <1>11 DEF t

\* As long as no key is inserted twice, no insert fails, a writer closes, and no
\* non-leaf is split, locate finds every entry inserted, from the root the object
\* has or, between sessions, the one the file has (BTreeIndex.h:66-77).
THEOREM OrderedTreeFinds == OrderlySpec => []LocateFindsStored
<1>1. SInv => LocateFindsStored
  <2> SUFFICES ASSUME SInv, op = Idle, size > 0, NEW e \in acked PROVE Found(Tree, e)
    BY DEF LocateFindsStored
  <2>1. PICK C, low : Sorted(C, low)
    BY DEF SInv
  <2>2. op.pc # "up"
    BY DEF Idle
  <2> QED BY <2>1, <2>2, SortedFinds DEF SInv
<1> QED BY <1>1, OrderInductive, PTL

-----------------------------------------------------------------------------
(* The tree implements Index.                                              *)

LEMMA AheadNone ==
  (cursor = NoCursor => Ahead = {}) /\ (cursor' = NoCursor => Ahead' = {})
BY AheadIs DEF AheadIn

\* Between calls no locate is on its way.
LEMMA AskedIs ==
  /\ op.pc # "seek" => Asked = {}
  /\ op'.pc # "seek" => Asked' = {}
  /\ op' = Idle => Asked' = {}
  /\ op.pc = "seek" => Asked = {op.key}
  /\ op'.pc = "seek" => Asked' = {op'.key}
BY DEF Asked, Idle

LEMMA AheadSeen ==
  ASSUME size \in Nat, NEW C \in SUBSET Pages(size), NEW low, InOrder(C, low, disk)
  PROVE  /\ cursor \in [pid : C, eid : Nat] =>
              \A x : x \in Ahead <=> Remains(C, low, disk, cursor, x)
         /\ cursor' \in [pid : C, eid : Nat] /\ UNCHANGED <<disk, size>> =>
              \A x : x \in Ahead' <=> Remains(C, low, disk, cursor', x)
<1>1. \A c \in [pid : C, eid : Nat] :
        \A x : x \in AheadIn(disk, size, c) <=> Remains(C, low, disk, c, x)
  BY AheadRemains
<1>2. Ahead = AheadIn(disk, size, cursor) /\ Ahead' = AheadIn(disk', size', cursor')
  BY AheadIs
<1>3. UNCHANGED <<disk, size>> => Ahead' = AheadIn(disk, size, cursor')
  BY <1>2
<1> QED BY <1>1, <1>2, <1>3

\* At the first entry of the next leaf, what is left is what the leaves above have.
LeadsUp(C, low, d, p) ==
  /\ d[p].next = 0 => \A q \in C : ~(low[p] < low[q])
  /\ d[p].next # 0 =>
       /\ d[p].next \in C
       /\ \A x : Remains(C, low, d, [pid |-> d[p].next, eid |-> 0], x) <=>
                   \E q \in C : low[p] < low[q] /\ x \in Members(d[q].ents)
       /\ \E q \in C : \E x \in Members(d[q].ents) : low[p] < low[q]

LEMMA NextLeaf ==
  ASSUME NEW C, NEW low, NEW d, InOrder(C, low, d), NEW p \in C
  PROVE  LeadsUp(C, low, d, p)
<1> DEFINE n == d[p].next
           c == [pid |-> n, eid |-> 0]
<1>1. LeafInOrder(C, low, d, p) /\ \A q \in C : low[q] \in Int
  BY DEF InOrder, Lows
<1>2. n = 0 => \A q \in C : ~(low[p] < low[q])
  BY <1>1 DEF LeafInOrder
<1>3. ASSUME n # 0
      PROVE  /\ n \in C
             /\ \A x : Remains(C, low, d, c, x) <=>
                         \E q \in C : low[p] < low[q] /\ x \in Members(d[q].ents)
             /\ \E q \in C : \E x \in Members(d[q].ents) : low[p] < low[q]
  <2>1. n \in C /\ low[p] < low[n] /\ \A q \in C : low[p] < low[q] => low[n] <= low[q]
    BY <1>1, <1>3 DEF LeafInOrder, LeafNode
  <2>2. Len(d[n].ents) \in 1..LeafMax
    BY <2>1 DEF InOrder, LeafInOrder
  <2>3. c.pid = n /\ c.eid = 0
    OBVIOUS
  <2> HIDE DEF n, c
  <2>4. \A q \in C : low[p] < low[q] <=> low[n] < low[q] \/ q = n
    <3> SUFFICES ASSUME NEW q \in C PROVE low[p] < low[q] <=> low[n] < low[q] \/ q = n
      OBVIOUS
    <3>1. low[n] = low[q] => q = n
      BY <2>1 DEF InOrder, Lows
    <3> QED BY <1>1, <2>1, <3>1
  <2>5. \A x : x \in Members(d[n].ents) <=> \E i \in 1..Len(d[n].ents) : c.eid < i /\ x = d[n].ents[i]
    BY <2>3 DEF Members
  <2>6. \A x : Remains(C, low, d, c, x) <=>
                 \E q \in C : low[p] < low[q] /\ x \in Members(d[q].ents)
    BY <2>1, <2>3, <2>4, <2>5 DEF Remains
  <2>7. d[n].ents[1] \in Members(d[n].ents)
    BY <2>2 DEF Members
  <2> QED BY <2>1, <2>6, <2>7
<1> QED BY <1>2, <1>3 DEF LeadsUp

\* What is left of a leaf from the place a search for k stops at on: its entries of
\* keys from k on.  The leaves above have larger keys, those below smaller ones.
LEMMA SearchSees ==
  ASSUME NEW C, NEW low, InOrder(C, low, disk), NEW S, Content(C, disk, S),
         NEW p \in C, NEW k \in Int, Covers(C, low, p, k),
         NEW at, at = Locate(disk[p].ents, k), NEW c, c = [pid |-> p, eid |-> at - 1]
  PROVE  /\ c \in [pid : C, eid : Nat]
         /\ \A x : Remains(C, low, disk, c, x) <=> x \in S /\ x.key >= k
         /\ Holds(disk[p].ents, k) <=> \E x \in S : x.key = k
<1> DEFINE ents == disk[p].ents
<1>1. /\ ents \in Seq(Entry) /\ Distinct(ents) /\ Len(ents) \in Nat
      /\ \A q \in C : low[q] \in Int
      /\ \A q \in C : \A x \in Members(disk[q].ents) : Covers(C, low, q, x.key) /\ x.key \in Int
  <2>1. \A q \in C : LeafInOrder(C, low, disk, q)
    BY DEF InOrder
  <2>2. ents \in Seq(Entry) /\ Distinct(ents) /\ Len(ents) \in Nat
    BY <2>1 DEF LeafInOrder, LeafNode
  <2>3. \A q \in C : low[q] \in Int
    BY DEF InOrder, Lows
  <2>4. \A q \in C : \A x \in Members(disk[q].ents) : Covers(C, low, q, x.key) /\ x.key \in Int
    BY <2>1, LeafEntries DEF LeafInOrder
  <2> QED BY <2>2, <2>3, <2>4
<1>2. /\ at \in 1..(Len(ents) + 1)
      /\ at <= Len(ents) => ents[at].key >= k
      /\ \A i \in 1..Len(ents) : i < at => ents[i].key < k
  BY <1>1, EntryKeyed, LocateRange
<1>3. c \in [pid : C, eid : Nat] /\ c.pid = p /\ c.eid = at - 1
  BY <1>2
<1>4. \A i \in 1..Len(ents) : ents[i] \in Members(ents) /\ ents[i].key \in Int
  BY <1>1 DEF Members
<1>5. \A i \in 1..Len(ents) : at <= i <=> ents[i].key >= k
  <2> SUFFICES ASSUME NEW i \in 1..Len(ents) PROVE at <= i <=> ents[i].key >= k
    OBVIOUS
  <2>1. CASE i < at
    BY <1>2, <1>4, <2>1
  <2>2. CASE at <= i
    <3>1. at \in 1..Len(ents) /\ ents[at].key >= k
      BY <1>1, <1>2, <2>2
    <3>2. at = i \/ ents[at].key < ents[i].key
      BY <1>1, <2>2, <3>1 DEF Distinct
    <3> QED BY <1>4, <2>2, <3>1, <3>2
  <2> QED BY <1>2, <2>1, <2>2
<1>6. \A i \in 1..Len(ents) : c.eid < i <=> ents[i].key >= k
  BY <1>2, <1>3, <1>5
<1>7. ASSUME NEW x, Remains(C, low, disk, c, x) PROVE x \in S /\ x.key >= k
  <2>1. CASE \E i \in 1..Len(ents) : c.eid < i /\ x = ents[i]
    BY <1>4, <1>6, <2>1 DEF Content
  <2>2. CASE \E q \in C : low[p] < low[q] /\ x \in Members(disk[q].ents)
    <3>1. PICK q \in C : low[p] < low[q] /\ x \in Members(disk[q].ents)
      BY <2>2
    <3>2. k < low[q] /\ low[q] <= x.key /\ x.key \in Int /\ low[q] \in Int
      BY <1>1, <3>1 DEF Covers
    <3> QED BY <3>1, <3>2 DEF Content
  <2> QED BY <1>3, <1>7, <2>1, <2>2 DEF Remains
<1>8. ASSUME NEW x \in S, x.key >= k PROVE Remains(C, low, disk, c, x)
  <2>1. PICK q \in C : x \in Members(disk[q].ents)
    BY DEF Content
  <2>2. Covers(C, low, q, x.key) /\ x.key \in Int /\ low[p] \in Int /\ low[q] \in Int
    BY <1>1, <2>1
  <2>3. ~(low[q] < low[p])
    BY <1>8, <2>2 DEF Covers
  <2>4. CASE low[p] < low[q]
    BY <1>3, <2>1, <2>4 DEF Remains
  <2>5. CASE low[p] = low[q]
    <3>1. p = q
      BY <2>5 DEF InOrder, Lows
    <3>2. PICK i \in 1..Len(ents) : x = ents[i]
      BY <2>1, <3>1 DEF Members
    <3>3. c.eid < i
      BY <1>6, <1>8, <3>2
    <3> QED BY <1>3, <3>2, <3>3 DEF Remains
  <2> QED BY <2>2, <2>3, <2>4, <2>5
<1>9. Holds(ents, k) <=> \E x \in S : x.key = k
  <2>1. Holds(ents, k) => \E x \in S : x.key = k
    BY <1>4 DEF Holds, Content
  <2>2. ASSUME NEW x \in S, x.key = k PROVE Holds(ents, k)
    <3>1. PICK q \in C : x \in Members(disk[q].ents)
      BY DEF Content
    <3>2. Covers(C, low, q, k)
      BY <1>1, <2>2, <3>1
    <3>3. p = q
      BY <3>2, CoveredOnce
    <3> QED BY <2>2, <3>1, <3>3 DEF Members, Holds
  <2> QED BY <2>1, <2>2
<1> QED BY <1>3, <1>7, <1>8, <1>9

LEMMA SearchIs ==
  ASSUME NEW C, NEW low, Sorted(C, low), Typed, IInv, SeekLeaf
  PROVE  Ordered!Search(op.key)
<1> DEFINE p    == op.at
           ents == disk[p].ents
<1>1. /\ op.pc = "seek" /\ op.level = obj.height /\ UNCHANGED <<disk, size, acked>>
      /\ cursor' = [pid |-> p, eid |-> Locate(ents, op.key) - 1]
      /\ out' = Reply("locate", IF Holds(ents, op.key) THEN "OK" ELSE "RC_NO_SUCH_RECORD")
  BY DEF SeekLeaf
<1>2. /\ op \in [pc : {"seek"}, key : Key, at : Pages(size), level : Nat] /\ obj.mode # "none"
  BY <1>1, SeekTyped
<1>3. p \in C /\ Covers(C, low, p, op.key)
  BY <1>1, <1>2, SeekAtLeaf
<1>4. /\ C \in SUBSET Pages(size) /\ InOrder(C, low, disk) /\ Content(C, disk, acked) /\ size \in Nat
  <2>1. Base(C, low, disk, size, obj.root, obj.height, C, acked)
    BY <1>1, <1>2, InUse
  <2> QED BY <2>1 DEF Base, Typed
<1>5. op.key \in Int
  <2>1. op.key \in Key
    BY <1>2
  <2> QED BY <2>1, KeyBounds
<1>6. /\ cursor' \in [pid : C, eid : Nat]
      /\ \A x : Remains(C, low, disk, cursor', x) <=> x \in acked /\ x.key >= op.key
      /\ Holds(ents, op.key) <=> \E x \in acked : x.key = op.key
  BY <1>1, <1>3, <1>4, <1>5, SearchSees
<1>7. \A x : x \in Ahead' <=> x \in acked /\ x.key >= op.key
  BY <1>1, <1>4, <1>6, AheadSeen
<1>8. Ahead' = {e \in acked : e.key >= op.key}
  BY <1>7
<1>9. out'.call = "locate" /\ out'.entry = NoEntry /\ (out'.rc = "OK" <=> Holds(ents, op.key))
  BY <1>1 DEF Reply
<1>10. op.key \in Asked /\ Asked' = {}
  <2>1. op' = Idle
    BY DEF SeekLeaf
  <2> QED BY <1>1, <2>1, AskedIs
<1> QED BY <1>1, <1>6, <1>8, <1>9, <1>10 DEF Ordered!Search

\* The entry at the cursor is the least of those yet to be read, and it is gone
\* from them when the cursor has moved on.
LEMMA StepReads ==
  ASSUME NEW C, NEW low, NEW d, InOrder(C, low, d), NEW c \in [pid : C, eid : Nat],
         NEW ents, ents = d[c.pid].ents, c.eid < Len(ents),
         NEW e, e = ents[c.eid + 1]
  PROVE  /\ e \in Entry /\ Remains(C, low, d, c, e)
         /\ \A x : Remains(C, low, d, c, x) => e.key <= x.key
         /\ \A x : Remains(C, low, d, c, x) /\ x # e <=>
              \/ \E i \in 1..Len(ents) : c.eid + 1 < i /\ x = ents[i]
              \/ \E q \in C : low[c.pid] < low[q] /\ x \in Members(d[q].ents)
<1> PICK p \in C : p = c.pid
  OBVIOUS
<1> PICK n \in Nat : n = c.eid
  OBVIOUS
<1>1. /\ ents \in Seq(Entry) /\ Distinct(ents) /\ Len(ents) \in Nat
      /\ \A q \in C : low[q] \in Int
      /\ \A q \in C : \A x \in Members(d[q].ents) : Covers(C, low, q, x.key) /\ x.key \in Int
  <2>1. \A q \in C : LeafInOrder(C, low, d, q)
    BY DEF InOrder
  <2>2. ents \in Seq(Entry) /\ Distinct(ents) /\ Len(ents) \in Nat
    BY <2>1 DEF LeafInOrder, LeafNode
  <2>3. \A q \in C : low[q] \in Int
    BY DEF InOrder, Lows
  <2>4. \A q \in C : \A x \in Members(d[q].ents) : Covers(C, low, q, x.key) /\ x.key \in Int
    BY <2>1, LeafEntries DEF LeafInOrder
  <2> QED BY <2>2, <2>3, <2>4
<1>2. n + 1 \in 1..Len(ents) /\ e = ents[n + 1] /\ e \in Members(d[p].ents) /\ e.key \in Int
      /\ e \in Entry /\ Covers(C, low, p, e.key)
  <2>1. n + 1 \in 1..Len(ents) /\ e = ents[n + 1]
    BY <1>1
  <2>2. e \in Members(d[p].ents) /\ e \in Entry
    BY <1>1, <2>1, ElementOfSeq DEF Members
  <2> QED BY <1>1, <2>1, <2>2
<1>3. \A i \in 1..Len(ents) : ents[i].key \in Int
  BY <1>1 DEF Members
<1>4. \A i \in 1..Len(ents) : n + 1 < i => e.key < ents[i].key
  BY <1>1, <1>2 DEF Distinct
<1>5. \A q \in C : \A x \in Members(d[q].ents) : low[p] < low[q] => e.key < x.key
  <2> SUFFICES ASSUME NEW q \in C, NEW x \in Members(d[q].ents), low[p] < low[q]
               PROVE  e.key < x.key
    OBVIOUS
  <2>1. e.key < low[q] /\ low[q] <= x.key /\ x.key \in Int /\ low[q] \in Int
    BY <1>1, <1>2 DEF Covers
  <2> QED BY <1>2, <2>1
<1>6. \A i \in 1..Len(ents) : n < i <=> i = n + 1 \/ n + 1 < i
  OBVIOUS
<1> DEFINE Later(x) == \/ \E i \in 1..Len(ents) : n + 1 < i /\ x = ents[i]
                       \/ \E q \in C : low[p] < low[q] /\ x \in Members(d[q].ents)
<1>7. \A x : Later(x) => x # e /\ e.key <= x.key
  <2> SUFFICES ASSUME NEW x, Later(x) PROVE x # e /\ e.key <= x.key
    OBVIOUS
  <2>1. e.key < x.key /\ x.key \in Int
    BY <1>1, <1>3, <1>4, <1>5
  <2> QED BY <1>2, <2>1
<1>8. \A x : Remains(C, low, d, c, x) <=> x = e \/ Later(x)
  BY <1>2, <1>6 DEF Remains
<1> HIDE DEF Later
<1>9. \A x : Remains(C, low, d, c, x) => e.key <= x.key
  <2> SUFFICES ASSUME NEW x, Remains(C, low, d, c, x) PROVE e.key <= x.key
    OBVIOUS
  <2>1. e.key <= e.key
    BY <1>2
  <2>2. x = e \/ Later(x)
    BY <1>8
  <2>3. CASE x = e
    BY <2>1, <2>3
  <2>4. CASE Later(x)
    BY <1>7, <2>4
  <2> QED BY <2>2, <2>3, <2>4
<1>10. \A x : Remains(C, low, d, c, x) /\ x # e <=> Later(x)
  BY <1>7, <1>8
<1> QED BY <1>2, <1>8, <1>9, <1>10 DEF Later

LEMMA ReadIs ==
  ASSUME NEW C, NEW low, Sorted(C, low), Typed, ReadForward
  PROVE  Ordered!ReadNothing \/ \E e \in Entry : Ordered!Read(e)
<1> DEFINE c    == cursor
           leaf == disk[c.pid]
           here == c.eid < Len(leaf.ents)
           Rest(x) == \E q \in C : low[c.pid] < low[q] /\ x \in Members(disk[q].ents)
<1>0. Asked = {} /\ Asked' = {}
  <2>1. op = Idle /\ op' = op
    BY DEF ReadForward
  <2> QED BY <2>1, AskedIs DEF Idle
<1>1. /\ c # NoCursor /\ op = Idle /\ UNCHANGED <<disk, size, acked>> /\ cursor' = Advanced(c, leaf)
      /\ out'.call = "readForward"
      /\ out'.rc = IF cursor'.pid = 0 THEN "RC_INVALID_CURSOR" ELSE IF here THEN "OK" ELSE "RC_NO_SUCH_RECORD"
      /\ out'.entry = IF here THEN leaf.ents[c.eid + 1] ELSE NoEntry
  BY DEF ReadForward
<1>2. c \in [pid : C, eid : Nat] /\ (here \/ Missed(out))
  BY <1>1 DEF Sorted, CursorFits
<1>3. /\ C \in SUBSET Pages(size) /\ InOrder(C, low, disk) /\ size \in Nat /\ 0 \notin C
      /\ \A q \in C : Len(disk[q].ents) \in 1..LeafMax
  BY DEF Sorted, Base, Typed, InOrder, LeafInOrder
<1>4. \A x : x \in Ahead <=> Remains(C, low, disk, c, x)
  BY <1>2, <1>3, AheadSeen
<1>5. c.pid \in C /\ c.eid \in Nat /\ Len(leaf.ents) \in Nat
  BY <1>2, <1>3
<1>6. cursor' \in [pid : C, eid : Nat] => \A x : x \in Ahead' <=> Remains(C, low, disk, cursor', x)
  BY <1>1, <1>3, AheadSeen
\* Past the last entry of the leaf the cursor is at the next leaf, or nowhere.
<1>7. ASSUME ~(c.eid + 1 < Len(leaf.ents))
      PROVE  /\ \A x : x \in Ahead' <=> Rest(x)
             /\ cursor'.pid = 0 <=> Ahead' = {}
  <2>0. LeadsUp(C, low, disk, c.pid)
    BY <1>3, <1>5, NextLeaf
  <2>1. cursor' = [pid |-> leaf.next, eid |-> 0] /\ cursor'.pid = leaf.next
    BY <1>1, <1>7 DEF Advanced
  <2>2. CASE leaf.next = 0
    <3>1. \A q \in C : ~(low[c.pid] < low[q])
      BY <2>0, <2>2 DEF LeadsUp
    <3>2. Ahead' = {}
      BY <2>1, <2>2, AheadNone DEF NoCursor
    <3> QED BY <2>1, <2>2, <3>1, <3>2
  <2>3. CASE leaf.next # 0
    <3>1. /\ leaf.next \in C
          /\ \A x : Remains(C, low, disk, [pid |-> leaf.next, eid |-> 0], x) <=> Rest(x)
          /\ \E q \in C : \E x \in Members(disk[q].ents) : low[c.pid] < low[q]
      BY <2>0, <2>3 DEF LeadsUp
    <3>2. cursor' \in [pid : C, eid : Nat] /\ \A x : Remains(C, low, disk, cursor', x) <=> Rest(x)
      BY <2>1, <3>1
    <3>3. \A x : x \in Ahead' <=> Rest(x)
      BY <1>6, <3>2
    <3>4. \E x : Rest(x)
      BY <3>1
    <3>5. Ahead' # {}
      BY <3>3, <3>4
    <3> QED BY <2>1, <2>3, <3>3, <3>5
  <2> QED BY <2>2, <2>3
<1>8. CASE here
  <2> DEFINE e == leaf.ents[c.eid + 1]
  <2>1. /\ e \in Entry /\ Remains(C, low, disk, c, e)
        /\ \A x : Remains(C, low, disk, c, x) => e.key <= x.key
        /\ \A x : Remains(C, low, disk, c, x) /\ x # e <=>
             \/ \E i \in 1..Len(leaf.ents) : c.eid + 1 < i /\ x = leaf.ents[i]
             \/ Rest(x)
    BY <1>2, <1>3, <1>8, StepReads
  <2>2. /\ \A x : x \in Ahead' <=> Remains(C, low, disk, c, x) /\ x # e
        /\ cursor'.pid = 0 <=> Ahead' = {}
    <3>1. CASE c.eid + 1 < Len(leaf.ents)
      <4>1. cursor' = [c EXCEPT !.eid = @ + 1]
        BY <1>1, <3>1 DEF Advanced
      <4>2. cursor' \in [pid : C, eid : Nat] /\ cursor'.pid = c.pid /\ cursor'.eid = c.eid + 1
        BY <1>2, <4>1
      <4>3. \A x : x \in Ahead' <=> \/ \E i \in 1..Len(leaf.ents) : c.eid + 1 < i /\ x = leaf.ents[i]
                                    \/ Rest(x)
        BY <1>6, <4>2 DEF Remains
      <4>4. leaf.ents[c.eid + 2] \in Ahead'
        <5>1. c.eid + 2 \in 1..Len(leaf.ents) /\ c.eid + 1 < c.eid + 2
          BY <1>5, <3>1
        <5>2. PICK i \in 1..Len(leaf.ents) : i = c.eid + 2 /\ c.eid + 1 < i
          BY <5>1
        <5> HIDE DEF c, leaf
        <5> QED BY <4>3, <5>2
      <4>5. cursor'.pid # 0 /\ Ahead' # {}
        BY <1>3, <1>5, <4>2, <4>4
      <4> HIDE DEF e, Rest
      <4>6. \A x : x \in Ahead' <=> Remains(C, low, disk, c, x) /\ x # e
        BY <2>1, <4>3
      <4> QED BY <4>5, <4>6
    <3>2. CASE ~(c.eid + 1 < Len(leaf.ents))
      <4>1. \A i \in 1..Len(leaf.ents) : ~(c.eid + 1 < i)
        BY <1>5, <3>2
      <4>2. \A x : Remains(C, low, disk, c, x) /\ x # e <=> Rest(x)
        BY <2>1, <4>1
      <4> HIDE DEF e, Rest
      <4> QED BY <1>7, <3>2, <4>2
    <3> QED BY <3>1, <3>2
  <2>3. out'.entry = e /\ out'.rc = IF Ahead' = {} THEN "RC_INVALID_CURSOR" ELSE "OK"
    BY <1>1, <1>8, <2>2
  <2> HIDE DEF e, Rest
  <2>4. e \in Ahead /\ (\A x \in Ahead : e.key <= x.key) /\ Ahead' = Ahead \ {e}
    BY <1>4, <2>1, <2>2
  <2>5. Ordered!Read(e)
    BY <1>0, <1>1, <2>3, <2>4 DEF Ordered!Read, Ordered!Answers
  <2> QED BY <2>1, <2>5
<1>9. CASE ~here
  <2>1. ~(c.eid + 1 < Len(leaf.ents)) /\ \A i \in 1..Len(leaf.ents) : ~(c.eid < i)
    BY <1>5, <1>9
  <2>2. \A x : Remains(C, low, disk, c, x) <=> Rest(x)
    BY <2>1 DEF Remains
  <2> HIDE DEF Rest
  <2>3. Ahead' = Ahead /\ (cursor'.pid = 0 <=> Ahead = {})
    BY <1>4, <1>7, <2>1, <2>2
  <2>4. out.call = "locate" /\ out.rc # "OK"
    BY <1>2, <1>9 DEF Missed
  <2>5. out'.entry = NoEntry
        /\ out'.rc = IF Ahead = {} THEN "RC_INVALID_CURSOR" ELSE "RC_NO_SUCH_RECORD"
    BY <1>1, <1>9, <2>3
  <2>6. Ordered!ReadNothing
    BY <1>0, <1>1, <2>3, <2>4, <2>5 DEF Ordered!ReadNothing, Ordered!Answers
  <2> QED BY <2>6
<1> QED BY <1>8, <1>9

LEMMA StepIs ==
  ASSUME SInv, Next, Orderly
  PROVE  Ordered!Next \/ UNCHANGED <<acked, Asked, Ahead, out>>
<1> PICK C, low : Sorted(C, low)
  BY DEF SInv
<1>1. IInv /\ Typed /\ Books
  BY IsTyped DEF SInv, IInv
<1>2. /\ obj.mode = "none" \/ op.pc # "idle" => cursor = NoCursor
      /\ obj.mode = "r" => acked = saved
  BY DEF Sorted, Session
<1>3. Ordered!Session => Ordered!Next
  BY DEF Ordered!Next
<1>4. CASE OpenNew \/ Open("r") \/ Open("w")
  <2>1. cursor' = NoCursor /\ acked' = acked /\ out'.call = "open"
    BY <1>2, <1>4 DEF OpenNew, Open, Reply
  <2>2. obj.mode = "none" /\ op' = op
    BY <1>4 DEF OpenNew, Open
  <2>3. op'.pc # "seek"
    BY <1>1, <2>2, SeekTyped
  <2> QED BY <1>3, <2>1, <2>3, AheadNone, AskedIs DEF Ordered!Session
<1>5. CASE Close \/ CloseFails
  <2>1. cursor' = NoCursor /\ acked' = acked /\ out'.call = "close"
    BY <1>5 DEF Close, CloseFails, Reply
  <2>2. op' = Idle
    BY <1>5 DEF Close, CloseFails
  <2> QED BY <1>3, <2>1, <2>2, AheadNone, AskedIs DEF Ordered!Session
<1>6. CASE Abandon
  <2>1. cursor' = NoCursor /\ acked' = acked /\ out'.call = "none"
    BY <1>2, <1>6 DEF Orderly, Abandon, Reply
  <2>2. op' = Idle
    BY <1>6 DEF Abandon
  <2> QED BY <1>3, <2>1, <2>2, AheadNone, AskedIs DEF Ordered!Session
<1>7. CASE \E e \in Entry : InsertCall(e)
  <2>1. cursor' = NoCursor /\ acked' = acked /\ out' = out
    BY <1>7 DEF InsertCall
  <2>2. op'.pc # "seek"
    BY <1>7 DEF InsertCall
  <2> QED BY <1>3, <2>1, <2>2, AheadNone, AskedIs DEF Ordered!Session
<1>8. CASE Descend \/ SplitLeaf \/ WriteLeft \/ SeekDown
  <2>1. cursor = NoCursor /\ UNCHANGED <<cursor, acked, out>>
    BY <1>2, <1>8 DEF Descend, SplitLeaf, WriteLeft, SeekDown
  <2>2. CASE SeekDown
    <3>1. op.pc = "seek" /\ op' = [op EXCEPT !.at = ChildPtr(disk[op.at], op.key), !.level = @ + 1]
      BY <2>2 DEF SeekDown
    <3>2. op \in [pc : {"seek"}, key : Key, at : Pages(size), level : Nat]
      BY <1>1, <3>1, SeekTyped
    <3>3. op'.pc = "seek" /\ op'.key = op.key
      BY <3>1, <3>2
    <3> QED BY <2>1, <3>1, <3>3, AheadNone, AskedIs
  <2>3. CASE Descend
    <3>1. /\ op.pc = "down"
          /\ op' = [op EXCEPT !.at   = ChildPtr(disk[op.at], op.entry.key),
                              !.held = Append(@, [pid |-> op.at, node |-> disk[op.at]])]
      BY <2>3 DEF Descend
    <3>2. op \in [pc : {"down"}, entry : Entry, at : Pages(size), held : Seq(HeldPage)]
      BY <1>1, <3>1 DEF Typed, Inserting
    <3>3. op.pc # "seek" /\ op'.pc # "seek"
      BY <3>1, <3>2
    <3> QED BY <2>1, <3>3, AheadNone, AskedIs
  <2>4. CASE SplitLeaf \/ WriteLeft
    <3>1. op.pc # "seek" /\ op'.pc # "seek"
      BY <2>4 DEF SplitLeaf, WriteLeft
    <3> QED BY <2>1, <3>1, AheadNone, AskedIs
  <2> QED BY <1>8, <2>2, <2>3, <2>4
<1>9. CASE InsertFirst \/ InsertInLeaf \/ InsertInNonLeaf \/ NewRoot
  <2>1. /\ op.pc \in Inserting /\ cursor' = cursor /\ acked' = acked \cup {op.entry}
        /\ out' = Reply("insert", "OK")
    BY <1>9 DEF InsertFirst, InsertInLeaf, InsertInNonLeaf, NewRoot, Return, Inserting
  <2>2. op.entry \in Entry
    BY <1>1, <2>1 DEF Typed
  <2>3. Ahead' = {}
    BY <1>2, <2>1, AheadNone DEF Inserting
  <2>4. op' = Idle
    BY <1>9 DEF InsertFirst, InsertInLeaf, InsertInNonLeaf, NewRoot, Return
  <2>5. Ordered!Add(op.entry)
    BY <2>1, <2>3, <2>4, AskedIs DEF Ordered!Add, Ordered!Answers, Reply
  <2> QED BY <2>2, <2>5 DEF Ordered!Next
<1>10. CASE \E k \in Key : LocateCall(k)
  <2>1. PICK k \in Key : LocateCall(k)
    BY <1>10
  <2>2. cursor' = NoCursor /\ acked' = acked
    BY <2>1 DEF LocateCall
  <2>3. CASE obj.height = 0
    <3>1. Base(C, low, disk, size, obj.root, obj.height, C, acked)
          /\ LeadsTo(low, disk, size, obj.root, obj.height, C, C)
      BY <1>1, <2>1, InUse DEF LocateCall, Idle
    <3>2. acked = {}
      BY <2>3, <3>1 DEF Base, LeadsTo, Content
    <3>3. out' = Reply("locate", "RC_INVALID_PID")
      BY <2>1, <2>3 DEF LocateCall
    <3>4. Ordered!Search(k)
      <4>1. op' = Idle
        BY <2>1, <2>3 DEF LocateCall
      <4> QED BY <2>2, <3>2, <3>3, <4>1, AheadNone, AskedIs DEF Ordered!Search, Reply
    <3> QED BY <3>4 DEF Ordered!Next
  <2>4. CASE obj.height # 0
    <3>1. out' = out /\ op'.pc = "seek" /\ op'.key = k
      BY <2>1, <2>4 DEF LocateCall
    <3>2. Ordered!Ask(k)
      BY <2>2, <3>1, AheadNone, AskedIs DEF Ordered!Ask
    <3> QED BY <3>2 DEF Ordered!Next
  <2> QED BY <2>3, <2>4
<1>11. CASE SeekLeaf
  <2>1. Ordered!Search(op.key)
    BY <1>1, <1>11, SearchIs
  <2>2. op.key \in Key
    <3>1. op \in [pc : {"seek"}, key : Key, at : Pages(size), level : Nat]
      BY <1>1, <1>11, SeekTyped DEF SeekLeaf
    <3> QED BY <3>1
  <2> QED BY <2>1, <2>2 DEF Ordered!Next
<1>12. CASE ReadForward
  <2>1. Ordered!ReadNothing \/ \E e \in Entry : Ordered!Read(e)
    BY <1>1, <1>12, ReadIs
  <2> QED BY <2>1 DEF Ordered!Next
<1>13. ~SplitNonLeaf /\ ~InsertFails
  BY DEF Orderly
<1> QED BY <1>4, <1>5, <1>6, <1>7, <1>8, <1>9, <1>10, <1>11, <1>12, <1>13 DEF Next, InsertStep

\* As long as no key is inserted twice, no insert fails, a writer closes, and no
\* non-leaf is split, the pages behave as the ordered set of Index.tla: insert adds
\* to it, locate answers whether it has the key, and readForward lists what it has
\* from there on, in order and once each, across every split in between.
THEOREM TreeIsIndex == OrderlySpec => IsIndex
<1>1. Init => Ordered!Init
  <2> SUFFICES ASSUME Init PROVE Ordered!Init
    OBVIOUS
  <2>1. acked = {} /\ cursor = NoCursor /\ out.call = "none"
    BY DEF Init, Reply
  <2>2. op.pc # "seek"
    BY DEF Init, Idle
  <2> QED BY <2>1, <2>2, AheadNone, AskedIs DEF Ordered!Init
<1>2. SInv /\ [Next /\ Orderly]_vars => [Ordered!Next]_(Ordered!vars)
  <2> SUFFICES ASSUME SInv, [Next /\ Orderly]_vars PROVE Ordered!Next \/ UNCHANGED Ordered!vars
    OBVIOUS
  <2>1. CASE UNCHANGED vars
    <3>1. disk' = disk /\ size' = size /\ cursor' = cursor /\ acked' = acked /\ out' = out
      BY <2>1 DEF vars
    <3>2. Ahead' = Ahead
      BY <3>1, AheadIs
    <3>3. Asked' = Asked
      BY <2>1 DEF vars, Asked
    <3> QED BY <3>1, <3>2, <3>3 DEF Ordered!vars
  <2>2. CASE Next /\ Orderly
    BY <2>2, StepIs DEF Ordered!vars
  <2> QED BY <2>1, <2>2
<1> QED BY <1>1, <1>2, OrderInductive, PTL DEF OrderlySpec, IsIndex, Ordered!Spec

-----------------------------------------------------------------------------
(* What holds of an index in every behaviour.                              *)

\* Nothing leads to page b, of a root, a non-leaf or a node that is held.
Unled(b, d, s, c, o) ==
  LET Q == Pages(s) \ {b} IN
  /\ \A p \in Q : d[p].kind # "leaf" => d[p] \in NonLeafNode(Key, Q)
  /\ d[0].height > 0 => d[0].root # b
  /\ o.root # b
  /\ \A i \in 1..Len(c.held) : c.held[i].pid # b /\ c.held[i].node \in NonLeafNode(Key, Q)
  /\ c.pc = "left" => c.at # b /\ (c.page.kind # "leaf" => c.page \in NonLeafNode(Key, Q))

\* The largest key of S is the one that o has.
TightMax(o, S) ==
  IF S = {} THEN o.height = 0 /\ o.max = IntMin ELSE \E e \in S : e.key = o.max

\* What a writer has acknowledged, and is inserting.
Coming == acked \cup (IF op.pc \in Inserting THEN {op.entry} ELSE {})

Sitting ==
  /\ Session
  /\ saved \subseteq acked
  /\ op.pc \in Inserting => op.entry \notin acked
  /\ obj.mode = "w" /\ acked = saved /\ disk[0].height > 0 =>
       obj.root = disk[0].root /\ obj.height = disk[0].height
  /\ op.pc \in {"left", "up"} => Unled(op.over.pid, disk, size, op, obj)
  /\ obj.mode = "w" => TightMax(obj, Coming)
  /\ size > 0 => TightMax(disk[0], saved)

\* What leads to a page leads to one that there is.
LEMMA LeadsInside ==
  ASSUME IInv
  PROVE  /\ \A p \in Pages(size) : disk[p].kind # "leaf" => disk[p] \in NonLeafNode(Key, Pages(size))
         /\ size > 0 /\ disk[0].height > 0 => disk[0].root \in Pages(size)
         /\ obj.height > 0 => obj.root \in Pages(size)
         /\ op.pc \in {"down", "left", "up"} =>
              \A i \in 1..Len(op.held) : /\ op.held[i].pid \in Pages(size)
                                         /\ op.held[i].node \in NonLeafNode(Key, Pages(size))
<1>1. PICK lvl \in Levels(size) : Levelled(lvl)
  BY DEF IInv
<1>2. DOMAIN lvl = Pages(size) /\ (\A k : At(lvl, k) \subseteq Pages(size))
      /\ Store(lvl, disk, size) /\ Object(lvl, obj, size) /\ Operation(lvl, op, obj, size)
  BY <1>1 DEF Levelled, Levels, At, Pages
<1>3. ASSUME NEW p \in Pages(size), disk[p].kind # "leaf"
      PROVE  disk[p] \in NonLeafNode(Key, Pages(size))
  <2>1. disk[p] \in NodeAt(lvl, lvl[p])
    BY <1>2 DEF Store, Pages
  <2>2. disk[p] \in NonLeafNode(Key, At(lvl, lvl[p] - 1))
    BY <1>3, <2>1 DEF NodeAt, LeafNode
  <2> QED BY <1>2, <2>2, NonLeafMono
<1>4. size > 0 /\ disk[0].height > 0 => disk[0].root \in Pages(size)
  BY <1>2 DEF Store
<1>5. obj.height > 0 => obj.root \in Pages(size)
  BY <1>2 DEF Object
<1>6. ASSUME op.pc \in {"down", "left", "up"}, NEW i \in 1..Len(op.held)
      PROVE  op.held[i].pid \in Pages(size) /\ op.held[i].node \in NonLeafNode(Key, Pages(size))
  <2>1. Held(lvl, op.held, obj.height)
    BY <1>2, <1>6 DEF Operation
  <2>2. /\ op.held[i].pid \in At(lvl, obj.height - i + 1)
        /\ op.held[i].node \in NonLeafNode(Key, At(lvl, obj.height - i))
    BY <2>1 DEF Held
  <2> QED BY <1>2, <2>2, NonLeafMono
<1> QED BY <1>3, <1>4, <1>5, <1>6

\* The sibling of a split is a new page.
LEMMA SplitUnled ==
  ASSUME IInv, SplitLeaf \/ SplitNonLeaf
  PROVE  op'.pc = "left" /\ Unled(op'.over.pid, disk', size', op', obj')
<1> DEFINE b == size
           Q == Pages(size)
<1>1. Typed /\ op.pc \in {"down", "up"} /\ size \in Nat /\ size > 0 /\ obj' = obj /\ obj.height > 0
  BY IsTyped, LeadsInside DEF SplitLeaf, SplitNonLeaf, Typed, Inserting
<1>2. op'.pc = "left" /\ op'.over.pid = size /\ op'.entry = op.entry /\ \E page : WritePage(size, page)
  BY DEF SplitLeaf, SplitNonLeaf
<1>3. size' = size + 1 /\ disk'[0] = disk[0] /\ \A p \in Pages(size) : disk'[p] = disk[p]
  <2>1. size \in 0..size
    BY <1>1
  <2>2. \A p \in Pages(size) : p \in Pages(size + 1) /\ p # size
    BY <1>1 DEF Pages
  <2> QED BY <1>1, <1>2, <2>1, <2>2, Wrote
<1>4. Pages(size') \ {size} = Q
  BY <1>1, <1>3 DEF Pages
<1>5. /\ \A p \in Q : disk[p].kind # "leaf" => disk[p] \in NonLeafNode(Key, Q)
      /\ disk[0].height > 0 => disk[0].root \in Q
      /\ obj.root \in Q
      /\ \A i \in 1..Len(op.held) : op.held[i].pid \in Q /\ op.held[i].node \in NonLeafNode(Key, Q)
  BY <1>1, LeadsInside
<1>6. size \notin Q
  BY DEF Pages
<1>7. \A i \in 1..Len(op'.held) : op'.held[i].pid \in Q /\ op'.held[i].node \in NonLeafNode(Key, Q)
  <2>1. CASE SplitLeaf
    BY <1>5, <2>1 DEF SplitLeaf
  <2>2. CASE SplitNonLeaf
    <3> DEFINE n == Len(op.held)
    <3>1. op'.held = SubSeq(op.held, 1, n - 1) /\ op.held # <<>> /\ op.pc = "up"
      BY <2>2 DEF SplitNonLeaf
    <3>2. op.held \in Seq(HeldPage) /\ n \in Nat /\ n > 0
      BY <1>1, <3>1, EmptySeq DEF Typed
    <3>3. Len(op'.held) = n - 1 /\ \A i \in 1..(n - 1) : op'.held[i] = op.held[i]
      <4>1. 1 \in Nat \ {0} /\ n - 1 \in 0..Len(op.held) /\ 1 <= (n - 1) + 1
        BY <3>2
      <4>2. Len(op'.held) = (n - 1) - 1 + 1 /\ \A i \in 1..((n - 1) - 1 + 1) : op'.held[i] = op.held[1 + i - 1]
        BY <3>1, <3>2, <4>1, SubSeqPlaces
      <4>3. (n - 1) - 1 + 1 = n - 1 /\ \A i \in 1..(n - 1) : 1 + i - 1 = i
        BY <3>2
      <4> QED BY <4>2, <4>3
    <3>4. \A i \in 1..(n - 1) : i \in 1..n
      BY <3>2
    <3> QED BY <1>5, <3>3, <3>4
  <2> QED BY <2>1, <2>2
<1>8. op'.at \in Q /\ (op'.page.kind # "leaf" => op'.page \in NonLeafNode(Key, Q))
  <2>1. CASE SplitLeaf
    <3>1. op'.at = op.at /\ op.pc = "down" /\ AtLeaf /\ LeafFull(disk[op.at])
          /\ op'.page = LeafHalves(disk[op.at], op.entry).left /\ op.entry \in Entry
      BY <1>1, <2>1 DEF SplitLeaf, Typed, Inserting
    <3>2. op.at \in Q /\ disk[op.at].kind = "leaf" /\ disk[op.at] \in LeafPage
      BY <1>1, <3>1 DEF Typed, LeafNode, LeafPage, NonLeafPage, NonLeafNode
    <3>3. Linked(Nat, disk[op.at], LeafSplit(disk[op.at], op.entry), LeafHalves(disk[op.at], op.entry))
      BY <3>1, <3>2, SplitNodes DEF LeafPage
    <3>4. op'.page.kind = "leaf"
      BY <3>1, <3>3 DEF Linked, LeafNode
    <3> QED BY <3>1, <3>2, <3>4
  <2>2. CASE SplitNonLeaf
    <3>1. op'.at = Parent.pid /\ op'.page = NonLeafSplit(Parent.node, op.over).left
          /\ op.pc = "up" /\ op.held # <<>> /\ NonLeafFull(Parent.node)
      BY <2>2 DEF SplitNonLeaf
    <3>2. Len(op.held) \in 1..Len(op.held)
      <4>1. op.held \in Seq(HeldPage) /\ Len(op.held) \in Nat /\ Len(op.held) > 0
        BY <1>1, <3>1, EmptySeq DEF Typed
      <4> QED BY <4>1
    <3>3. Parent.pid \in Q /\ Parent.node \in NonLeafNode(Key, Q)
      BY <1>5, <3>2 DEF Parent
    <3>4. op.over \in Separator(Key, Q)
      BY <1>1, <3>1 DEF Typed
    <3>5. NonLeafSplit(Parent.node, op.over).left \in NonLeafNode(Key, Q)
      BY <3>1, <3>3, <3>4, EntryKeyed, NonLeafSplitType
    <3> QED BY <3>1, <3>3, <3>5
  <2> QED BY <2>1, <2>2
<1> QED BY <1>1, <1>2, <1>3, <1>4, <1>5, <1>6, <1>7, <1>8 DEF Unled

\* The node that is about to be written does not lead to it either.
LEMMA WriteLeftUnled ==
  ASSUME IInv, WriteLeft, Unled(op.over.pid, disk, size, op, obj)
  PROVE  op'.pc = "up" /\ Unled(op'.over.pid, disk', size', op', obj')
<1> DEFINE Q == Pages(size) \ {op.over.pid}
<1>1. op.pc = "left" /\ WritePage(op.at, op.page) /\ op.at \in Pages(size) /\ size \in Nat /\ obj' = obj
      /\ Typed /\ op' = [pc |-> "up", entry |-> op.entry, held |-> op.held, over |-> op.over]
  BY IsTyped DEF WriteLeft, Typed
<1>2. size' = size /\ disk'[0] = disk[0]
      /\ \A p \in Pages(size) : disk'[p] = IF p = op.at THEN op.page ELSE disk[p]
  <2>1. op.at \in 0..size /\ size > 0 /\ op.at # size /\ op.at # 0
    BY <1>1 DEF Pages
  <2> QED BY <1>1, <2>1, Wrote
<1>3. \A p \in Q : disk'[p].kind # "leaf" => disk'[p] \in NonLeafNode(Key, Q)
  BY <1>1, <1>2 DEF Unled
<1> QED BY <1>1, <1>2, <1>3 DEF Unled

LEMMA MaxWidened ==
  ASSUME NEW o \in ObjType, NEW S, TightMax(o, S), NEW e \in Entry
  PROVE  TightMax(Widened(o, e.key), S \cup {e})
<1>1. o.max \in Int /\ e.key \in Int /\ IntMin <= e.key /\ IntMin \in Int
  <2>1. o.max \in Bound /\ e.key \in Key
    BY DEF ObjType, Entry
  <2> QED BY <2>1, BoundsAreInts, KeyBounds
<1>2. Widened(o, e.key).max = IF e.key > o.max THEN e.key ELSE o.max
  BY DEF Widened, ObjType
<1>3. S # {} => \E d \in S : d.key = o.max
  BY DEF TightMax
<1>4. S = {} => o.max = IntMin
  BY DEF TightMax
<1>5. \E d \in S \cup {e} : d.key = Widened(o, e.key).max
  BY <1>1, <1>2, <1>3, <1>4
<1> QED BY <1>5 DEF TightMax

LEMMA InitSitting == Init => Sitting
BY DEF Init, Sitting, Session, Fresh, Idle, Inserting

\* An insert does not write the header.
LEMMA HeaderStays ==
  ASSUME Typed, NEW live, NEW spine, NEW rank, Chained(live, spine, rank), InsertStep
  PROVE  size > 0 /\ size' > 0 /\ disk'[0] = disk[0]
<1>1. size \in Nat /\ obj \in ObjType
  BY DEF Typed
<1>2. CASE Descend
  <2>1. op.pc = "down" /\ disk' = disk /\ size' = size
    BY <1>2 DEF Descend
  <2> QED BY <1>1, <2>1 DEF Typed, Inserting
<1>3. ASSUME ~Descend
      PROVE  \E pid \in 1..size : \E page : WritePage(pid, page)
  <2>1. CASE InsertFirst
    <3>1. WritePage(obj.root, LeafInsert(EmptyLeaf, op.entry)) /\ obj.root \in 1..size
      BY <1>1, <2>1 DEF InsertFirst, Typed, Inserting
    <3> QED BY <3>1
  <2>2. CASE InsertInLeaf
    <3>1. op.pc = "down" /\ WritePage(op.at, LeafInsert(disk[op.at], op.entry))
      BY <2>2 DEF InsertInLeaf
    <3>2. op.at \in Pages(size)
      BY <3>1 DEF Typed
    <3>3. op.at \in 1..size
      BY <1>1, <3>2 DEF Pages
    <3> QED BY <3>1, <3>3
  <2>3. CASE InsertInNonLeaf
    <3>1. WritePage(Parent.pid, NonLeafInsert(Parent.node, op.over)) /\ op.pc = "up" /\ op.held # <<>>
      BY <2>3 DEF InsertInNonLeaf
    <3>2. Parent.pid \in Pages(size)
      BY <3>1, ParentChained
    <3>3. Parent.pid \in 1..size
      BY <1>1, <3>2 DEF Pages
    <3> QED BY <3>1, <3>3
  <2>4. CASE WriteLeft
    <3>1. WritePage(op.at, op.page) /\ op.pc = "left"
      BY <2>4 DEF WriteLeft
    <3>2. op.at \in 1..size
      BY <1>1, <3>1 DEF Typed, Pages
    <3> QED BY <3>1, <3>2
  <2>5. CASE SplitLeaf \/ SplitNonLeaf \/ NewRoot
    <3>1. (\E page : WritePage(size, page)) /\ op.pc \in {"down", "up"}
      BY <2>5 DEF SplitLeaf, SplitNonLeaf, NewRoot
    <3>2. size \in 1..size
      BY <1>1, <3>1 DEF Typed, Inserting
    <3> QED BY <3>1, <3>2
  <2> QED BY <1>3, <2>1, <2>2, <2>3, <2>4, <2>5 DEF InsertStep
<1>4. CASE ~Descend
  <2>1. PICK pid \in 1..size : \E page : WritePage(pid, page)
    BY <1>3, <1>4
  <2>2. pid \in 0..size /\ pid # 0 /\ size > 0
    BY <1>1
  <2>3. size' = (IF pid = size THEN size + 1 ELSE size) /\ disk'[0] = disk[0]
    BY <2>1, <2>2, Wrote
  <2> QED BY <1>1, <2>2, <2>3
<1> QED BY <1>2, <1>4

\* The steps that return from an insert.
LEMMA ReturnsSitting ==
  ASSUME Typed, Books, Sitting, InsertFirst \/ InsertInLeaf \/ InsertInNonLeaf \/ NewRoot,
         disk'[0] = disk[0], size > 0
  PROVE  Sitting'
<1>1. /\ op.pc \in Inserting /\ op' = Idle /\ acked' = acked \cup {op.entry} /\ saved' = saved /\ cursor' = cursor
      /\ obj'.mode = "w" /\ obj'.max = obj.max
  BY DEF InsertFirst, InsertInLeaf, InsertInNonLeaf, NewRoot, Return, Inserting, Typed, ObjType
<1>2. op'.pc = "idle" /\ op'.pc \notin Inserting
  BY <1>1 DEF Idle, Inserting
<1>3. Coming = acked' /\ Coming' = acked' /\ acked' # {} /\ acked' # saved'
  BY <1>1, <1>2 DEF Coming, Sitting
<1>4. TightMax(obj', Coming')
  <2>1. TightMax(obj, acked')
    BY <1>1, <1>3 DEF Sitting, Typed
  <2> QED BY <1>1, <1>3, <2>1 DEF TightMax
<1>5. cursor = NoCursor
  BY <1>1 DEF Sitting, Session, Inserting
<1>6. Session'
  BY <1>1, <1>2, <1>5 DEF Session
<1>7. size' > 0 => TightMax(disk'[0], saved')
  BY <1>1 DEF Sitting
<1> QED BY <1>1, <1>2, <1>3, <1>4, <1>6, <1>7 DEF Sitting

LEMMA NextSitting ==
  ASSUME CInv, Sitting, [Next]_vars
  PROVE  Sitting'
<1>1. IInv /\ Typed /\ Books
  BY IsTyped DEF CInv, IInv
<1>2. PICK live, spine, rank : Chained(live, spine, rank)
  BY DEF CInv
<1>3. Rooted(spine) /\ size \in Nat
  BY <1>1, <1>2 DEF Chained, Typed
<1>4. CASE UNCHANGED vars
  BY <1>4 DEF vars, Sitting, Session, Coming
<1>5. CASE OpenNew
  <2>1. size = 0 /\ op.pc = "idle" /\ acked = {} /\ saved = {} /\ obj.mode = "none"
        /\ UNCHANGED <<op, cursor, acked, saved>>
    BY <1>1, <1>5 DEF OpenNew, Books, Sitting
  <2>2. Coming' = {}
    BY <2>1 DEF Coming, Inserting
  <2>3. CASE UNCHANGED <<disk, size, obj>>
    BY <2>1, <2>3 DEF Sitting, Session, Inserting
  <2>4. CASE WritePage(0, Header(Fresh)) /\ obj' = [Fresh EXCEPT !.mode = "w"]
    <3>1. 0 \in 0..size
      BY <1>3
    <3>2. disk'[0] = Header(Fresh)
      BY <1>1, <2>4, <3>1, Wrote
    <3>3. disk'[0].height = 0 /\ disk'[0].max = IntMin /\ obj'.height = 0 /\ obj'.max = IntMin
          /\ obj'.mode = "w"
      BY <2>4, <3>2 DEF Header, Fresh
    <3>4. TightMax(disk'[0], saved') /\ TightMax(obj', Coming')
      BY <2>1, <2>2, <3>3 DEF TightMax
    <3> QED BY <2>1, <3>3, <3>4 DEF Sitting, Session, Inserting
  <2> QED BY <1>5, <2>3, <2>4 DEF OpenNew
<1>6. CASE Open("r") \/ Open("w")
  <2>1. op.pc = "idle" /\ acked = saved /\ size > 0 /\ UNCHANGED <<disk, size, op, cursor, acked, saved>>
        /\ cursor = NoCursor
        /\ obj'.root = disk[0].root /\ obj'.height = disk[0].height /\ obj'.max = disk[0].max
    BY <1>1, <1>6 DEF Open, Books, Sitting, Session
  <2>2. Coming' = saved
    BY <2>1 DEF Coming, Inserting
  <2>3. TightMax(disk[0], saved)
    BY <2>1 DEF Sitting
  <2>4. TightMax(obj', Coming')
    BY <2>1, <2>2, <2>3 DEF TightMax
  <2> QED BY <2>1, <2>3, <2>4 DEF Sitting, Session, Inserting
<1>7. CASE Close
  <2>1. op.pc = "idle" /\ op' = op /\ acked' = acked /\ saved' = acked /\ obj.mode = "w"
        /\ WritePage(0, Header(obj)) /\ obj'.mode = "none" /\ cursor' = NoCursor
    BY <1>7 DEF Close, Fresh, Idle
  <2>2. disk'[0] = Header(obj)
    <3>1. 0 \in 0..size
      BY <1>3
    <3> QED BY <1>1, <2>1, <3>1, Wrote
  <2>3. Coming = acked
    BY <2>1 DEF Coming, Inserting
  <2>4. TightMax(obj, acked)
    BY <2>1, <2>3 DEF Sitting
  <2>5. disk'[0].height = obj.height /\ disk'[0].max = obj.max
    BY <2>2 DEF Header
  <2>6. TightMax(disk'[0], saved')
    BY <2>1, <2>4, <2>5 DEF TightMax
  <2> QED BY <2>1, <2>6 DEF Sitting, Session, Inserting
<1>8. CASE CloseFails
  <2>1. op.pc = "idle" /\ cursor' = NoCursor /\ UNCHANGED <<disk, size, obj, op, acked, saved>>
    BY <1>8 DEF CloseFails, Idle
  <2> QED BY <2>1 DEF Sitting, Session, Coming
<1>9. CASE Abandon \/ InsertFails
  <2>1. op'.pc = "idle" /\ cursor' = NoCursor /\ acked' = saved /\ obj'.mode = "none"
        /\ UNCHANGED <<disk, size, saved>>
    BY <1>9 DEF Abandon, InsertFails, Idle, Fresh, Sitting, Session
  <2> QED BY <2>1 DEF Sitting, Session, Inserting
<1>10. CASE \E e \in Entry : InsertCall(e)
  <2>1. PICK e \in Entry : InsertCall(e)
    BY <1>10
  <2>2. obj.mode = "w" /\ op.pc = "idle" /\ op'.pc \in {"first", "down"} /\ op'.entry = e /\ e \notin acked
        /\ obj' = [Widened(obj, e.key) EXCEPT !.root = IF obj.height = 0 THEN size ELSE @]
        /\ cursor' = NoCursor /\ UNCHANGED <<disk, size, acked, saved>>
    BY <2>1 DEF InsertCall, Idle
  <2>3. Coming = acked /\ Coming' = acked \cup {e}
    BY <2>2 DEF Coming, Inserting
  <2>4. obj \in ObjType
    BY <1>1 DEF Typed
  <2>5. TightMax(Widened(obj, e.key), Coming')
    BY <2>2, <2>3, <2>4, MaxWidened DEF Sitting
  <2>6. obj'.max = Widened(obj, e.key).max /\ obj'.mode = "w" /\ obj'.height = obj.height
        /\ (obj.height > 0 => obj'.root = obj.root)
    BY <2>2, <2>4 DEF Widened, ObjType
  <2>7. TightMax(obj', Coming')
    BY <2>3, <2>5, <2>6 DEF TightMax
  <2>8. disk[0].height > 0 => obj.height > 0
    BY <1>1, <1>3, <2>2 DEF Rooted, Typed
  <2> QED BY <2>2, <2>6, <2>7, <2>8 DEF Sitting, Session, Inserting
<1>11. CASE InsertFirst \/ InsertInLeaf \/ InsertInNonLeaf \/ NewRoot
  <2>1. size > 0 /\ disk'[0] = disk[0]
    BY <1>1, <1>2, <1>11, HeaderStays DEF InsertStep
  <2> QED BY <1>1, <1>11, <2>1, ReturnsSitting
<1>12. CASE Descend \/ SeekDown \/ (\E k \in Key : LocateCall(k)) \/ SeekLeaf \/ ReadForward
  <2>1. UNCHANGED <<disk, size, obj, acked, saved>>
    BY <1>12 DEF Descend, SeekDown, SeekLeaf, ReadForward, LocateCall
  <2>2. /\ op'.pc \in Inserting => op.pc = "down" /\ op'.pc = "down" /\ op'.entry = op.entry
        /\ op.pc \in Inserting => op'.pc \in Inserting /\ op'.entry = op.entry
        /\ obj'.mode = "none" \/ op'.pc # "idle" => cursor' = NoCursor
    <3>1. CASE Descend
      <4>1. op.pc = "down" /\ cursor' = cursor /\ op \in [pc : {"down"}, entry : Entry, at : Pages(size), held : Seq(HeldPage)]
        BY <1>1, <3>1 DEF Descend, Typed
      <4>2. op'.pc = "down" /\ op'.entry = op.entry
        BY <3>1, <4>1 DEF Descend
      <4> QED BY <4>1, <4>2 DEF Inserting, Sitting, Session
    <3>2. CASE SeekDown
      <4>1. op.pc = "seek" /\ op'.pc = op.pc /\ cursor' = cursor
        BY <3>2 DEF SeekDown
      <4> QED BY <4>1 DEF Inserting, Sitting, Session
    <3>3. CASE \E k \in Key : LocateCall(k)
      <4>1. op.pc = "idle" /\ op'.pc \in {"idle", "seek"} /\ cursor' = NoCursor
        BY <3>3 DEF LocateCall, Idle
      <4> QED BY <4>1 DEF Inserting
    <3>4. CASE SeekLeaf
      <4>1. op.pc = "seek" /\ op'.pc = "idle"
        BY <3>4 DEF SeekLeaf, Idle
      <4>2. op.pc = "seek" => obj.mode # "none"
        BY <1>1 DEF Books
      <4> QED BY <2>1, <4>1, <4>2 DEF Inserting
    <3>5. CASE ReadForward
      <4>1. op.pc = "idle" /\ op' = op /\ cursor # NoCursor
        BY <3>5 DEF ReadForward, Idle
      <4>2. obj.mode # "none"
        BY <4>1 DEF Sitting, Session
      <4> QED BY <2>1, <4>1, <4>2 DEF Inserting
    <3> QED BY <1>12, <3>1, <3>2, <3>3, <3>4, <3>5
  <2>4. Coming' = Coming
    BY <2>1, <2>2 DEF Coming, Inserting
  <2>5. Session'
    BY <2>1, <2>2 DEF Sitting, Session
  <2> QED BY <2>1, <2>2, <2>4, <2>5 DEF Sitting, Inserting
<1>13. CASE SplitLeaf \/ SplitNonLeaf \/ WriteLeft
  <2>1. UNCHANGED <<obj, acked, saved, cursor>> /\ op.pc \in Inserting /\ op'.pc \in {"left", "up"} /\ op'.entry = op.entry
    BY <1>13 DEF SplitLeaf, SplitNonLeaf, WriteLeft, Inserting
  <2>2. disk'[0] = disk[0] /\ size > 0
    BY <1>1, <1>2, <1>13, HeaderStays DEF InsertStep
  <2>3. Unled(op'.over.pid, disk', size', op', obj')
    <3>1. CASE WriteLeft
      <4>1. Unled(op.over.pid, disk, size, op, obj)
        BY <3>1 DEF WriteLeft, Sitting
      <4> QED BY <1>1, <3>1, <4>1, WriteLeftUnled
    <3>2. CASE SplitLeaf \/ SplitNonLeaf
      BY <1>1, <3>2, SplitUnled
    <3> QED BY <1>13, <3>1, <3>2
  <2>4. Coming' = Coming
    BY <2>1 DEF Coming, Inserting
  <2>5. Session'
    BY <2>1, <2>2, <1>1 DEF Sitting, Session, Inserting
  <2>6. size' > 0 => TightMax(disk'[0], saved')
    BY <2>1, <2>2 DEF Sitting
  <2>7. op'.pc \in Inserting => op'.entry \notin acked'
    BY <2>1 DEF Sitting
  <2>8. obj'.mode = "w" => TightMax(obj', Coming')
    BY <2>1, <2>4 DEF Sitting
  <2> QED BY <2>1, <2>2, <2>3, <2>5, <2>6, <2>7, <2>8 DEF Sitting
<1> QED BY <1>4, <1>5, <1>6, <1>7, <1>8, <1>9, <1>10, <1>11, <1>12, <1>13 DEF Next, InsertStep

-----------------------------------------------------------------------------
(* A tree is sorted, or it is spoiled for good, or the insert on its way    *)
(* spoils it.                                                               *)

\* A key is on the leaves twice; an entry is that no close will ever follow; or a
\* leaf is on the chain to which the tree does not lead.
Twice(rank) == \E x, y \in OnLeaves(rank, disk) : x # y /\ x.key = y.key
Lost(rank) ==
  \E x \in OnLeaves(rank, disk) :
    x \notin acked \cup saved /\ (op.pc \in Inserting => x # op.entry)
Orphaned(live, rank) == \E p \in DOMAIN rank : p \notin live
Spoiled(live, rank) ==
  size > 0 /\ Tree.height > 0 /\ (Twice(rank) \/ Lost(rank) \/ Orphaned(live, rank))

\* The pages are the leaves and the tree that the header leads to.
AsSaved ==
  \E C, low : Base(C, low, disk, size, disk[0].root, disk[0].height, C, saved)

\* The key of the entry that is about to be put into a leaf is there already.
Doubling(rank) ==
  /\ op.pc = "down" \/ (op.pc = "left" /\ op.page.kind = "leaf")
  /\ \E x \in OnLeaves(rank, disk) : x.key = op.entry.key
  /\ acked = saved /\ disk[0].height > 0 => AsSaved

IsSorted == \E C, low : Sorted(C, low)
Order(live, spine, rank) ==
  /\ Chained(live, spine, rank) /\ Once(DOMAIN rank, disk, op)
  /\ Spoiled(live, rank) \/ Doubling(rank) \/ IsSorted

LEMMA NodeWithout ==
  ASSUME NEW A, NEW B, NEW n \in NonLeafNode(Key, A), n \in NonLeafNode(Key, B)
  PROVE  n \in NonLeafNode(Key, A \cap B)
<1>1. n.ents \in Seq(Separator(Key, A)) /\ n.ents \in Seq(Separator(Key, B)) /\ n.first \in A \cap B
  BY DEF NonLeafNode
<1>2. n.ents \in Seq(Separator(Key, A \cap B))
  <2>1. \A i \in 1..Len(n.ents) : n.ents[i] \in Separator(Key, A) /\ n.ents[i] \in Separator(Key, B)
    BY <1>1, ElementOfSeq
  <2>2. \A i \in 1..Len(n.ents) : n.ents[i] \in Separator(Key, A \cap B)
    BY <2>1 DEF Separator
  <2>3. SubSeq(n.ents, 1, Len(n.ents)) \in Seq(Separator(Key, A \cap B))
    <3>1. Len(n.ents) \in Int /\ 1 \in Int
      BY <1>1
    <3> QED BY <2>2, <3>1, SubSeqProperties
  <2>4. SubSeq(n.ents, 1, Len(n.ents)) = n.ents
    BY <1>1, SubSeqFull
  <2> QED BY <2>3, <2>4
<1> QED BY <1>1, <1>2 DEF NonLeafNode

\* A leaf whose separator no node has taken in is led to by none.
LEMMA SplitOrphans ==
  ASSUME NEW live, NEW spine, NEW rank, Chained(live, spine, rank), Typed, SplitNonLeaf,
         Unled(op.over.pid, disk, size, op, obj)
  PROVE  \E more, top : Chained(more, top, rank)' /\ op.over.pid \notin more
<1> PICK b : b = op.over.pid
  OBVIOUS
<1> DEFINE L == live \ {b}
           T == spine \ {b}
           Q == Pages(size) \ {b}
<1>1. /\ Strung(rank, disk, size) /\ Woven(live, spine, rank, disk, size) /\ Rooted(spine)
      /\ HeldIn(live, spine, op.held) /\ op.pc = "up"
      /\ acked \cup saved \subseteq OnLeaves(rank, disk) /\ op.entry \in OnLeaves(rank, disk)
  BY DEF Chained, Going, SplitNonLeaf
<1>2. /\ \A p \in Q : disk[p].kind # "leaf" => disk[p] \in NonLeafNode(Key, Q)
      /\ disk[0].height > 0 => disk[0].root # b
      /\ obj.root # b
      /\ \A i \in 1..Len(op.held) : op.held[i].pid # b /\ op.held[i].node \in NonLeafNode(Key, Q)
  BY DEF Unled
<1>3. b \in Pages(size) /\ size \in Nat
  BY <1>1 DEF Typed, Separator
<1>4. live \cap Q = L
  BY <1>1 DEF Woven
<1>5. ASSUME NEW p, NEW node, NodeIn(live, spine, p, node), node \in NonLeafNode(Key, Q)
      PROVE  NodeIn(L, T, p, node)
  <2>1. node \in NonLeafNode(Key, L)
    BY <1>4, <1>5, NodeWithout DEF NodeIn
  <2>2. node.first # b
    BY <2>1 DEF NonLeafNode
  <2> QED BY <1>5, <2>1, <2>2 DEF NodeIn
<1>6. Woven(L, T, rank, disk, size)
  <2>1. T \subseteq L /\ L \subseteq Pages(size)
    BY <1>1 DEF Woven
  <2>2. ASSUME NEW p \in L
        PROVE  /\ disk[p].kind = "leaf" =>
                    p \in DOMAIN rank /\ (p \in T => \A q \in DOMAIN rank : rank[q] <= rank[p])
               /\ disk[p].kind # "leaf" => NodeIn(L, T, p, disk[p])
    <3>1. p \in live /\ p \in Q /\ (p \in T => p \in spine)
      BY <2>1
    <3>2. disk[p].kind # "leaf" => NodeIn(live, spine, p, disk[p])
      BY <1>1, <3>1 DEF Woven
    <3> QED BY <1>1, <1>2, <1>5, <3>1, <3>2 DEF Woven
  <2> QED BY <2>1, <2>2 DEF Woven
<1>7. HeldIn(L, T, op.held)
  BY <1>1, <1>2, <1>5 DEF HeldIn
<1>8. Rooted(T)
  BY <1>1, <1>2 DEF Rooted
<1>9. PICK more : Chained(more, T, rank)' /\ \A p \in more : p \in L \/ p = size
  <2> HIDE DEF L, T
  <2> QED BY <1>1, <1>6, <1>7, <1>8, SplitNonLeafAdds, ZenonT(30)
<1>10. b \notin more
  BY <1>3, <1>9 DEF Pages
<1> QED BY <1>9, <1>10

\* No step finds an entry that was not acknowledged or being inserted.
LEMMA EntriesFrom ==
  ASSUME [Next]_vars, Sitting
  PROVE  /\ \A x \in acked' \cup saved' : x \in acked \cup saved \/ (op.pc \in Inserting /\ x = op.entry)
         /\ op'.pc \in Inserting =>
              (op.pc \in Inserting /\ op'.entry = op.entry) \/ \E e \in Entry : InsertCall(e) /\ op'.entry = e
<1>1. CASE UNCHANGED vars
  BY <1>1 DEF vars
<1>2. CASE OpenNew \/ Open("r") \/ Open("w") \/ CloseFails \/ ReadForward
  <2>1. UNCHANGED <<op, acked, saved>>
    BY <1>2 DEF OpenNew, Open, CloseFails, ReadForward
  <2> QED BY <2>1
<1>3. CASE Close \/ Abandon \/ InsertFails \/ SeekLeaf \/ SeekDown \/ \E k \in Key : LocateCall(k)
  <2>1. op'.pc \notin Inserting /\ acked' \in {acked, saved} /\ saved' \in {acked, saved}
    <3>1. CASE SeekDown
      <4>1. op.pc = "seek" /\ op'.pc = op.pc
        BY <3>1 DEF SeekDown
      <4> QED BY <3>1, <4>1 DEF SeekDown, Inserting
    <3>2. CASE Close
      BY <3>2 DEF Close, Idle, Inserting
    <3>3. CASE Abandon \/ InsertFails \/ SeekLeaf
      BY <3>3 DEF Abandon, InsertFails, SeekLeaf, Idle, Inserting
    <3>4. CASE \E k \in Key : LocateCall(k)
      BY <3>4 DEF LocateCall, Idle, Inserting
    <3> QED BY <1>3, <3>1, <3>2, <3>3, <3>4
  <2> QED BY <2>1
<1>4. CASE \E e \in Entry : InsertCall(e)
  <2>1. PICK e \in Entry : InsertCall(e)
    BY <1>4
  <2>2. acked' = acked /\ saved' = saved /\ op'.entry = e
    BY <2>1 DEF InsertCall
  <2> QED BY <2>1, <2>2
<1>5. CASE Descend \/ SplitLeaf \/ SplitNonLeaf \/ WriteLeft
  <2>1. op.pc \in Inserting /\ acked' = acked /\ saved' = saved
    BY <1>5 DEF Descend, SplitLeaf, SplitNonLeaf, WriteLeft, Inserting
  <2>2. CASE Descend
    <3>1. op' = [op EXCEPT !.at   = ChildPtr(disk[op.at], op.entry.key),
                           !.held = Append(@, [pid |-> op.at, node |-> disk[op.at]])]
      BY <2>2 DEF Descend
    <3>2. op'.entry = op.entry
      BY <3>1
    <3> QED BY <2>1, <3>2
  <2>3. CASE SplitLeaf \/ SplitNonLeaf \/ WriteLeft
    BY <2>1, <2>3 DEF SplitLeaf, SplitNonLeaf, WriteLeft
  <2> QED BY <1>5, <2>2, <2>3
<1>6. CASE InsertFirst \/ InsertInLeaf \/ InsertInNonLeaf \/ NewRoot
  BY <1>6 DEF InsertFirst, InsertInLeaf, InsertInNonLeaf, NewRoot, Return, Idle, Inserting
<1> QED BY <1>1, <1>2, <1>3, <1>4, <1>5, <1>6 DEF Next, InsertStep

\* A tree that has a root keeps it, but for one that was never saved.
LEMMA TreeStays ==
  ASSUME CInv, Sitting, [Next]_vars, size > 0, Tree.height > 0,
         disk[0].height > 0 \/ ~(obj.mode = "w" /\ (Abandon \/ InsertFails)),
         NEW live, NEW spine, NEW rank, Chained(live, spine, rank)
  PROVE  size' > 0 /\ Tree'.height > 0 /\ ~InsertFirst
<1>1. Typed /\ Books /\ size \in Nat /\ obj \in ObjType
  BY IsTyped DEF CInv, IInv, Typed
<1>2. (obj.mode = "none" => Tree.height = disk[0].height) /\ (obj.mode # "none" => Tree.height = obj.height)
  BY DEF Tree, OnDisk
<1>3. (obj'.mode = "none" => Tree'.height = disk'[0].height) /\ (obj'.mode # "none" => Tree'.height = obj'.height)
  BY DEF Tree, OnDisk
<1>4. ~InsertFirst
  BY <1>1, <1>2 DEF InsertFirst, Typed, Inserting
<1>5. CASE \/ UNCHANGED vars \/ CloseFails \/ Descend \/ SeekDown \/ SeekLeaf \/ ReadForward
           \/ \E k \in Key : LocateCall(k)
  <2>1. disk' = disk /\ size' = size /\ obj' = obj
    BY <1>5 DEF vars, CloseFails, Descend, SeekDown, SeekLeaf, ReadForward, LocateCall
  <2> QED BY <1>2, <1>3, <1>4, <2>1
<1>6. CASE OpenNew \/ Open("r") \/ Open("w")
  <2>1. disk' = disk /\ size' = size /\ obj.mode = "none" /\ obj'.height = disk[0].height
    BY <1>6 DEF OpenNew, Open
  <2> QED BY <1>2, <1>3, <1>4, <2>1
<1>7. CASE Close
  <2>1. WritePage(0, Header(obj)) /\ 0 \in 0..size /\ obj.mode = "w" /\ obj'.mode = "none"
    BY <1>1, <1>7 DEF Close, Fresh
  <2>2. size' > 0 /\ disk'[0] = Header(obj)
    <3>1. size' = (IF 0 = size THEN size + 1 ELSE size) /\ disk'[0] = Header(obj)
      BY <1>1, <2>1, Wrote
    <3> QED BY <3>1
  <2> QED BY <1>2, <1>3, <1>4, <2>1, <2>2 DEF Header
<1>8. CASE Abandon \/ InsertFails
  <2>1. disk' = disk /\ size' = size /\ obj'.mode = "none"
    BY <1>8 DEF Abandon, InsertFails, Fresh
  <2>2. disk[0].height > 0
    <3>1. CASE obj.mode = "w"
      <4>1. obj.mode = "w" /\ (Abandon \/ InsertFails)
        BY <1>8, <3>1
      <4> QED BY <4>1
    <3>2. CASE obj.mode # "w"
      <4>1. Abandon /\ obj.mode = "r"
        BY <1>1, <1>8, <3>2 DEF Abandon, InsertFails, Typed, Inserting
      <4> QED BY <1>2, <4>1 DEF Sitting, Session
    <3> QED BY <3>1, <3>2
  <2> QED BY <1>3, <1>4, <2>1, <2>2
<1>9. CASE \E e \in Entry : InsertCall(e)
  <2>1. disk' = disk /\ size' = size /\ obj'.mode = obj.mode /\ obj'.height = obj.height
    BY <1>1, <1>9 DEF InsertCall, Widened, ObjType
  <2> QED BY <1>2, <1>3, <1>4, <2>1
<1>10. CASE InsertStep
  <2>1. size' > 0 /\ disk'[0] = disk[0]
    BY <1>1, <1>10, HeaderStays
  <2>2. CASE NewRoot
    <3>1. obj'.height = obj.height + 1 /\ obj'.mode = obj.mode /\ obj.height \in Nat
      BY <1>1, <2>2 DEF NewRoot, ObjType
    <3>2. obj.mode = "w"
      BY <1>1, <2>2 DEF NewRoot, Typed, Inserting
    <3> QED BY <1>2, <1>3, <1>4, <2>1, <3>1, <3>2
  <2>3. CASE ~NewRoot
    <3>1. obj' = obj
      BY <1>4, <1>10, <2>3
         DEF InsertStep, Descend, InsertInLeaf, SplitLeaf, WriteLeft, InsertInNonLeaf, SplitNonLeaf
    <3> QED BY <1>2, <1>3, <1>4, <2>1, <3>1
  <2> QED BY <2>2, <2>3
<1> QED BY <1>5, <1>6, <1>7, <1>8, <1>9, <1>10 DEF Next

\* A spoiled tree stays as it is.
LEMMA SpoiledStays ==
  ASSUME CInv, Sitting, [Next]_vars, NEW live, NEW spine, NEW rank, Chained(live, spine, rank),
         Spoiled(live, rank),
         disk[0].height > 0 \/ ~(obj.mode = "w" /\ (Abandon \/ InsertFails)),
         \A e \in Entry : InsertCall(e) => NotYet(DOMAIN rank, disk, e),
         NEW more, NEW longer, Carried(live, rank, disk, more, longer, disk')
  PROVE  Spoiled(more, longer)'
<1>1. size' > 0 /\ Tree'.height > 0
  BY TreeStays DEF Spoiled
<1>2. \A x \in OnLeaves(rank, disk) : x \in OnLeaves(longer, disk')
  BY DEF Carried
<1>3. CASE Twice(rank)
  <2>1. Twice(longer)'
    BY <1>2, <1>3 DEF Twice
  <2> QED BY <1>1, <2>1 DEF Spoiled
<1>4. CASE Lost(rank)
  <2>1. PICK x \in OnLeaves(rank, disk) :
               x \notin acked \cup saved /\ (op.pc \in Inserting => x # op.entry)
    BY <1>4 DEF Lost
  <2>2. x \notin acked' \cup saved'
    BY <2>1, EntriesFrom
  <2>3. op'.pc \in Inserting => x # op'.entry
    <3>1. ASSUME NEW e \in Entry, InsertCall(e) PROVE x # e
      BY <2>1, <3>1 DEF NotYet, OnLeaves
    <3> QED BY <2>1, <3>1, EntriesFrom
  <2>4. Lost(longer)'
    BY <1>2, <2>2, <2>3 DEF Lost
  <2> QED BY <1>1, <2>4 DEF Spoiled
<1>5. CASE Orphaned(live, rank)
  <2>1. Orphaned(more, longer)
    BY <1>5 DEF Orphaned, Carried
  <2>2. Orphaned(more, longer)'
    BY <2>1 DEF Orphaned
  <2> QED BY <1>1, <2>2 DEF Spoiled
<1> QED BY <1>3, <1>4, <1>5 DEF Spoiled

LEMMA SortedAsSaved ==
  ASSUME NEW C, NEW low, Sorted(C, low), Sitting, obj.mode = "w", op.pc # "up",
         acked = saved, disk[0].height > 0
  PROVE  AsSaved
<1>1. Tree.root = disk[0].root /\ Tree.height = disk[0].height
  BY DEF Tree, Sitting
<1>2. Led(C) = C /\ AllEntries = saved
  BY DEF Led, AllEntries
<1> QED BY <1>1, <1>2 DEF Sorted, AsSaved

\* A writer goes away: what it has left is sorted, or spoiled.
LEMMA DropOrders ==
  ASSUME CInv, Sitting, Sitting', NEW live, NEW spine, NEW rank, Order(live, spine, rank),
         obj.mode = "w", Abandon \/ InsertFails, [Next]_vars
  PROVE  Spoiled(live, rank)' \/ IsSorted'
<1>1. Typed /\ Books /\ size > 0 /\ Chained(live, spine, rank)
  BY IsTyped DEF CInv, IInv, Typed, Order
<1>2. /\ disk' = disk /\ size' = size /\ op'.pc = "idle" /\ obj'.mode = "none" /\ acked' = saved
      /\ saved' = saved
  BY DEF Abandon, InsertFails, Idle, Fresh
<1>3. Tree'.root = disk[0].root /\ Tree'.height = disk[0].height /\ disk[0].height \in Nat
  BY <1>1, <1>2 DEF Tree, OnDisk, Typed, HeaderType
<1>4. Session' /\ cursor' = NoCursor
  BY <1>2 DEF Sitting, Session
<1>5. ASSUME NEW C, NEW low, Base(C, low, disk, size, disk[0].root, disk[0].height, C, saved)
      PROVE  IsSorted'
  <2>1. Led(C)' = C /\ AllEntries' = saved
    BY <1>2 DEF Led, AllEntries
  <2>2. Base(C, low, disk', size', Tree'.root, Tree'.height, Led(C)', AllEntries')
    BY <1>2, <1>3, <1>5, <2>1
  <2>3. Stage(C, low, disk', op', obj', acked') /\ CursorFits(C, disk', cursor', out')
    BY <1>2, <1>4 DEF Stage, CursorFits
  <2>4. Sorted(C, low)'
    BY <1>4, <2>2, <2>3 DEF Sorted
  <2> QED BY <2>4 DEF IsSorted
<1>6. CASE disk[0].height = 0
  <2> DEFINE low == [p \in {} |-> 0]
  <2>1. saved = {}
    BY <1>1, <1>6 DEF Chained, Rooted
  <2>2. InOrder({}, low, disk) /\ Content({}, disk, saved)
    BY <2>1 DEF InOrder, Lows, Content
  <2>3. LeadsTo(low, disk, size, disk[0].root, disk[0].height, {}, {})
    BY <1>6 DEF LeadsTo
  <2>4. Base({}, low, disk, size, disk[0].root, disk[0].height, {}, saved)
    BY <1>1, <2>2, <2>3 DEF Base
  <2> HIDE DEF low
  <2> QED BY <1>5, <2>4
<1>7. ASSUME disk[0].height > 0, NEW x \in OnLeaves(rank, disk), x \notin saved
      PROVE  Spoiled(live, rank)'
  <2>1. Lost(rank)'
    BY <1>2, <1>7 DEF Lost, OnLeaves, Inserting
  <2> QED BY <1>1, <1>2, <1>3, <1>7, <2>1 DEF Spoiled
<1>8. ASSUME disk[0].height > 0, AsSaved
      PROVE  IsSorted'
  BY <1>5, <1>8 DEF AsSaved
<1>9. CASE disk[0].height > 0 /\ acked # saved
  <2>1. PICK x \in acked : x \notin saved
    BY <1>9 DEF Sitting
  <2>2. x \in OnLeaves(rank, disk)
    BY <1>1, <2>1 DEF Chained
  <2> QED BY <1>7, <1>9, <2>1, <2>2
<1>10. CASE disk[0].height > 0 /\ acked = saved /\ op.pc = "up"
  <2>1. op.entry \in OnLeaves(rank, disk) /\ op.entry \notin saved
    BY <1>1, <1>10 DEF Chained, Going, Sitting, Inserting
  <2> QED BY <1>7, <1>10, <2>1
<1>11. CASE disk[0].height > 0 /\ acked = saved /\ op.pc # "up"
  <2>1. CASE Spoiled(live, rank)
    <3>1. Carried(live, rank, disk, live, rank, disk')
      BY <1>2 DEF Carried
    <3>2. \A e \in Entry : ~InsertCall(e)
      BY <1>2 DEF InsertCall
    <3> QED BY <1>1, <1>11, <2>1, <3>1, <3>2, SpoiledStays
  <2>2. CASE Doubling(rank)
    BY <1>8, <1>11, <2>2 DEF Doubling
  <2>3. CASE IsSorted
    <3>1. AsSaved
      BY <1>11, <2>3, SortedAsSaved DEF IsSorted
    <3> QED BY <1>8, <1>11, <3>1
  <2> QED BY <2>1, <2>2, <2>3 DEF Order
<1> QED BY <1>3, <1>6, <1>9, <1>10, <1>11

\* An insert of a key that is there goes on its way.
LEMMA DoublingOrders ==
  ASSUME CInv, [Next]_vars, NEW live, NEW spine, NEW rank, Order(live, spine, rank),
         Doubling(rank), ~(obj.mode = "w" /\ (Abandon \/ InsertFails)),
         NEW more, NEW top, NEW longer, Chained(more, top, longer)', Once(DOMAIN longer, disk, op)',
         Carried(live, rank, disk, more, longer, disk')
  PROVE  (Spoiled(more, longer) \/ Doubling(longer))'
<1>1. /\ Typed /\ Books /\ Chained(live, spine, rank) /\ Once(DOMAIN rank, disk, op)
      /\ op.pc \in {"down", "left"} /\ op.pc \in Inserting /\ size \in Nat
      /\ obj.mode = "w" /\ obj.height > 0 /\ size > 0
  BY IsTyped DEF CInv, IInv, Order, Doubling, Inserting, Typed
<1>2. PICK x \in OnLeaves(rank, disk) : x.key = op.entry.key /\ x # op.entry
  <2>1. PICK x \in OnLeaves(rank, disk) : x.key = op.entry.key
    BY DEF Doubling
  <2>2. NotYet(DOMAIN rank, disk, op.entry)
    BY <1>1 DEF Doubling, Once
  <2> QED BY <2>1, <2>2 DEF NotYet, OnLeaves
<1>3. x \in OnLeaves(longer, disk')
  BY DEF Carried
<1>4. Descend \/ InsertInLeaf \/ SplitLeaf \/ WriteLeft \/ UNCHANGED vars
  <2>1. ~OpenNew /\ ~Open("r") /\ ~Open("w")
    BY <1>1 DEF OpenNew, Open
  <2>2. ~Close /\ ~CloseFails /\ ~ReadForward /\ (\A k : ~LocateCall(k)) /\ \A e : ~InsertCall(e)
    <3>1. op # Idle
      BY <1>1 DEF Idle
    <3> QED BY <3>1 DEF Close, CloseFails, ReadForward, LocateCall, InsertCall
  <2>3. ~SeekDown /\ ~SeekLeaf /\ ~InsertFirst /\ ~InsertInNonLeaf /\ ~SplitNonLeaf /\ ~NewRoot
    BY <1>1 DEF SeekDown, SeekLeaf, InsertFirst, InsertInNonLeaf, SplitNonLeaf, NewRoot
  <2>4. ~Abandon /\ ~InsertFails
    BY <1>1
  <2> QED BY <2>1, <2>2, <2>3, <2>4 DEF Next, InsertStep
<1>5. CASE UNCHANGED vars
  <2>1. /\ disk' = disk /\ size' = size /\ op' = op /\ acked' = acked /\ saved' = saved
    BY <1>5 DEF vars
  <2>2. AsSaved => AsSaved'
    BY <2>1 DEF AsSaved
  <2> QED BY <1>2, <1>3, <2>1, <2>2 DEF Doubling
<1>6. CASE Descend
  <2>1. disk' = disk /\ size' = size /\ acked' = acked /\ saved' = saved /\ op.pc = "down"
    BY <1>6 DEF Descend
  <2>2. op \in [pc : {"down"}, entry : Entry, at : Pages(size), held : Seq(HeldPage)]
    BY <1>1, <2>1 DEF Typed
  <2>3. op'.pc = "down" /\ op'.entry = op.entry
    BY <1>6, <2>2 DEF Descend
  <2>4. AsSaved => AsSaved'
    BY <2>1 DEF AsSaved
  <2> QED BY <1>2, <1>3, <2>1, <2>3, <2>4 DEF Doubling
<1>7. CASE SplitLeaf
  <2> DEFINE s == LeafHalves(disk[op.at], op.entry)
  <2>1. op.pc = "down" /\ WritePage(size, s.right) /\ acked' = acked /\ saved' = saved
        /\ op'.pc = "left" /\ op'.entry = op.entry /\ op'.page = s.left
    BY <1>7 DEF SplitLeaf
  <2>2. op'.page.kind = "leaf"
    <3>1. disk[op.at] \in LeafPage
      <4>1. AtLeaf /\ op.at \in Pages(size) /\ disk[op.at].kind = "leaf"
        BY <1>1, <1>7, <2>1 DEF SplitLeaf, Typed
      <4> QED BY <1>1, <4>1 DEF Typed, NonLeafPage, NonLeafNode
    <3>2. s.left = [LeafSplit(disk[op.at], op.entry).left EXCEPT !.next = size]
      BY DEF LeafHalves, LeafSplit
    <3>3. LeafSplit(disk[op.at], op.entry).left.kind = "leaf"
      BY <3>1 DEF LeafSplit, LeafPage, LeafNode
    <3> QED BY <2>1, <3>2, <3>3
  <2>3. size \in 0..size /\ size # 0
    BY <1>1
  <2> HIDE DEF s
  <2>4. size' = size + 1 /\ disk'[0] = disk[0] /\ \A p \in Pages(size) : disk'[p] = disk[p]
    <3>1. size' = (IF size = size THEN size + 1 ELSE size)
          /\ disk'[0] = (IF size = 0 THEN s.right ELSE disk[0])
          /\ \A p \in Pages(size') : disk'[p] = IF p = size THEN s.right ELSE disk[p]
      BY <1>1, <2>1, <2>3, Wrote
    <3> QED BY <1>1, <2>3, <3>1 DEF Pages
  <2>5. ASSUME AsSaved PROVE AsSaved'
    <3>1. PICK C, low : Base(C, low, disk, size, disk[0].root, disk[0].height, C, saved)
      BY <2>5 DEF AsSaved
    <3>2. /\ \A p \in C : disk'[p] = disk[p]
          /\ disk[0].height = 2 => disk'[disk[0].root] = disk[disk[0].root]
      BY <1>1, <2>4, <3>1 DEF Base, LeadsTo
    <3>3. size' \in Nat /\ size <= size'
      BY <1>1, <2>4
    <3>4. Base(C, low, disk', size', disk[0].root, disk[0].height, C, saved)
      BY <1>1, <3>1, <3>2, <3>3, BaseElsewhere
    <3> QED BY <2>1, <2>4, <3>4 DEF AsSaved
  <2> QED BY <1>2, <1>3, <2>1, <2>2, <2>4, <2>5 DEF Doubling
<1>8. CASE InsertInLeaf \/ WriteLeft
  <2>1. op.entry \in OnLeaves(longer, disk')
    <3>1. CASE InsertInLeaf
      <4>1. op.entry \in acked'
        BY <3>1 DEF InsertInLeaf, Return
      <4> QED BY <4>1 DEF Chained
    <3>2. CASE WriteLeft
      <4>1. op'.pc = "up" /\ op'.entry = op.entry
        BY <3>2 DEF WriteLeft
      <4>2. Going(more, top, longer, disk', size', op')
        BY DEF Chained
      <4> QED BY <4>1, <4>2 DEF Going
    <3> QED BY <1>8, <3>1, <3>2
  <2>2. Twice(longer)'
    BY <1>2, <1>3, <2>1 DEF Twice
  <2>3. size' > 0 /\ Tree'.height > 0
    <3>1. size' > 0
      BY <1>1, <1>8, HeaderStays DEF InsertStep
    <3>2. obj' = obj
      BY <1>8 DEF InsertInLeaf, WriteLeft
    <3> QED BY <1>1, <3>1, <3>2 DEF Tree
  <2> QED BY <2>2, <2>3 DEF Spoiled
<1> QED BY <1>4, <1>5, <1>6, <1>7, <1>8

\* From a sorted tree, but for a writer that goes away.
LEMMA SortedOrders ==
  ASSUME CInv, Sitting, [Next]_vars, NEW live, NEW spine, NEW rank,
         Chained(live, spine, rank), Once(DOMAIN rank, disk, op), IsSorted,
         ~(obj.mode = "w" /\ (Abandon \/ InsertFails)),
         \A e \in Entry : InsertCall(e) => NotYet(DOMAIN rank, disk, e)
  PROVE  \E more, top, longer : Order(more, top, longer)'
<1>1. IInv /\ Typed /\ Books
  BY IsTyped DEF CInv, IInv
<1>2. PICK C, low : Sorted(C, low)
  BY DEF IsSorted
<1>3. PICK more, top, longer : Chained(more, top, longer)' /\ Once(DOMAIN longer, disk', op')
                               /\ (InsertFirst \/ Carried(live, rank, disk, more, longer, disk'))
  BY <1>1, StepOnce
<1>4. IsSorted' => Order(more, top, longer)'
  BY <1>3 DEF Order
<1>5. ASSUME NEW D, NEW by, Sorted(D, by)'
      PROVE  IsSorted'
  BY <1>5 DEF IsSorted
<1>6. CASE UNCHANGED vars
  BY <1>2, <1>4, <1>5, <1>6, IdleSorted
<1>7. CASE OpenNew \/ Open("r") \/ Open("w") \/ Close
  BY <1>1, <1>2, <1>4, <1>5, <1>7, OpensSorted, CloseSorted
<1>8. CASE CloseFails \/ Abandon
  <2>1. CloseFails \/ (Abandon /\ obj.mode = "r")
    BY <1>8 DEF Abandon
  <2> QED BY <1>1, <1>2, <1>4, <1>5, <2>1, EndsSorted
<1>9. ~InsertFails
  BY <1>1 DEF InsertFails, Typed, Inserting
<1>10. CASE (\E k \in Key : LocateCall(k)) \/ SeekDown \/ SeekLeaf \/ ReadForward
  BY <1>1, <1>2, <1>4, <1>5, <1>10, SearchesSorted
<1>11. CASE \E e \in Entry : InsertCall(e)
  <2>1. PICK e \in Entry : InsertCall(e)
    BY <1>11
  <2>2. CASE NewKey(acked, e)
    BY <1>1, <1>2, <1>4, <1>5, <2>1, <2>2, InsertCallSorted
  <2>3. CASE ~NewKey(acked, e)
    <3>1. PICK x \in acked : x.key = e.key
      BY <2>3 DEF NewKey
    <3>2. /\ disk' = disk /\ size' = size /\ acked' = acked /\ saved' = saved /\ op.pc = "idle"
          /\ obj.mode = "w"
          /\ op' = IF obj.height = 0 THEN [pc |-> "first", entry |-> e]
                   ELSE [pc |-> "down", entry |-> e, at |-> obj.root, held |-> <<>>]
      BY <2>1 DEF InsertCall, Idle
    <3>3. obj.height > 0 /\ x \in OnLeaves(rank, disk)
      BY <3>1, <3>2 DEF Chained, Rooted
    <3>4. op'.pc = "down" /\ op'.entry = e
      BY <3>2, <3>3
    <3>5. x \in OnLeaves(longer, disk')
      <4>1. ~InsertFirst
        BY <3>2 DEF InsertFirst
      <4> QED BY <1>3, <3>3, <4>1 DEF Carried
    <3>6. acked = saved /\ disk[0].height > 0 => AsSaved
      BY <1>2, <3>2, SortedAsSaved
    <3>7. AsSaved => AsSaved'
      BY <3>2 DEF AsSaved
    <3>8. Doubling(longer)'
      BY <3>1, <3>2, <3>4, <3>5, <3>6, <3>7 DEF Doubling
    <3> QED BY <1>3, <3>8 DEF Order
  <2> QED BY <2>2, <2>3
<1>12. CASE SplitNonLeaf
  <2> PICK b : b = op.over.pid
    OBVIOUS
  <2>1. op.pc = "up" /\ Unled(b, disk, size, op, obj)
    BY <1>12 DEF SplitNonLeaf, Sitting
  <2>2. b \in DOMAIN rank
    <3>1. b \in live /\ Woven(live, spine, rank, disk, size)
      BY <2>1 DEF Chained, Going
    <3>2. b \in C /\ LeafInOrder(C, low, disk, b)
      BY <1>2, <2>1 DEF Sorted, Stage, Base, InOrder
    <3>3. disk[b].kind = "leaf"
      BY <3>2 DEF LeafInOrder, LeafNode
    <3> QED BY <3>1, <3>3 DEF Woven
  <2>3. PICK now, head : Chained(now, head, rank)' /\ b \notin now
    BY <1>1, <1>12, <2>1, SplitOrphans
  <2>4. Orphaned(now, rank)
    BY <2>2, <2>3 DEF Orphaned
  <2>5. Orphaned(now, rank)'
    BY <2>4 DEF Orphaned
  <2>6. Once(DOMAIN rank, disk', op')
    BY <1>1, <1>12, InsertsOnce
  <2>7. size' > 0 /\ Tree'.height > 0
    <3>1. size' > 0
      BY <1>1, <1>12, HeaderStays DEF InsertStep
    <3>2. obj' = obj
      BY <1>12 DEF SplitNonLeaf
    <3>3. obj.mode = "w" /\ obj.height > 0
      BY <1>1, <2>1 DEF Typed, Inserting
    <3> QED BY <3>1, <3>2, <3>3 DEF Tree
  <2>8. Spoiled(now, rank)'
    BY <2>5, <2>7 DEF Spoiled
  <2> QED BY <2>3, <2>6, <2>8 DEF Order
<1>13. CASE InsertFirst \/ WriteLeft
  BY <1>1, <1>2, <1>4, <1>5, <1>13, InsertFirstSorted, WriteLeftSorted
<1>14. CASE Descend \/ InsertInLeaf \/ SplitLeaf \/ InsertInNonLeaf \/ NewRoot
  BY <1>1, <1>2, <1>4, <1>5, <1>14, DescendSorted, InsertInLeafSorted, SplitLeafSorted,
     InsertInNonLeafSorted, NewRootSorted
<1> QED BY <1>6, <1>7, <1>8, <1>9, <1>10, <1>11, <1>12, <1>13, <1>14 DEF Next, InsertStep

\* Whatever is inserted, and wherever a program ends.
LEMMA StepOrders ==
  ASSUME CInv, Sitting, Sitting', [Next]_vars,
         NEW live, NEW spine, NEW rank, Order(live, spine, rank),
         \A e \in Entry : InsertCall(e) => NotYet(DOMAIN rank, disk, e)
  PROVE  \E more, top, longer : Order(more, top, longer)'
<1>1. IInv /\ Typed /\ Books /\ Chained(live, spine, rank) /\ Once(DOMAIN rank, disk, op)
  BY IsTyped DEF CInv, IInv, Order
<1>2. CASE obj.mode = "w" /\ (Abandon \/ InsertFails)
  <2>1. Chained(live, spine, rank)'
    BY <1>1, <1>2, EndsChained
  <2>2. Once(DOMAIN rank, disk', op')
    BY <1>1, <1>2, OthersOnce
  <2>3. Spoiled(live, rank)' \/ IsSorted'
    BY <1>2, DropOrders
  <2> QED BY <2>1, <2>2, <2>3 DEF Order
<1>3. CASE ~(obj.mode = "w" /\ (Abandon \/ InsertFails))
  <2>1. CASE IsSorted
    BY <1>1, <1>3, <2>1, SortedOrders
  <2>2. CASE ~IsSorted
    <3>1. PICK more, top, longer : Chained(more, top, longer)' /\ Once(DOMAIN longer, disk', op')
                                   /\ (InsertFirst \/ Carried(live, rank, disk, more, longer, disk'))
      BY <1>1, StepOnce
    <3>2. CASE Spoiled(live, rank)
      <4>1. ~InsertFirst
        BY <1>1, <1>3, <3>2, TreeStays DEF Spoiled
      <4>2. Spoiled(more, longer)'
        BY <1>1, <1>3, <3>1, <3>2, <4>1, SpoiledStays
      <4> QED BY <3>1, <4>2 DEF Order
    <3>3. CASE Doubling(rank)
      <4>1. ~InsertFirst
        BY <3>3 DEF InsertFirst, Doubling
      <4>2. (Spoiled(more, longer) \/ Doubling(longer))'
        BY <1>1, <1>3, <3>1, <3>3, <4>1, DoublingOrders
      <4> QED BY <3>1, <4>2 DEF Order
    <3> QED BY <2>2, <3>2, <3>3 DEF Order
  <2> QED BY <2>1, <2>2
<1> QED BY <1>2, <1>3

ChildFor(pid, key) == ChildPtr(disk[pid], key)

LEMMA PathExists ==
  ASSUME NEW root, NEW key, NEW height \in Nat \ {0}
  PROVE  \E f : /\ f = [i \in 1..height |-> IF i = 1 THEN root ELSE ChildFor(f[i - 1], key)]
                /\ Path(root, height, key) = f
<1> DEFINE P(m) == \E f : f = [i \in 1..m |-> IF i = 1 THEN root ELSE ChildFor(f[i - 1], key)]
           Bad  == {m \in Nat \ {0} : ~P(m)}
<1>1. P(1)
  <2> DEFINE f == [i \in 1..1 |-> root]
  <2>1. f = [i \in 1..1 |-> IF i = 1 THEN root ELSE ChildFor(f[i - 1], key)]
    OBVIOUS
  <2> QED BY <2>1
<1>2. ASSUME NEW m \in Nat \ {0}, P(m) PROVE P(m + 1)
  <2>1. PICK f : f = [i \in 1..m |-> IF i = 1 THEN root ELSE ChildFor(f[i - 1], key)]
    BY <1>2
  <2> DEFINE g == [i \in 1..(m + 1) |-> IF i = m + 1 THEN ChildFor(f[m], key) ELSE f[i]]
  <2>2. \A i \in 1..m : f[i] = (IF i = 1 THEN root ELSE ChildFor(f[i - 1], key)) /\ g[i] = f[i]
    BY <2>1
  <2>3. g[m + 1] = ChildFor(g[m], key)
    BY <2>2
  <2>4. \A i \in 1..(m + 1) : g[i] = IF i = 1 THEN root ELSE ChildFor(g[i - 1], key)
    <3> SUFFICES ASSUME NEW i \in 1..(m + 1)
                 PROVE  g[i] = IF i = 1 THEN root ELSE ChildFor(g[i - 1], key)
      OBVIOUS
    <3> HIDE DEF g
    <3>1. CASE i = m + 1
      BY <2>3, <3>1
    <3>2. CASE i \in 1..m
      BY <2>2, <3>2
    <3> QED BY <3>1, <3>2
  <2>5. g = [i \in 1..(m + 1) |-> g[i]]
    OBVIOUS
  <2> HIDE DEF g
  <2>6. g = [i \in 1..(m + 1) |-> IF i = 1 THEN root ELSE ChildFor(g[i - 1], key)]
    BY <2>4, <2>5
  <2> QED BY <2>6
<1> HIDE DEF P
<1>3. Bad = {}
  <2> SUFFICES ASSUME Bad # {} PROVE FALSE
    OBVIOUS
  <2>1. PICK m \in Bad : \A k \in Bad : m <= k
    BY MinExists
  <2>2. m # 1 /\ m - 1 \in Nat \ {0} /\ P(m - 1)
    BY <1>1, <2>1
  <2>3. P((m - 1) + 1)
    BY <1>2, <2>2
  <2> QED BY <2>1, <2>3
<1>4. \E g : g = [i \in 1..height |-> IF i = 1 THEN root ELSE ChildFor(g[i - 1], key)]
  <2>1. P(height)
    BY <1>3
  <2> QED BY <2>1 DEF P
<1> DEFINE f == CHOOSE page : page = [i \in 1..height |-> IF i = 1 THEN root ELSE ChildFor(page[i - 1], key)]
<1>5. f = [i \in 1..height |-> IF i = 1 THEN root ELSE ChildFor(f[i - 1], key)]
  BY <1>4
<1>6. Path(root, height, key) = f
  BY DEF Path, ChildFor
<1> HIDE DEF f
<1> QED BY <1>5, <1>6

\* A descent from a page of the tree stays among its pages, and ends at a leaf of the
\* chain.
LEMMA PathInside ==
  ASSUME NEW lvl \in Levels(size), Levelled(lvl),
         NEW live, NEW spine, NEW rank, Chained(live, spine, rank),
         NEW root \in live, NEW height \in Nat \ {0}, root \in At(lvl, height),
         NEW key \in Int, NEW leaf, leaf = Path(root, height, key)[height]
  PROVE  leaf \in live /\ leaf \in DOMAIN rank
<1>1. PICK f : /\ f = [i \in 1..height |-> IF i = 1 THEN root ELSE ChildFor(f[i - 1], key)]
               /\ Path(root, height, key) = f
  BY PathExists
<1> DEFINE Q(i) == f[i] \in live /\ f[i] \in At(lvl, height - i + 1)
           Bad  == {i \in 1..height : ~Q(i)}
<1>2. \A i \in 1..height : f[i] = IF i = 1 THEN root ELSE ChildFor(f[i - 1], key)
  BY <1>1
<1>3. live \subseteq Pages(size) /\ DOMAIN lvl = Pages(size)
  BY DEF Chained, Woven, Levels, Pages
<1>4. Q(1)
  <2>1. height - 1 + 1 = height
    OBVIOUS
  <2> QED BY <1>2, <2>1
<1>5. ASSUME NEW i \in 2..height, Q(i - 1) PROVE Q(i)
  <2> DEFINE p == f[i - 1]
             l == height - (i - 1) + 1
  <2>1. p \in live /\ p \in At(lvl, l) /\ f[i] = ChildPtr(disk[p], key)
    BY <1>2, <1>5 DEF ChildFor
  <2>2. l # 1 /\ l \in Nat \ {0} /\ l - 1 = height - i + 1
    OBVIOUS
  <2> HIDE DEF p, l
  <2>3. disk[p] \in NodeAt(lvl, l)
    BY <2>1 DEF Levelled, Store, At, Levels
  <2>4. disk[p] \in NonLeafNode(Key, At(lvl, l - 1))
    BY <2>2, <2>3 DEF NodeAt
  <2>5. disk[p].kind # "leaf"
    BY <2>4 DEF NonLeafNode
  <2>6. disk[p] \in NonLeafNode(Key, live)
    BY <2>1, <2>5 DEF Chained, Woven, NodeIn
  <2>7. ChildPtr(disk[p], key) \in live /\ ChildPtr(disk[p], key) \in At(lvl, l - 1)
    BY <2>4, <2>6, EntryKeyed, ChildPtrType
  <2> QED BY <2>1, <2>2, <2>7
<1> HIDE DEF Q
<1>6. Bad = {}
  <2> SUFFICES ASSUME Bad # {} PROVE FALSE
    OBVIOUS
  <2>0. Bad \in SUBSET Nat
    OBVIOUS
  <2>1. PICK i \in Bad : \A k \in Bad : i <= k
    <3> HIDE DEF Bad
    <3> QED BY <2>0, MinExists
  <2>2. i \in 2..height /\ i - 1 \in 1..height /\ i - 1 < i
    BY <1>4, <2>1
  <2>3. Q(i - 1)
    BY <2>1, <2>2
  <2> QED BY <1>5, <2>1, <2>2, <2>3
<1>7. leaf \in live /\ leaf \in At(lvl, 1)
  <2>1. height - height + 1 = 1 /\ height \in 1..height
    OBVIOUS
  <2> QED BY <1>1, <1>6, <2>1 DEF Q
<1>8. disk[leaf].kind = "leaf"
  BY <1>7 DEF Levelled, Store, At, Levels, NodeAt, LeafNode
<1> QED BY <1>3, <1>7, <1>8 DEF Chained, Woven

\* An index that is as its last close left it, that finds what it has and has no key
\* twice, is not spoiled.
LEMMA SpoiledIsUnsound ==
  ASSUME CInv, Sitting, NEW live, NEW spine, NEW rank, Chained(live, spine, rank),
         Once(DOMAIN rank, disk, op), Spoiled(live, rank), obj.mode # "w",
         OnDisk.height > 0 => ChainEntries(Leftmost(OnDisk.root, OnDisk.height)) = saved,
         \A e \in saved : Found(OnDisk, e),
         \A d, e \in saved : d.key = e.key => d = e
  PROVE  FALSE
<1>1. PICK lvl \in Levels(size) : Levelled(lvl)
  BY DEF CInv, IInv
<1>2. Typed /\ Books /\ size > 0 /\ obj.mode \in {"none", "r"}
  BY IsTyped DEF CInv, IInv, Typed, Spoiled, ObjType
<1>3. acked = saved /\ OnDisk.height > 0
  BY <1>2 DEF Sitting, Session, Books, Spoiled, Tree, OnDisk
<1>4. ASSUME NEW x \in OnLeaves(rank, disk) PROVE x \in saved
  <2>1. x \in ChainEntries(Leftmost(OnDisk.root, OnDisk.height))
    BY <1>1, <1>2, <1>3, ChainFromTree
  <2> QED BY <1>3, <2>1
<1>5. CASE Twice(rank)
  BY <1>4, <1>5 DEF Twice
<1>6. CASE Lost(rank)
  BY <1>4, <1>6 DEF Lost
<1>7. CASE Orphaned(live, rank)
  <2>1. PICK p \in DOMAIN rank : p \notin live
    BY <1>7 DEF Orphaned
  <2>2. disk[p].ents \in Seq(Entry) /\ Len(disk[p].ents) > 0
    BY DEF Chained, Strung, LeafNode, Once
  <2> DEFINE e == disk[p].ents[1]
  <2>3. e \in Members(disk[p].ents) /\ e \in Entry
    BY <2>2 DEF Members
  <2>4. e \in saved /\ e.key \in Int
    BY <1>4, <2>3, EntryKeyed DEF OnLeaves
  <2> HIDE DEF e
  <2> DEFINE leaf == Path(OnDisk.root, OnDisk.height, e.key)[OnDisk.height]
  <2>5. OnDisk.root \in live /\ OnDisk.height \in Nat \ {0} /\ OnDisk.root \in At(lvl, OnDisk.height)
    <3>1. OnDisk.root = disk[0].root /\ OnDisk.height = disk[0].height
      BY DEF OnDisk
    <3>2. disk[0].root \in At(lvl, disk[0].height) /\ disk[0].height \in Nat
      BY <1>1, <1>2, <1>3, <3>1 DEF Levelled, Store, HeaderType
    <3> QED BY <1>2, <1>3, <3>1, <3>2 DEF Chained, Rooted, Woven
  <2>6. leaf \in live /\ leaf \in DOMAIN rank
    BY <1>1, <2>4, <2>5, PathInside
  <2>7. Holds(disk[leaf].ents, e.key)
    BY <2>4 DEF Found
  <2> HIDE DEF leaf
  <2>8. PICK i \in 1..Len(disk[leaf].ents) : disk[leaf].ents[i].key = e.key
    BY <2>7 DEF Holds
  <2>9. disk[leaf].ents[i] \in Members(disk[leaf].ents)
    BY DEF Members
  <2>10. disk[leaf].ents[i] \in saved
    BY <1>4, <2>6, <2>9 DEF OnLeaves
  <2>11. disk[leaf].ents[i] = e
    BY <2>4, <2>8, <2>10
  <2>12. Apart(disk[p].ents, disk[leaf].ents)
    BY <2>1, <2>6 DEF Once
  <2> QED BY <2>3, <2>9, <2>11, <2>12 DEF Apart
<1> QED BY <1>5, <1>6, <1>7 DEF Spoiled

-----------------------------------------------------------------------------
(* A leaf that another leads to has two entries at least, if a half of a   *)
(* split leaf has: only the first leaf of a tree may have less.            *)

Twofold(d, s, q) == q \in Pages(s) /\ d[q].kind = "leaf" /\ Len(d[q].ents) >= 2
Paired ==
  /\ \A p \in Pages(size) :
       disk[p].kind = "leaf" /\ disk[p].next # 0 => Twofold(disk, size, disk[p].next)
  /\ op.pc = "left" /\ op.page.kind = "leaf" =>
       Len(op.page.ents) >= 2 /\ Twofold(disk, size, op.page.next)

LEMMA HalvesOfFour ==
  ASSUME NEW count \in Nat, count >= 4
  PROVE  count \div 2 \in 2..count /\ SplitPos(count) \in 2..(count - 2)
BY DEF SplitPos

LEMMA HalvesHaveTwo ==
  ASSUME LeafMax > 2, NEW E, Keyed(E), NEW N, NEW n \in LeafNode(E, N), LeafFull(n), NEW e \in E
  PROVE  Len(LeafSplit(n, e).left.ents) >= 2 /\ Len(LeafSplit(n, e).right.ents) >= 2
<1> DEFINE count == Len(n.ents)
           half  == count \div 2
           pos   == SplitPos(count)
           eid   == Locate(n.ents, e.key) - 1
           kept  == SubSeq(n.ents, 1, half)
           upper == SubSeq(n.ents, pos + 1, count)
           moved == Reinserted(upper)
           lower == IF eid < pos THEN Insert(kept, e) ELSE kept
           above == IF eid < pos THEN moved ELSE Insert(moved, e)
<1>1. n.ents \in Seq(E) /\ count \in Nat /\ count >= 4
  <2>1. LeafMax >= 4
    BY LeafMaxAssumption
  <2> QED BY <2>1, LeafMaxAssumption DEF LeafNode, LeafFull
<1>2. half \in 2..count /\ pos \in 2..(count - 2)
  BY <1>1, HalvesOfFour
<1>3. LeafSplit(n, e).left.ents = lower /\ LeafSplit(n, e).right.ents = above
  BY DEF LeafSplit, LeafNode, EmptyLeaf
<1> HIDE DEF half, pos, eid
<1>4. kept \in Seq(E) /\ Len(kept) >= 2
  <2>1. 1 \in Nat \ {0} /\ half \in 0..count /\ 1 <= half + 1 /\ half - 1 + 1 >= 2
    BY <1>1, <1>2
  <2> QED BY <1>1, <2>1, SubSeqPlaces
<1>5. upper \in Seq(E) /\ Len(upper) >= 2
  <2>1. pos + 1 \in Nat \ {0} /\ count \in 0..count /\ pos + 1 <= count + 1 /\ count - (pos + 1) + 1 >= 2
    BY <1>1, <1>2
  <2> QED BY <1>1, <2>1, SubSeqPlaces
<1> HIDE DEF kept, upper
<1>6. moved \in Seq(E) /\ Len(moved) >= 2
  BY <1>5, ReinsertedType, ReinsertedPlaces
<1> HIDE DEF moved
<1>7. Len(Insert(kept, e)) >= 2 /\ Len(Insert(moved, e)) >= 2
  <2>1. Len(Insert(kept, e)) = Len(kept) + 1 /\ Len(Insert(moved, e)) = Len(moved) + 1
    BY <1>4, <1>6, InsertType
  <2>2. Len(kept) \in Nat /\ Len(moved) \in Nat
    BY <1>4, <1>6
  <2> QED BY <1>4, <1>6, <2>1, <2>2
<1> QED BY <1>3, <1>4, <1>6, <1>7

\* A page written leaves the leaves that another leads to with two entries.
LEMMA WrittenPaired ==
  ASSUME Typed, Paired, size > 0, NEW pid \in 1..size, NEW page, WritePage(pid, page),
         pid # size => /\ page.kind = disk[pid].kind
                       /\ page.kind = "leaf" => Len(page.ents) >= 2 \/ Len(disk[pid].ents) < 2,
         page.kind = "leaf" /\ page.next # 0 => Twofold(disk, size, page.next)
  PROVE  /\ \A q : Twofold(disk, size, q) => Twofold(disk', size', q)
         /\ \A p \in Pages(size') :
              disk'[p].kind = "leaf" /\ disk'[p].next # 0 => Twofold(disk', size', disk'[p].next)
<1>1. /\ size \in Nat /\ size' = (IF pid = size THEN size + 1 ELSE size)
      /\ \A p \in Pages(size') : disk'[p] = IF p = pid THEN page ELSE disk[p]
  <2>1. size \in Nat /\ pid \in 0..size
    BY DEF Typed
  <2> QED BY <2>1, Wrote
<1>2. Pages(size) \subseteq Pages(size') /\ \A p \in Pages(size') : p = pid \/ p \in Pages(size)
  BY <1>1 DEF Pages
<1>3. size \notin Pages(size)
  BY <1>1 DEF Pages
<1>4. ASSUME NEW q, Twofold(disk, size, q) PROVE Twofold(disk', size', q)
  <2>1. q \in Pages(size) /\ q \in Pages(size') /\ disk[q].kind = "leaf" /\ Len(disk[q].ents) >= 2
    BY <1>2, <1>4 DEF Twofold
  <2>2. CASE q = pid
    <3>1. disk'[q] = page /\ pid # size
      BY <1>1, <1>3, <2>1, <2>2
    <3>2. page.kind = "leaf" /\ Len(page.ents) >= 2
      <4>1. page.kind = "leaf" /\ (Len(page.ents) >= 2 \/ Len(disk[q].ents) < 2)
        BY <2>1, <2>2, <3>1
      <4>2. ~(Len(disk[q].ents) < 2)
        <5>1. Len(disk[q].ents) \in Nat
          BY <2>1 DEF Typed, LeafPage, NonLeafPage, LeafNode, NonLeafNode
        <5> QED BY <2>1, <5>1
      <4> QED BY <4>1, <4>2
    <3> QED BY <2>1, <3>1, <3>2 DEF Twofold
  <2>3. CASE q # pid
    BY <1>1, <2>1, <2>3 DEF Twofold
  <2> QED BY <2>2, <2>3
<1>5. ASSUME NEW p \in Pages(size'), disk'[p].kind = "leaf", disk'[p].next # 0
      PROVE  Twofold(disk', size', disk'[p].next)
  <2>1. CASE p = pid
    BY <1>1, <1>4, <1>5, <2>1
  <2>2. CASE p # pid
    <3>1. disk'[p] = disk[p] /\ p \in Pages(size)
      BY <1>1, <1>2, <1>5, <2>2
    <3> QED BY <1>4, <1>5, <3>1 DEF Paired
  <2> QED BY <2>1, <2>2
<1> QED BY <1>4, <1>5

LEMMA NextPaired ==
  ASSUME LeafMax > 2, IInv, Paired, [Next]_vars
  PROVE  Paired'
<1>1. Typed /\ Books /\ size \in Nat
  BY IsTyped DEF IInv, Typed
<1> DEFINE Leading == \A p \in Pages(size') :
             disk'[p].kind = "leaf" /\ disk'[p].next # 0 => Twofold(disk', size', disk'[p].next)
<1>2. CASE UNCHANGED <<disk, size>> /\ (op' = op \/ op'.pc # "left")
  BY <1>2 DEF Paired
<1>3. CASE OpenNew \/ Close
  <2>1. op.pc # "left" /\ op' = op
    BY <1>1, <1>3 DEF OpenNew, Close, Books, Idle
  <2>2. CASE UNCHANGED <<disk, size>>
    BY <2>1, <2>2 DEF Paired
  <2>3. CASE \E page : WritePage(0, page)
    <3>1. PICK page : WritePage(0, page)
      BY <2>3
    <3>2. /\ size' = (IF 0 = size THEN size + 1 ELSE size)
          /\ \A p \in Pages(size') : disk'[p] = IF p = 0 THEN page ELSE disk[p]
      <4>1. 0 \in 0..size
        BY <1>1
      <4> QED BY <1>1, <3>1, <4>1, Wrote
    <3>3. Pages(size') = Pages(size) /\ 0 \notin Pages(size)
      BY <1>1, <3>2 DEF Pages
    <3>4. \A p \in Pages(size) : disk'[p] = disk[p]
      BY <3>2, <3>3
    <3> QED BY <2>1, <3>3, <3>4 DEF Paired, Twofold
  <2> QED BY <1>3, <2>2, <2>3 DEF OpenNew, Close
<1>4. CASE InsertFirst
  <2>1. WritePage(size, LeafInsert(EmptyLeaf, op.entry)) /\ op' = Idle /\ size > 0 /\ size \in 1..size
    BY <1>1, <1>4 DEF InsertFirst, Return, Typed, Inserting
  <2>2. LeafInsert(EmptyLeaf, op.entry).next = 0
    BY DEF LeafInsert, EmptyLeaf
  <2>3. Leading
    BY <1>1, <2>1, <2>2, WrittenPaired
  <2> QED BY <2>1, <2>3 DEF Paired, Idle
<1>5. CASE InsertInLeaf
  <2>1. /\ WritePage(op.at, LeafInsert(disk[op.at], op.entry)) /\ op' = Idle
        /\ op.pc = "down" /\ op.at \in Pages(size) /\ disk[op.at] \in LeafPage /\ op.entry \in Entry
    BY <1>1, <1>5 DEF InsertInLeaf, Return, Typed, NonLeafPage, NonLeafNode, Inserting
  <2> DEFINE leaf == disk[op.at]  page == LeafInsert(leaf, op.entry)
  <2>2. leaf.ents \in Seq(Entry) /\ leaf.kind = "leaf"
    BY <2>1 DEF LeafPage, LeafNode
  <2>3. page.kind = "leaf" /\ page.next = leaf.next /\ page.ents = Insert(leaf.ents, op.entry)
    BY <2>1 DEF LeafInsert, LeafPage, LeafNode
  <2>4. Len(page.ents) >= 2 \/ Len(leaf.ents) < 2
    <3>1. Len(Insert(leaf.ents, op.entry)) = Len(leaf.ents) + 1
      BY <2>1, <2>2, EntryKeyed, InsertType
    <3>2. Len(leaf.ents) \in Nat
      BY <2>2
    <3> QED BY <2>3, <3>1, <3>2
  <2>5. page.next # 0 => Twofold(disk, size, page.next)
    BY <2>1, <2>2, <2>3 DEF Paired
  <2>6. op.at \in 1..size /\ size > 0 /\ op.at # size
    BY <1>1, <2>1 DEF Pages
  <2>7. Leading
    BY <1>1, <2>1, <2>2, <2>3, <2>4, <2>5, <2>6, WrittenPaired
  <2> QED BY <2>1, <2>7 DEF Paired, Idle
<1>6. CASE SplitLeaf
  <2> DEFINE leaf == disk[op.at]  s == LeafHalves(leaf, op.entry)
  <2>1. /\ WritePage(size, s.right) /\ op'.pc = "left" /\ op'.page = s.left
        /\ op.pc = "down" /\ op.at \in Pages(size) /\ leaf \in LeafPage /\ op.entry \in Entry
        /\ LeafFull(leaf)
    BY <1>1, <1>6 DEF SplitLeaf, Typed, NonLeafPage, NonLeafNode, Inserting
  <2>2. /\ Len(LeafSplit(leaf, op.entry).left.ents) >= 2
        /\ Len(LeafSplit(leaf, op.entry).right.ents) >= 2
    BY <2>1, EntryKeyed, HalvesHaveTwo DEF LeafPage
  <2>3. LeafSplit(leaf, op.entry).left \in LeafPage /\ LeafSplit(leaf, op.entry).right \in LeafNode(Entry, {0})
    BY <2>1, EntryKeyed, LeafSplitType DEF LeafPage
  <2>4. /\ s.right.kind = "leaf" /\ s.right.next = leaf.next /\ Len(s.right.ents) >= 2
        /\ s.left.kind = "leaf" /\ s.left.next = size /\ Len(s.left.ents) >= 2
    BY <2>2, <2>3 DEF LeafHalves, LeafPage, LeafNode, LeafSplit
  <2>5. leaf.kind = "leaf"
    BY <2>1 DEF LeafPage, LeafNode
  <2>6. s.right.next # 0 => Twofold(disk, size, s.right.next)
    BY <2>1, <2>4, <2>5 DEF Paired
  <2>7. size > 0 /\ size \in 1..size /\ size \in 0..size
    BY <1>1, <2>1 DEF Pages
  <2> HIDE DEF s
  <2>8. Leading
    BY <1>1, <2>1, <2>6, <2>7, WrittenPaired
  <2>9. Twofold(disk', size', size)
    <3>1. size' = size + 1 /\ \A p \in Pages(size') : disk'[p] = IF p = size THEN s.right ELSE disk[p]
      BY <1>1, <2>1, <2>7, Wrote
    <3>2. size \in Pages(size')
      BY <2>7, <3>1 DEF Pages
    <3> QED BY <2>4, <3>1, <3>2 DEF Twofold
  <2> QED BY <2>1, <2>4, <2>8, <2>9 DEF Paired
<1>7. CASE WriteLeft
  <2>1. /\ WritePage(op.at, op.page) /\ op.pc = "left" /\ op'.pc = "up"
        /\ op.at \in Pages(size) /\ op.page.kind = disk[op.at].kind
    BY <1>1, <1>7 DEF WriteLeft, Typed
  <2>2. op.at \in 1..size /\ size > 0
    BY <1>1, <2>1 DEF Pages
  <2>3. op.page.kind = "leaf" => Len(op.page.ents) >= 2 /\ Twofold(disk, size, op.page.next)
    BY <2>1 DEF Paired
  <2>4. Leading
    BY <1>1, <2>1, <2>2, <2>3, WrittenPaired
  <2> QED BY <2>1, <2>4 DEF Paired
<1>8. ASSUME NEW pid \in 1..size, NEW page, WritePage(pid, page), page.kind = "nonleaf",
             pid # size => disk[pid].kind = "nonleaf", size > 0
      PROVE  Leading
  BY <1>1, <1>8, WrittenPaired
<1>9. CASE InsertInNonLeaf \/ SplitNonLeaf
  <2>1. /\ op.pc = "up" /\ op.held # <<>> /\ op.held \in Seq(HeldPage)
        /\ \A i \in 1..Len(op.held) : op.held[i].pid \in Pages(size) /\ disk[op.held[i].pid].kind = "nonleaf"
    BY <1>1, <1>9 DEF InsertInNonLeaf, SplitNonLeaf, Typed
  <2>2. Len(op.held) \in 1..Len(op.held)
    BY <2>1, EmptySeq
  <2>3. /\ Parent.pid \in Pages(size) /\ disk[Parent.pid].kind = "nonleaf"
        /\ Parent.node \in NonLeafPage
    <3>1. Parent \in HeldPage
      BY <2>1, <2>2, ElementOfSeq DEF Parent
    <3> QED BY <2>1, <2>2, <3>1 DEF Parent, HeldPage
  <2>4. Parent.pid \in 1..size /\ size > 0 /\ size \in 1..size
    BY <1>1, <2>3 DEF Pages
  <2>5. CASE InsertInNonLeaf
    <3>1. WritePage(Parent.pid, NonLeafInsert(Parent.node, op.over)) /\ op' = Idle
      BY <2>5 DEF InsertInNonLeaf, Return
    <3>2. NonLeafInsert(Parent.node, op.over).kind = "nonleaf"
      BY <2>3 DEF NonLeafInsert, NonLeafPage, NonLeafNode
    <3> QED BY <1>8, <2>3, <2>4, <3>1, <3>2 DEF Paired, Idle
  <2>6. CASE SplitNonLeaf
    <3> DEFINE s == NonLeafSplit(Parent.node, op.over)
    <3>1. WritePage(size, s.right) /\ op'.page = s.left
      BY <2>6 DEF SplitNonLeaf
    <3>2. s.right.kind = "nonleaf" /\ s.left.kind = "nonleaf"
      BY <2>3 DEF NonLeafSplit, NonLeafPage, NonLeafNode
    <3> HIDE DEF s
    <3> QED BY <1>8, <2>4, <3>1, <3>2 DEF Paired
  <2> QED BY <1>9, <2>5, <2>6
<1>10. CASE NewRoot
  <2>1. WritePage(size, InitializeRoot(obj.root, op.over.key, op.over.pid)) /\ op' = Idle /\ size > 0
        /\ size \in 1..size
    BY <1>1, <1>10 DEF NewRoot, Return, Typed, Inserting
  <2>2. InitializeRoot(obj.root, op.over.key, op.over.pid).kind = "nonleaf"
    BY DEF InitializeRoot
  <2> QED BY <1>8, <2>1, <2>2 DEF Paired, Idle
<1>11. CASE \/ Open("r") \/ Open("w") \/ CloseFails \/ Abandon \/ Descend \/ InsertFails
            \/ (\E e \in Entry : InsertCall(e)) \/ (\E k \in Key : LocateCall(k))
            \/ SeekDown \/ SeekLeaf \/ ReadForward \/ UNCHANGED vars
  <2>1. UNCHANGED <<disk, size>>
    BY <1>11 DEF Open, CloseFails, Abandon, Descend, InsertFails, InsertCall, LocateCall,
       SeekDown, SeekLeaf, ReadForward, vars
  <2>2. op' = op \/ op'.pc # "left"
    <3>1. CASE Descend \/ SeekDown
      <4>1. op \in [pc : {"down"}, entry : Entry, at : Pages(size), held : Seq(HeldPage)]
            \/ op \in [pc : {"seek"}, key : Key, at : Pages(size), level : Nat]
        BY <1>1, <3>1, SeekTyped DEF Descend, SeekDown, Typed
      <4> QED BY <3>1, <4>1 DEF Descend, SeekDown
    <3>2. CASE ~(Descend \/ SeekDown)
      BY <1>11, <3>2 DEF Open, CloseFails, Abandon, InsertFails, InsertCall, LocateCall,
         SeekLeaf, ReadForward, vars, Idle
    <3> QED BY <3>1, <3>2
  <2> QED BY <1>2, <2>1, <2>2
<1> QED BY <1>3, <1>4, <1>5, <1>6, <1>7, <1>9, <1>10, <1>11 DEF Next, InsertStep

=============================================================================
