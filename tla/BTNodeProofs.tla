----------------------------- MODULE BTNodeProofs -----------------------------
(***************************************************************************)
(* What the operations of BTNode return, for every capacity: entries of    *)
(* the set T they were given entries of, whatever T is (the proofs about   *)
(* BTreeIndex choose T to say which pages a node may point to), at which   *)
(* places, in which order, and where the keys are sent after it.           *)
(***************************************************************************)
EXTENDS BTNode, FiniteSetTheorems, SequenceTheorems, WellFoundedInduction, TLAPS

\* Entries are records with an integer key.
Keyed(T) == \A e \in T : e.key \in Int

-----------------------------------------------------------------------------
(* The search.                                                             *)

LEMMA MinExists ==
  ASSUME NEW S \in SUBSET Nat, S # {}
  PROVE  Min(S) \in S /\ \A y \in S : Min(S) <= y
<1>1. PICK x \in S : \A y \in S : ~(<<y, x>> \in OpToRel(<, Nat))
  BY WFMin, NatLessThanWellFounded
<1>2. \A y \in Nat : y < x => <<y, x>> \in OpToRel(<, Nat)
  BY Zenon DEF OpToRel
<1>3. \A y \in S : ~(y < x)
  BY <1>1, <1>2, Zenon
<1>4. x \in Nat /\ \A y \in S : y \in Nat
  OBVIOUS
<1>5. \A y \in S : x <= y
  BY <1>3, <1>4
<1> QED BY <1>5 DEF Min

LEMMA LocateRange ==
  ASSUME NEW T, Keyed(T), NEW ents \in Seq(T), NEW key \in Int
  PROVE  /\ Locate(ents, key) \in 1..(Len(ents) + 1)
         /\ Locate(ents, key) <= Len(ents) => ents[Locate(ents, key)].key >= key
         /\ \A i \in 1..Len(ents) : i < Locate(ents, key) => ents[i].key < key
<1> DEFINE S  == {i \in 1..Len(ents) : ents[i].key >= key} \cup {Len(ents) + 1}
           at == Min(S)
<1>1. Len(ents) \in Nat
  OBVIOUS
<1>2. S \in SUBSET Nat /\ S # {}
  BY <1>1
<1>3. at \in S /\ \A y \in S : at <= y
  BY <1>2, MinExists
<1>4. \A i \in 1..Len(ents) : ents[i].key \in Int
  BY ElementOfSeq DEF Keyed
<1>5. at = Locate(ents, key)
  BY DEF Locate
<1> HIDE DEF at
<1>6. at \in 1..(Len(ents) + 1) /\ (at <= Len(ents) => ents[at].key >= key)
  BY <1>1, <1>3
<1>7. \A i \in 1..Len(ents) : i < at => ents[i].key < key
  BY <1>1, <1>3, <1>4, <1>6
<1> QED BY <1>5, <1>6, <1>7

LEMMA InsertType ==
  ASSUME NEW T, Keyed(T), NEW ents \in Seq(T), NEW e \in T
  PROVE  Insert(ents, e) \in Seq(T) /\ Len(Insert(ents, e)) = Len(ents) + 1
<1> DEFINE at == Locate(ents, e.key)
           n  == Len(ents) + 1
           f  == [i \in 1..n |-> IF i < at THEN ents[i] ELSE IF i = at THEN e ELSE ents[i - 1]]
<1>1. Len(ents) \in Nat
  OBVIOUS
<1>2. at \in 1..n
  BY LocateRange DEF Keyed
<1>3. \A i \in 1..Len(ents) : ents[i] \in T
  BY ElementOfSeq
<1> HIDE DEF at
<1>4. f \in [1..n -> T]
  BY <1>1, <1>2, <1>3
<1>5. f \in Seq(T) /\ Len(f) = n
  BY <1>1, <1>4, SeqDef, LenProperties
<1> QED BY <1>5 DEF Insert, at

-----------------------------------------------------------------------------
(* The sibling of a split: every rank is that of one entry, so what is     *)
(* reinserted are entries of the node.                                     *)

LEMMA RankIsRank ==
  ASSUME NEW T, Keyed(T), NEW ents \in Seq(T), NEW j \in 1..Len(ents)
  PROVE  Rank(ents, j) \in 1..Len(ents)
<1> DEFINE n == Len(ents)
           B == {i \in 1..n : Before(ents, i, j)}
<1>1. n \in Nat
  OBVIOUS
<1>2. IsFiniteSet(1..n) /\ Cardinality(1..n) = n
  BY <1>1, FS_Interval, SMTT(30)
<1>3. ents[j].key \in Int
  BY ElementOfSeq DEF Keyed
<1>4. j \notin B
  BY <1>3 DEF Before
<1>5. B # 1..n /\ B \in SUBSET (1..n)
  BY <1>4
<1> HIDE DEF B
<1>6. IsFiniteSet(B) /\ Cardinality(B) <= n /\ Cardinality(B) # n
  BY <1>2, <1>5, FS_Subset
<1>7. Cardinality(B) \in Nat
  BY <1>6, FS_CardinalityType
<1> QED BY <1>1, <1>6, <1>7 DEF Rank, B

LEMMA RankIsStrict ==
  ASSUME NEW T, Keyed(T), NEW ents \in Seq(T),
         NEW i \in 1..Len(ents), NEW j \in 1..Len(ents), Before(ents, i, j)
  PROVE  Rank(ents, i) < Rank(ents, j)
<1> DEFINE n == Len(ents)
           I == {k \in 1..n : Before(ents, k, i)}
           J == {k \in 1..n : Before(ents, k, j)}
<1>1. n \in Nat /\ IsFiniteSet(1..n)
  BY FS_Interval
<1>2. \A k \in 1..n : ents[k].key \in Int
  BY ElementOfSeq DEF Keyed
<1>3. i \in J /\ i \notin I
  BY <1>2 DEF Before
<1>4. I \subseteq J
  BY <1>2 DEF Before
<1>5. J \in SUBSET (1..n)
  OBVIOUS
<1> HIDE DEF I, J
<1>6. IsFiniteSet(J)
  BY <1>1, <1>5, FS_Subset
<1>7. IsFiniteSet(I) /\ Cardinality(I) <= Cardinality(J) /\ Cardinality(I) # Cardinality(J)
  BY <1>3, <1>4, <1>6, FS_Subset
<1>8. Cardinality(I) \in Nat /\ Cardinality(J) \in Nat
  BY <1>6, <1>7, FS_CardinalityType
<1> QED BY <1>7, <1>8 DEF Rank, I, J

LEMMA RankOrders ==
  ASSUME NEW T, Keyed(T), NEW ents \in Seq(T)
  PROVE  \A i, j \in 1..Len(ents) : /\ Rank(ents, i) = Rank(ents, j) => i = j
                                    /\ Rank(ents, i) < Rank(ents, j) => Before(ents, i, j)
<1> SUFFICES ASSUME NEW i \in 1..Len(ents), NEW j \in 1..Len(ents)
             PROVE  /\ Rank(ents, i) = Rank(ents, j) => i = j
                    /\ Rank(ents, i) < Rank(ents, j) => Before(ents, i, j)
  OBVIOUS
<1>1. i # j => Before(ents, i, j) \/ Before(ents, j, i)
  <2>1. \A k \in 1..Len(ents) : ents[k].key \in Int
    BY ElementOfSeq DEF Keyed
  <2> QED BY <2>1 DEF Before
<1>2. Rank(ents, i) \in Int /\ Rank(ents, j) \in Int
  BY RankIsRank
<1>3. /\ Before(ents, i, j) => Rank(ents, i) < Rank(ents, j)
      /\ Before(ents, j, i) => Rank(ents, j) < Rank(ents, i)
  BY RankIsStrict
<1> QED BY <1>1, <1>2, <1>3

LEMMA EveryRank ==
  ASSUME NEW T, Keyed(T), NEW ents \in Seq(T), NEW r \in 1..Len(ents)
  PROVE  \E j \in 1..Len(ents) : Rank(ents, j) = r
<1> DEFINE n == Len(ents)
           f == [j \in 1..n |-> Rank(ents, j)]
<1>1. f \in [1..n -> 1..n]
  BY RankIsRank
<1>2. \A i, j \in 1..n : f[i] = f[j] => i = j
  BY RankOrders
<1>3. f \in Injection(1..n, 1..n)
  BY <1>1, <1>2 DEF Injection, IsInjective
<1>4. n \in Nat /\ IsFiniteSet(1..n)
  BY FS_Interval
<1> HIDE DEF f
<1>5. f \in Surjection(1..n, 1..n)
  BY <1>3, <1>4, FS_Injection
<1> QED BY <1>5 DEF Surjection, f

LEMMA ReinsertedType ==
  ASSUME NEW T, Keyed(T), NEW ents \in Seq(T)
  PROVE  Reinserted(ents) \in Seq(T)
<1> DEFINE n == Len(ents)
           f == [r \in 1..n |-> ents[CHOOSE j \in 1..n : Rank(ents, j) = r]]
<1>1. \A r \in 1..n : (CHOOSE j \in 1..n : Rank(ents, j) = r) \in 1..n
  BY EveryRank
<1>2. f \in [1..n -> T]
  BY <1>1, ElementOfSeq
<1>3. n \in Nat
  OBVIOUS
<1> HIDE DEF f
<1>4. f \in Seq(T)
  BY <1>2, <1>3, SeqDef
<1> QED BY <1>4 DEF Reinserted, f

-----------------------------------------------------------------------------
(* Nodes, of entries in E and pages in N or Q.                             *)
LeafNode(E, N)    == [kind : {"leaf"}, ents : Seq(E), next : N]
Separator(K, Q)   == [key : K, pid : Q]
NonLeafNode(K, Q) == [kind : {"nonleaf"}, first : Q, ents : Seq(Separator(K, Q))]

LEMMA Halves ==
  ASSUME NEW count \in Nat, count >= 2
  PROVE  /\ SplitPos(count) \in 1..(count - 1)
         /\ count \div 2 \in 1..(count - 1)
BY DEF SplitPos

LEMMA SubSeqType ==
  ASSUME NEW T, NEW s \in Seq(T), NEW a \in Nat \ {0}, NEW b \in 0..Len(s)
  PROVE  SubSeq(s, a, b) \in Seq(T)
<1>1. \A i \in a..b : s[i] \in T
  <2> SUFFICES ASSUME NEW i \in a..b PROVE s[i] \in T
    OBVIOUS
  <2>1. i \in 1..Len(s)
    OBVIOUS
  <2> QED BY <2>1, ElementOfSeq
<1>2. a \in Int /\ b \in Int
  OBVIOUS
<1> QED BY <1>1, <1>2, SubSeqProperties

LEMMA LeafInsertType ==
  ASSUME NEW E, Keyed(E), NEW N, NEW n \in LeafNode(E, N), NEW e \in E
  PROVE  LeafInsert(n, e) \in LeafNode(E, N)
<1>1. Insert(n.ents, e) \in Seq(E)
  BY InsertType DEF LeafNode
<1> QED BY <1>1 DEF LeafInsert, LeafNode

\* A split of a full leaf gives two leaves and a key of one of the entries.
LEMMA LeafSplitType ==
  ASSUME NEW E, Keyed(E), NEW K, \A x \in E : x.key \in K,
         NEW N, NEW n \in LeafNode(E, N), LeafFull(n), NEW e \in E
  PROVE  /\ LeafSplit(n, e).left \in LeafNode(E, N)
         /\ LeafSplit(n, e).right \in LeafNode(E, {0})
         /\ LeafSplit(n, e).key \in K
<1> DEFINE count == Len(n.ents)
           half  == count \div 2
           pos   == SplitPos(count)
           eid   == Locate(n.ents, e.key) - 1
           kept  == SubSeq(n.ents, 1, half)
           upper == SubSeq(n.ents, pos + 1, count)
           moved == Reinserted(upper)
           lower == IF eid < pos THEN Insert(kept, e) ELSE kept
           above == IF eid < pos THEN moved ELSE Insert(moved, e)
           key   == IF eid = pos THEN e.key ELSE n.ents[pos + 1].key
<1>1. n.ents \in Seq(E) /\ count \in Nat /\ count >= 2
  BY LeafMaxAssumption DEF LeafNode, LeafFull
<1>2. pos \in 1..(count - 1) /\ half \in 1..(count - 1)
  BY <1>1, Halves
<1>3. LeafSplit(n, e) = [left  |-> [n EXCEPT !.ents = lower],
                         right |-> [EmptyLeaf EXCEPT !.ents = above], key |-> key]
  BY DEF LeafSplit
<1> HIDE DEF pos, half, eid
<1>4. kept \in Seq(E)
  BY <1>1, <1>2, SubSeqType
<1>5. upper \in Seq(E)
  <2>1. pos + 1 \in Nat \ {0} /\ count \in 0..count
    BY <1>1, <1>2
  <2> QED BY <1>1, <2>1, SubSeqType
<1> HIDE DEF kept, upper
<1>6. moved \in Seq(E)
  BY <1>5, ReinsertedType
<1> HIDE DEF moved
<1>7. lower \in Seq(E) /\ above \in Seq(E)
  BY <1>4, <1>6, InsertType
<1>8. key \in K
  <2>1. n.ents[pos + 1] \in E
    BY <1>1, <1>2, ElementOfSeq
  <2> QED BY <2>1
<1> HIDE DEF lower, above, key
<1>9. [n EXCEPT !.ents = lower] \in LeafNode(E, N)
  BY <1>7 DEF LeafNode
<1>10. [EmptyLeaf EXCEPT !.ents = above] \in LeafNode(E, {0})
  BY <1>7 DEF LeafNode, EmptyLeaf
<1> QED BY <1>3, <1>8, <1>9, <1>10

LEMMA NonLeafInsertType ==
  ASSUME NEW K \in SUBSET Int, NEW Q, NEW n \in NonLeafNode(K, Q), NEW e \in Separator(K, Q)
  PROVE  NonLeafInsert(n, e) \in NonLeafNode(K, Q)
<1>1. Insert(n.ents, e) \in Seq(Separator(K, Q))
  BY InsertType DEF NonLeafNode, Keyed, Separator
<1> QED BY <1>1 DEF NonLeafInsert, NonLeafNode

\* A split of a full non-leaf gives two non-leaves and a key, whatever it does
\* with the new entry.
LEMMA NonLeafSplitType ==
  ASSUME NEW K \in SUBSET Int, NEW Q, NEW n \in NonLeafNode(K, Q), NonLeafFull(n),
         NEW e \in Separator(K, Q)
  PROVE  /\ NonLeafSplit(n, e).left \in NonLeafNode(K, Q)
         /\ NonLeafSplit(n, e).right \in NonLeafNode(K, Q)
         /\ NonLeafSplit(n, e).key \in K
<1> DEFINE count == Len(n.ents)
           half  == count \div 2
           pos   == SplitPos(count)
           lower == SubSeq(n.ents, 1, half)
           upper == SubSeq(n.ents, pos + 2, count)
           above == Reinserted(upper)
           mid   == n.ents[pos + 1]
<1>1. n.ents \in Seq(Separator(K, Q)) /\ count \in Nat /\ count >= 2
  BY NonLeafMaxAssumption DEF NonLeafNode, NonLeafFull
<1>2. pos \in 1..(count - 1) /\ half \in 1..(count - 1)
  BY <1>1, Halves
<1>3. NonLeafSplit(n, e) =
        [left  |-> [n EXCEPT !.ents = lower],
         right |-> [kind |-> "nonleaf", first |-> mid.pid, ents |-> above],
         key   |-> mid.key]
  BY DEF NonLeafSplit, NonLeafInsert
<1> HIDE DEF pos, half
<1>4. lower \in Seq(Separator(K, Q))
  BY <1>1, <1>2, SubSeqType
<1>5. upper \in Seq(Separator(K, Q))
  <2>1. pos + 2 \in Nat \ {0} /\ count \in 0..count
    BY <1>1, <1>2
  <2> QED BY <1>1, <2>1, SubSeqType
<1>6. Keyed(Separator(K, Q))
  BY DEF Keyed, Separator
<1> HIDE DEF lower, upper
<1>7. above \in Seq(Separator(K, Q))
  BY <1>5, <1>6, ReinsertedType
<1>8. mid.key \in K /\ mid.pid \in Q
  <2>1. mid \in Separator(K, Q)
    BY <1>1, <1>2, ElementOfSeq
  <2> QED BY <2>1 DEF Separator
<1> HIDE DEF above, mid
<1>9. [n EXCEPT !.ents = lower] \in NonLeafNode(K, Q)
  BY <1>4 DEF NonLeafNode
<1>10. [kind |-> "nonleaf", first |-> mid.pid, ents |-> above] \in NonLeafNode(K, Q)
  BY <1>7, <1>8 DEF NonLeafNode
<1> QED BY <1>3, <1>8, <1>9, <1>10

\* A descent follows a pointer of the node.
LEMMA ChildPtrType ==
  ASSUME NEW K \in SUBSET Int, NEW Q, NEW n \in NonLeafNode(K, Q), NEW key \in Int
  PROVE  ChildPtr(n, key) \in Q
<1> DEFINE S == {i \in 1..Len(n.ents) : key < n.ents[i].key} \cup {Len(n.ents) + 1}
           larger == Min(S)
<1>1. n.ents \in Seq(Separator(K, Q)) /\ Len(n.ents) \in Nat
  BY DEF NonLeafNode
<1>2. S \in SUBSET Nat /\ S # {}
  BY <1>1
<1>3. larger \in S
  BY <1>2, MinExists
<1>4. ChildPtr(n, key) = IF larger = 1 THEN n.first ELSE n.ents[larger - 1].pid
  BY DEF ChildPtr
<1> HIDE DEF larger
<1>5. larger \in 1..(Len(n.ents) + 1)
  BY <1>1, <1>3
<1>6. larger # 1 => n.ents[larger - 1] \in Separator(K, Q)
  BY <1>1, <1>5, ElementOfSeq
<1> QED BY <1>4, <1>6 DEF NonLeafNode, Separator

-----------------------------------------------------------------------------
(* What the operations do to the order and to the set of the entries.      *)

Members(ents)   == {ents[i] : i \in 1..Len(ents)}
Ascending(ents) == \A i, j \in 1..Len(ents) : i < j => ents[i].key <= ents[j].key

LEMMA MembersType ==
  ASSUME NEW T, NEW ents \in Seq(T)
  PROVE  Members(ents) \subseteq T
BY ElementOfSeq DEF Members

\* The new entry is where the search for its key stops, the others keep their order.
LEMMA InsertPlaces ==
  ASSUME NEW T, Keyed(T), NEW ents \in Seq(T), NEW e \in T
  PROVE  LET at == Locate(ents, e.key) IN
         /\ at \in 1..(Len(ents) + 1)
         /\ Insert(ents, e)[at] = e
         /\ \A i \in 1..Len(ents) :
              Insert(ents, e)[IF i < at THEN i ELSE i + 1] = ents[i]
         /\ \A i \in 1..(Len(ents) + 1) :
              Insert(ents, e)[i] = IF i < at THEN ents[i] ELSE IF i = at THEN e ELSE ents[i - 1]
<1> DEFINE at == Locate(ents, e.key)
           n  == Len(ents)
<1>1. n \in Nat /\ at \in 1..(n + 1)
  BY LocateRange DEF Keyed
<1> HIDE DEF at
<1>2. \A i \in 1..(n + 1) :
        Insert(ents, e)[i] = IF i < at THEN ents[i] ELSE IF i = at THEN e ELSE ents[i - 1]
  BY DEF Insert, at
<1>3. Insert(ents, e)[at] = e
  BY <1>1, <1>2
<1>4. \A i \in 1..n : Insert(ents, e)[IF i < at THEN i ELSE i + 1] = ents[i]
  <2> SUFFICES ASSUME NEW i \in 1..n
               PROVE  Insert(ents, e)[IF i < at THEN i ELSE i + 1] = ents[i]
    OBVIOUS
  <2>1. CASE i < at
    BY <1>1, <1>2, <2>1
  <2>2. CASE ~(i < at)
    <3>1. i + 1 \in 1..(n + 1) /\ ~(i + 1 < at) /\ i + 1 # at /\ (i + 1) - 1 = i
      BY <1>1, <2>2
    <3> QED BY <1>2, <2>2, <3>1
  <2> QED BY <2>1, <2>2
<1> QED BY <1>1, <1>2, <1>3, <1>4 DEF at

LEMMA InsertMembers ==
  ASSUME NEW T, Keyed(T), NEW ents \in Seq(T), NEW e \in T
  PROVE  Members(Insert(ents, e)) = Members(ents) \cup {e}
<1> DEFINE at  == Locate(ents, e.key)
           n   == Len(ents)
           new == Insert(ents, e)
<1>1. n \in Nat /\ Len(new) = n + 1
  BY InsertType
<1>2. at \in 1..(n + 1) /\ new[at] = e
  BY InsertPlaces
<1>3. \A i \in 1..n : new[IF i < at THEN i ELSE i + 1] = ents[i]
  BY InsertPlaces
<1>4. \A i \in 1..(n + 1) : new[i] = IF i < at THEN ents[i] ELSE IF i = at THEN e ELSE ents[i - 1]
  BY InsertPlaces
<1> HIDE DEF at, new
<1>5. Members(new) \subseteq Members(ents) \cup {e}
  <2> SUFFICES ASSUME NEW i \in 1..(n + 1) PROVE new[i] \in Members(ents) \cup {e}
    BY <1>1 DEF Members
  <2>1. CASE i < at
    BY <1>1, <1>2, <1>4, <2>1 DEF Members
  <2>2. CASE i > at
    <3>1. i - 1 \in 1..n /\ new[i] = ents[i - 1]
      BY <1>1, <1>2, <1>4, <2>2
    <3> QED BY <3>1 DEF Members
  <2>3. CASE i = at
    BY <1>2, <2>3
  <2> QED BY <1>2, <2>1, <2>2, <2>3
<1>6. e \in Members(new)
  BY <1>1, <1>2 DEF Members
<1>7. Members(ents) \subseteq Members(new)
  <2> SUFFICES ASSUME NEW i \in 1..n PROVE ents[i] \in Members(new)
    BY DEF Members
  <2>1. (IF i < at THEN i ELSE i + 1) \in 1..(n + 1)
    BY <1>1
  <2> QED BY <1>1, <1>3, <2>1 DEF Members
<1> QED BY <1>5, <1>6, <1>7 DEF new

LEMMA InsertAscending ==
  ASSUME NEW T, Keyed(T), NEW ents \in Seq(T), NEW e \in T, Ascending(ents)
  PROVE  Ascending(Insert(ents, e))
<1> DEFINE at  == Locate(ents, e.key)
           n   == Len(ents)
           new == Insert(ents, e)
<1>1. n \in Nat /\ Len(new) = n + 1 /\ e.key \in Int
  BY InsertType DEF Keyed
<1>2. at \in 1..(n + 1) /\ new[at] = e
  BY InsertPlaces
<1>3. \A i \in 1..(n + 1) : new[i] = IF i < at THEN ents[i] ELSE IF i = at THEN e ELSE ents[i - 1]
  BY InsertPlaces
<1>4. \A i \in 1..n : ents[i].key \in Int
  BY ElementOfSeq DEF Keyed
<1>5. \A i \in 1..n : i < at => ents[i].key < e.key
  BY LocateRange DEF Keyed
<1>6. at <= n => ents[at].key >= e.key
  BY LocateRange DEF Keyed
<1>7. \A i \in 1..n : i >= at => ents[i].key >= e.key
  <2> SUFFICES ASSUME NEW i \in 1..n, i >= at PROVE ents[i].key >= e.key
    BY <1>2
  <2>1. at \in 1..n /\ ents[at].key >= e.key /\ ents[at].key \in Int /\ ents[i].key \in Int
    BY <1>1, <1>2, <1>4, <1>6
  <2>2. at = i \/ ents[at].key <= ents[i].key
    BY <1>2, <2>1 DEF Ascending
  <2> QED BY <1>1, <2>1, <2>2
<1> HIDE DEF at, new
<1>8. \A i, j \in 1..(n + 1) : i < j => new[i].key <= new[j].key
  <2> SUFFICES ASSUME NEW i \in 1..(n + 1), NEW j \in 1..(n + 1), i < j
               PROVE  new[i].key <= new[j].key
    OBVIOUS
  <2>1. CASE j < at
    <3>1. i \in 1..n /\ j \in 1..n /\ new[i] = ents[i] /\ new[j] = ents[j]
      BY <1>1, <1>2, <1>3, <2>1
    <3> QED BY <3>1 DEF Ascending
  <2>2. CASE j = at
    <3>1. i \in 1..n /\ i < at /\ new[i] = ents[i] /\ new[j] = e
      BY <1>1, <1>2, <1>3, <2>2
    <3> QED BY <1>1, <1>4, <1>5, <3>1
  <2>3. CASE j > at
    <3>1. j - 1 \in 1..n /\ j - 1 >= at /\ new[j] = ents[j - 1]
      BY <1>1, <1>2, <1>3, <2>3
    <3>2. CASE i < at
      <4>1. i \in 1..n /\ i < j - 1 /\ new[i] = ents[i]
        BY <1>1, <1>2, <1>3, <2>3, <3>2
      <4> QED BY <3>1, <4>1 DEF Ascending
    <3>3. CASE i = at
      <4>1. new[i] = e
        BY <1>2, <3>3
      <4> QED BY <1>1, <1>4, <1>7, <3>1, <4>1
    <3>4. CASE i > at
      <4>1. i - 1 \in 1..n /\ i - 1 < j - 1 /\ new[i] = ents[i - 1]
        BY <1>1, <1>2, <1>3, <3>4
      <4> QED BY <3>1, <4>1 DEF Ascending
    <3> QED BY <1>2, <3>2, <3>3, <3>4
  <2> QED BY <1>2, <2>1, <2>2, <2>3
<1> QED BY <1>1, <1>8 DEF Ascending, new

\* The search for the new entry's key stops at the new entry.
LEMMA InsertedIsLocated ==
  ASSUME NEW T, Keyed(T), NEW ents \in Seq(T), NEW e \in T
  PROVE  Locate(Insert(ents, e), e.key) = Locate(ents, e.key)
<1> DEFINE at  == Locate(ents, e.key)
           n   == Len(ents)
           new == Insert(ents, e)
           loc == Locate(new, e.key)
<1>1. n \in Nat /\ Len(new) = n + 1 /\ e.key \in Int /\ new \in Seq(T)
  BY InsertType DEF Keyed
<1>2. at \in 1..(n + 1) /\ new[at] = e
  BY InsertPlaces
<1>3. \A i \in 1..n : i < at => new[i] = ents[i]
  BY <1>1, InsertPlaces
<1>4. \A i \in 1..n : i < at => ents[i].key < e.key
  BY LocateRange DEF Keyed
<1>5. /\ loc \in 1..(n + 2)
      /\ loc <= n + 1 => new[loc].key >= e.key
      /\ \A i \in 1..(n + 1) : i < loc => new[i].key < e.key
  <2> HIDE DEF new
  <2>1. /\ loc \in 1..(Len(new) + 1)
        /\ loc <= Len(new) => new[loc].key >= e.key
        /\ \A i \in 1..Len(new) : i < loc => new[i].key < e.key
    BY <1>1, LocateRange
  <2> QED BY <1>1, <2>1
<1>6. \A i \in 1..n : ents[i].key \in Int
  BY ElementOfSeq DEF Keyed
<1> HIDE DEF at, new, loc
<1>7. ~(at < loc)
  BY <1>1, <1>2, <1>5
<1>8. ~(loc < at)
  <2> SUFFICES ASSUME loc < at PROVE FALSE
    OBVIOUS
  <2>1. loc \in 1..n /\ new[loc] = ents[loc] /\ new[loc].key >= e.key
    BY <1>1, <1>2, <1>3, <1>5
  <2> QED BY <1>1, <1>4, <1>6, <2>1
<1>9. loc = at
  BY <1>2, <1>5, <1>7, <1>8
<1> QED BY <1>9 DEF loc, at, new


\* What an empty sibling is filled with are the same entries, in order.
LEMMA ReinsertedPlaces ==
  ASSUME NEW T, Keyed(T), NEW ents \in Seq(T)
  PROVE  /\ Len(Reinserted(ents)) = Len(ents)
         /\ \A r \in 1..Len(ents) :
              \E j \in 1..Len(ents) : Rank(ents, j) = r /\ Reinserted(ents)[r] = ents[j]
<1> DEFINE n == Len(ents)
           J(r) == CHOOSE j \in 1..n : Rank(ents, j) = r
           f == [r \in 1..n |-> ents[J(r)]]
<1>1. \A r \in 1..n : J(r) \in 1..n /\ Rank(ents, J(r)) = r
  BY EveryRank
<1>2. f \in [1..n -> T] /\ n \in Nat
  BY <1>1, ElementOfSeq
<1>3. \A r \in 1..n : f[r] = ents[J(r)]
  OBVIOUS
<1>4. f = Reinserted(ents)
  BY DEF Reinserted
<1> HIDE DEF f, J
<1>5. Len(f) = n
  BY <1>2, SeqDef, LenProperties
<1> QED BY <1>1, <1>3, <1>4, <1>5

LEMMA ReinsertedMembers ==
  ASSUME NEW T, Keyed(T), NEW ents \in Seq(T)
  PROVE  Members(Reinserted(ents)) = Members(ents)
<1> DEFINE n == Len(ents)
<1>1. Len(Reinserted(ents)) = n
  BY ReinsertedPlaces
<1>2. \A r \in 1..n : \E j \in 1..n : Rank(ents, j) = r /\ Reinserted(ents)[r] = ents[j]
  BY ReinsertedPlaces
<1>3. Members(Reinserted(ents)) \subseteq Members(ents)
  BY <1>1, <1>2 DEF Members
<1>4. Members(ents) \subseteq Members(Reinserted(ents))
  <2> SUFFICES ASSUME NEW j \in 1..n PROVE ents[j] \in Members(Reinserted(ents))
    BY DEF Members
  <2>1. Rank(ents, j) \in 1..n
    BY RankIsRank
  <2>2. PICK k \in 1..n : Rank(ents, k) = Rank(ents, j) /\ Reinserted(ents)[Rank(ents, j)] = ents[k]
    BY <1>2, <2>1
  <2>3. k = j
    BY <2>2, RankOrders
  <2> QED BY <1>1, <2>1, <2>2, <2>3 DEF Members
<1> QED BY <1>3, <1>4

LEMMA ReinsertedAscending ==
  ASSUME NEW T, Keyed(T), NEW ents \in Seq(T)
  PROVE  Ascending(Reinserted(ents))
<1> DEFINE n == Len(ents)
<1>1. Len(Reinserted(ents)) = n
  BY ReinsertedPlaces
<1>2. \A r \in 1..n : \E j \in 1..n : Rank(ents, j) = r /\ Reinserted(ents)[r] = ents[j]
  BY ReinsertedPlaces
<1> SUFFICES ASSUME NEW p \in 1..n, NEW q \in 1..n, p < q
             PROVE  Reinserted(ents)[p].key <= Reinserted(ents)[q].key
  BY <1>1 DEF Ascending
<1>3. PICK i \in 1..n : Rank(ents, i) = p /\ Reinserted(ents)[p] = ents[i]
  BY <1>2
<1>4. PICK j \in 1..n : Rank(ents, j) = q /\ Reinserted(ents)[q] = ents[j]
  BY <1>2
<1>5. Before(ents, i, j)
  BY <1>3, <1>4, RankOrders
<1>6. ents[i].key \in Int /\ ents[j].key \in Int
  BY ElementOfSeq DEF Keyed
<1> QED BY <1>3, <1>4, <1>5, <1>6 DEF Before

\* One more entry goes before those of an equal or larger key.
LEMMA AppendedRank ==
  ASSUME NEW T, Keyed(T), NEW s \in Seq(T), NEW e \in T, NEW j \in 1..Len(s)
  PROVE  Rank(Append(s, e), j) = IF e.key <= s[j].key THEN Rank(s, j) + 1 ELSE Rank(s, j)
<1> DEFINE n == Len(s)
           t == Append(s, e)
           B == {i \in 1..n : Before(s, i, j)}
           D == {i \in 1..(n + 1) : Before(t, i, j)}
<1>1. /\ n \in Nat /\ t \in Seq(T) /\ Len(t) = n + 1 /\ t[n + 1] = e
      /\ \A i \in 1..n : t[i] = s[i] /\ s[i].key \in Int
  BY AppendProperties, ElementOfSeq DEF Keyed
<1>2. e.key \in Int
  BY DEF Keyed
<1> HIDE DEF t
<1>3. D = IF e.key <= s[j].key THEN B \cup {n + 1} ELSE B
  <2>1. \A i \in 1..n : Before(t, i, j) <=> Before(s, i, j)
    BY <1>1 DEF Before
  <2>2. Before(t, n + 1, j) <=> e.key <= s[j].key
    <3>1. t[j] = s[j] /\ s[j].key \in Int /\ n + 1 > j
      BY <1>1
    <3> QED BY <1>1, <1>2, <3>1 DEF Before
  <2>3. 1..(n + 1) = (1..n) \cup {n + 1}
    BY <1>1
  <2> QED BY <2>1, <2>2, <2>3
<1>4. IsFiniteSet(B)
  <2>1. IsFiniteSet(1..n) /\ B \in SUBSET (1..n)
    BY <1>1, FS_Interval
  <2> QED BY <2>1, FS_Subset
<1>5. n + 1 \notin B /\ Cardinality(B) \in Nat
  BY <1>1, <1>4, FS_CardinalityType
<1>6. Cardinality(B \cup {n + 1}) = Cardinality(B) + 1
  BY <1>4, <1>5, FS_AddElement
<1>7. Rank(s, j) = Cardinality(B) + 1 /\ Rank(t, j) = Cardinality(D) + 1
  BY <1>1 DEF Rank
<1> HIDE DEF B, D
<1> QED BY <1>3, <1>5, <1>6, <1>7 DEF t

\* What reinserting gives is what inserting each entry in its turn gives.
LEMMA ReinsertedAppend ==
  ASSUME NEW T, Keyed(T), NEW s \in Seq(T), NEW e \in T
  PROVE  Reinserted(Append(s, e)) = Insert(Reinserted(s), e)
<1> DEFINE n  == Len(s)
           t  == Append(s, e)
           R  == Reinserted(s)
           Q  == Reinserted(t)
           I  == Insert(R, e)
           at == Locate(R, e.key)
<1>1. /\ n \in Nat /\ t \in Seq(T) /\ Len(t) = n + 1 /\ t[n + 1] = e
      /\ \A i \in 1..n : t[i] = s[i] /\ s[i].key \in Int
  BY AppendProperties, ElementOfSeq DEF Keyed
<1>2. e.key \in Int
  BY DEF Keyed
<1>3. /\ R \in Seq(T) /\ Len(R) = n /\ Ascending(R)
      /\ \A r \in 1..n : \E j \in 1..n : Rank(s, j) = r /\ R[r] = s[j]
  BY ReinsertedType, ReinsertedPlaces, ReinsertedAscending
<1>4. \A j \in 1..n : Rank(s, j) \in 1..n /\ R[Rank(s, j)] = s[j]
  <2> SUFFICES ASSUME NEW j \in 1..n PROVE Rank(s, j) \in 1..n /\ R[Rank(s, j)] = s[j]
    OBVIOUS
  <2>1. Rank(s, j) \in 1..n
    BY RankIsRank
  <2>2. PICK k \in 1..n : Rank(s, k) = Rank(s, j) /\ R[Rank(s, j)] = s[k]
    BY <1>3, <2>1
  <2>3. k = j
    BY <2>2, RankOrders
  <2> QED BY <2>1, <2>2, <2>3
<1>5. /\ Q \in Seq(T) /\ Len(Q) = n + 1
      /\ \A r \in 1..(n + 1) : \E j \in 1..(n + 1) : Rank(t, j) = r /\ Q[r] = t[j]
  <2> HIDE DEF t
  <2>1. /\ Q \in Seq(T) /\ Len(Q) = Len(t)
        /\ \A r \in 1..Len(t) : \E j \in 1..Len(t) : Rank(t, j) = r /\ Q[r] = t[j]
    BY <1>1, ReinsertedType, ReinsertedPlaces
  <2> QED BY <1>1, <2>1
<1> HIDE DEF R, Q
<1>6. /\ at \in 1..(n + 1)
      /\ at <= n => R[at].key >= e.key
      /\ \A i \in 1..n : i < at => R[i].key < e.key
  <2>1. /\ at \in 1..(Len(R) + 1)
        /\ at <= Len(R) => R[at].key >= e.key
        /\ \A i \in 1..Len(R) : i < at => R[i].key < e.key
    BY <1>2, <1>3, LocateRange
  <2> QED BY <1>3, <2>1
<1>7. /\ I \in Seq(T) /\ Len(I) = n + 1
      /\ \A i \in 1..(n + 1) : I[i] = IF i < at THEN R[i] ELSE IF i = at THEN e ELSE R[i - 1]
  <2>1. /\ I \in Seq(T) /\ Len(I) = Len(R) + 1
        /\ \A i \in 1..(Len(R) + 1) :
             I[i] = IF i < at THEN R[i] ELSE IF i = at THEN e ELSE R[i - 1]
    <3>1. R \in Seq(T)
      BY <1>3
    <3>2. I \in Seq(T) /\ Len(I) = Len(R) + 1
      BY <3>1, InsertType
    <3>3. \A i \in 1..(Len(R) + 1) :
            I[i] = IF i < at THEN R[i] ELSE IF i = at THEN e ELSE R[i - 1]
      BY <3>1, InsertPlaces
    <3> QED BY <3>2, <3>3
  <2> QED BY <1>3, <2>1
<1> HIDE DEF at, I
\* an old entry keeps its place or moves up by one
<1>8. ASSUME NEW j \in 1..n
      PROVE  /\ Rank(t, j) \in 1..(n + 1) /\ Rank(t, j) # at
             /\ I[Rank(t, j)] = s[j]
  <2> DEFINE r == Rank(s, j)
  <2>1. r \in 1..n /\ R[r] = s[j] /\ s[j].key \in Int
    BY <1>1, <1>4
  <2>2. Rank(t, j) = IF e.key <= s[j].key THEN r + 1 ELSE r
    BY AppendedRank
  <2> HIDE DEF r, t
  <2>3. CASE e.key <= s[j].key
    <3>1. ~(r < at)
      BY <1>2, <1>6, <2>1, <2>3
    <3>2. Rank(t, j) = r + 1 /\ r + 1 > at /\ r + 1 \in 1..(n + 1) /\ (r + 1) - 1 = r
      BY <1>1, <1>6, <2>1, <2>2, <2>3, <3>1
    <3> QED BY <1>6, <1>7, <2>1, <3>2
  <2>4. CASE ~(e.key <= s[j].key)
    <3>1. r < at
      <4> SUFFICES ASSUME ~(r < at) PROVE FALSE
        OBVIOUS
      <4>1. at \in 1..n /\ at <= r /\ R[at].key >= e.key
        <5>1. at \in 1..n /\ at <= r
          BY <1>1, <1>6, <2>1
        <5> QED BY <1>6, <5>1
      <4>2. R[at].key \in Int
        BY <1>3, <4>1, ElementOfSeq DEF Keyed
      <4>3. at < r => R[at].key <= R[r].key
        BY <1>3, <2>1, <4>1 DEF Ascending
      <4>4. at = r => R[at].key = s[j].key
        BY <2>1
      <4> QED BY <1>2, <2>1, <2>4, <4>1, <4>2, <4>3, <4>4
    <3>2. Rank(t, j) = r /\ r \in 1..(n + 1)
      BY <1>1, <2>1, <2>2, <2>4
    <3> QED BY <1>6, <1>7, <2>1, <3>1, <3>2
  <2> QED BY <2>3, <2>4
<1> HIDE DEF t
<1>9. ASSUME NEW r \in 1..(n + 1) PROVE Q[r] = I[r]
  <2>1. PICK j \in 1..(n + 1) : Rank(t, j) = r /\ Q[r] = t[j]
    BY <1>5
  <2>2. CASE j \in 1..n
    BY <1>1, <1>8, <2>1, <2>2
  <2>3. CASE j = n + 1
    <3>1. PICK k \in 1..(n + 1) : Rank(t, k) = at /\ Q[at] = t[k]
      BY <1>5, <1>6
    <3>2. k = n + 1
      BY <1>1, <1>8, <3>1
    <3>3. r = at
      BY <2>1, <2>3, <3>1, <3>2
    <3> QED BY <1>1, <1>6, <1>7, <2>1, <2>3, <3>3
  <2> QED BY <1>1, <2>2, <2>3
<1>10. Q = I
  <2>1. Q = [r \in 1..(n + 1) |-> Q[r]] /\ I = [r \in 1..(n + 1) |-> I[r]]
    BY <1>5, <1>7, SeqDef
  <2> QED BY <1>9, <2>1
<1> QED BY <1>10 DEF Q, I, R, t

LEMMA SubSeqPlaces ==
  ASSUME NEW T, NEW s \in Seq(T), NEW a \in Nat \ {0}, NEW b \in 0..Len(s), a <= b + 1
  PROVE  /\ SubSeq(s, a, b) \in Seq(T)
         /\ Len(SubSeq(s, a, b)) = b - a + 1
         /\ \A i \in 1..(b - a + 1) : SubSeq(s, a, b)[i] = s[a + i - 1]
<1>1. SubSeq(s, a, b) \in Seq(T)
  BY SubSeqType
<1>2. SubSeq(s, a, b) = [i \in 1..(b - a + 1) |-> s[a + i - 1]]
  BY SubSeqProperties
<1>3. Len(SubSeq(s, a, b)) = b - a + 1
  BY <1>1, <1>2, LenProperties
<1> QED BY <1>1, <1>2, <1>3

LEMMA SubSeqAscending ==
  ASSUME NEW T, NEW s \in Seq(T), NEW a \in Nat \ {0}, NEW b \in 0..Len(s), a <= b + 1,
         Ascending(s)
  PROVE  Ascending(SubSeq(s, a, b))
<1> DEFINE t == SubSeq(s, a, b)
<1>1. Len(t) = b - a + 1
  BY SubSeqPlaces
<1>2. \A i \in 1..(b - a + 1) : t[i] = s[a + i - 1]
  BY SubSeqPlaces
<1> HIDE DEF t
<1> SUFFICES ASSUME NEW i \in 1..(b - a + 1), NEW j \in 1..(b - a + 1), i < j
             PROVE  t[i].key <= t[j].key
  BY <1>1 DEF Ascending, t
<1>3. a + i - 1 \in 1..Len(s) /\ a + j - 1 \in 1..Len(s) /\ a + i - 1 < a + j - 1
  OBVIOUS
<1> QED BY <1>2, <1>3 DEF Ascending

\* Cut in two, the parts have the entries of the whole.
LEMMA CutMembers ==
  ASSUME NEW T, NEW s \in Seq(T), NEW m \in 0..Len(s)
  PROVE  Members(SubSeq(s, 1, m)) \cup Members(SubSeq(s, m + 1, Len(s))) = Members(s)
<1> DEFINE n == Len(s)
           a == SubSeq(s, 1, m)
           b == SubSeq(s, m + 1, n)
<1>1. n \in Nat /\ m \in Nat /\ m <= n
  OBVIOUS
<1>2. Len(a) = m /\ \A i \in 1..m : a[i] = s[i]
  <2>1. Len(a) = m - 1 + 1 /\ \A i \in 1..(m - 1 + 1) : a[i] = s[1 + i - 1]
    BY <1>1, SubSeqPlaces
  <2> QED BY <1>1, <2>1
<1>3. Len(b) = n - m /\ \A i \in 1..(n - m) : b[i] = s[m + i]
  <2>1. Len(b) = n - (m + 1) + 1 /\ \A i \in 1..(n - (m + 1) + 1) : b[i] = s[(m + 1) + i - 1]
    BY <1>1, SubSeqPlaces
  <2> QED BY <1>1, <2>1
<1> HIDE DEF a, b
<1>4. Members(a) \subseteq Members(s)
  BY <1>1, <1>2 DEF Members
<1>5. Members(b) \subseteq Members(s)
  <2> SUFFICES ASSUME NEW i \in 1..(n - m) PROVE b[i] \in Members(s)
    BY <1>3 DEF Members
  <2>1. m + i \in 1..n
    BY <1>1
  <2> QED BY <1>3, <2>1 DEF Members
<1>6. Members(s) \subseteq Members(a) \cup Members(b)
  <2> SUFFICES ASSUME NEW i \in 1..n PROVE s[i] \in Members(a) \cup Members(b)
    BY DEF Members
  <2>1. CASE i <= m
    BY <1>1, <1>2, <2>1 DEF Members
  <2>2. CASE i > m
    <3>1. i - m \in 1..(n - m) /\ m + (i - m) = i
      BY <1>1, <2>2
    <3> QED BY <1>3, <3>1 DEF Members
  <2> QED BY <1>1, <2>1, <2>2
<1> QED BY <1>4, <1>5, <1>6 DEF a, b

-----------------------------------------------------------------------------
(* A leaf that is full, and split.                                         *)

Half(n)  == Len(n.ents) \div 2
KeptHalf(n)  == SubSeq(n.ents, 1, Half(n))
MovedHalf(n) == Reinserted(SubSeq(n.ents, Half(n) + 1, Len(n.ents)))
GoesLeft(n, e) == Locate(n.ents, e.key) <= Half(n)

LEMMA LeafSplitParts ==
  ASSUME NEW E, Keyed(E), NEW N, NEW n \in LeafNode(E, N), Len(n.ents) = LeafMax, NEW e \in E
  PROVE  /\ Half(n) \in Nat \ {0} /\ LeafMax = 2 * Half(n)
         /\ KeptHalf(n) \in Seq(E) /\ Len(KeptHalf(n)) = Half(n)
         /\ MovedHalf(n) \in Seq(E) /\ Len(MovedHalf(n)) = Half(n)
         /\ Members(KeptHalf(n)) \cup Members(MovedHalf(n)) = Members(n.ents)
         /\ LeafSplit(n, e).left.ents  = IF GoesLeft(n, e) THEN Insert(KeptHalf(n), e) ELSE KeptHalf(n)
         /\ LeafSplit(n, e).right.ents = IF GoesLeft(n, e) THEN MovedHalf(n) ELSE Insert(MovedHalf(n), e)
         /\ LeafSplit(n, e).key = IF Locate(n.ents, e.key) = Half(n) + 1 THEN e.key
                                                                       ELSE n.ents[Half(n) + 1].key
<1> DEFINE count == Len(n.ents)
           half  == Half(n)
           upper == SubSeq(n.ents, half + 1, count)
           at    == Locate(n.ents, e.key)
<1>1. n.ents \in Seq(E) /\ count \in Nat /\ count = LeafMax
  BY LeafMaxAssumption DEF LeafNode
<1>2. half \in Nat \ {0} /\ count = 2 * half /\ SplitPos(count) = half
  BY <1>1, LeafMaxAssumption DEF SplitPos, Half
<1>3. at \in 1..(count + 1)
  BY <1>1, LocateRange DEF Keyed
<1>4. (at - 1 < half <=> GoesLeft(n, e)) /\ (at - 1 = half <=> at = half + 1)
  BY <1>2, <1>3 DEF GoesLeft
<1>5. LeafSplit(n, e) =
        [left  |-> [n EXCEPT !.ents = IF at - 1 < half THEN Insert(KeptHalf(n), e) ELSE KeptHalf(n)],
         right |-> [EmptyLeaf EXCEPT !.ents = IF at - 1 < half THEN MovedHalf(n) ELSE Insert(MovedHalf(n), e)],
         key   |-> IF at - 1 = half THEN e.key ELSE n.ents[half + 1].key]
  BY <1>2 DEF LeafSplit, KeptHalf, MovedHalf, Half
<1> HIDE DEF half, at
<1>6. KeptHalf(n) \in Seq(E) /\ Len(KeptHalf(n)) = half
  <2>1. 1 \in Nat \ {0} /\ half \in 0..count /\ 1 <= half + 1 /\ half - 1 + 1 = half
    BY <1>1, <1>2
  <2> QED BY <1>1, <2>1, SubSeqPlaces DEF KeptHalf, half
<1>7. upper \in Seq(E) /\ Len(upper) = half
  <2>1. half + 1 \in Nat \ {0} /\ count \in 0..count /\ half + 1 <= count + 1
        /\ count - (half + 1) + 1 = half
    BY <1>1, <1>2
  <2> QED BY <1>1, <2>1, SubSeqPlaces
<1>8. Members(KeptHalf(n)) \cup Members(upper) = Members(n.ents)
  <2>1. half \in 0..count
    BY <1>1, <1>2
  <2> QED BY <1>1, <2>1, CutMembers DEF KeptHalf, half
<1>9. MovedHalf(n) = Reinserted(upper)
  BY DEF MovedHalf, half
<1> HIDE DEF upper
<1>10. MovedHalf(n) \in Seq(E) /\ Len(MovedHalf(n)) = half /\ Members(MovedHalf(n)) = Members(upper)
  BY <1>7, <1>9, ReinsertedType, ReinsertedPlaces, ReinsertedMembers
<1>11. at = half + 1 <=> Locate(n.ents, e.key) = Half(n) + 1
  BY DEF at, half
<1>12. half \in Nat \ {0} /\ LeafMax = 2 * half
  BY <1>1, <1>2
<1>13. Members(KeptHalf(n)) \cup Members(MovedHalf(n)) = Members(n.ents)
  BY <1>8, <1>10, Zenon
<1>14. /\ LeafSplit(n, e).left.ents = IF GoesLeft(n, e) THEN Insert(KeptHalf(n), e) ELSE KeptHalf(n)
       /\ LeafSplit(n, e).right.ents = IF GoesLeft(n, e) THEN MovedHalf(n) ELSE Insert(MovedHalf(n), e)
       /\ LeafSplit(n, e).key = IF at = half + 1 THEN e.key ELSE n.ents[half + 1].key
  BY <1>4, <1>5 DEF LeafNode, EmptyLeaf
<1> QED BY <1>6, <1>10, <1>12, <1>13, <1>14, Zenon DEF half, at

\* No entry is lost or made up, and the halves differ by one entry.
Halved(ents, e, left, right) ==
  /\ Members(left) \cup Members(right) = Members(ents) \cup {e}
  /\ Len(left) + Len(right) = LeafMax + 1
  /\ Len(left) - Len(right) \in {-1, 1}
  /\ Len(left) <= LeafMax /\ Len(right) <= LeafMax

LEMMA LeafSplitMembers ==
  ASSUME NEW E, Keyed(E), NEW N, NEW n \in LeafNode(E, N), Len(n.ents) = LeafMax, NEW e \in E,
         NEW left, left = LeafSplit(n, e).left.ents,
         NEW right, right = LeafSplit(n, e).right.ents
  PROVE  left \in Seq(E) /\ right \in Seq(E) /\ Halved(n.ents, e, left, right)
<1> DEFINE kept  == KeptHalf(n)
           moved == MovedHalf(n)
           half  == Half(n)
<1>0. /\ half \in Nat \ {0} /\ LeafMax = 2 * half
      /\ kept \in Seq(E) /\ Len(kept) = half /\ moved \in Seq(E) /\ Len(moved) = half
  BY LeafSplitParts
<1>1. Members(kept) \cup Members(moved) = Members(n.ents)
  BY LeafSplitParts, Zenon
<1>2. left = IF GoesLeft(n, e) THEN Insert(kept, e) ELSE kept
  BY LeafSplitParts
<1>3. right = IF GoesLeft(n, e) THEN moved ELSE Insert(moved, e)
  BY LeafSplitParts
<1> HIDE DEF kept, moved, half
<1>4. /\ Insert(kept, e) \in Seq(E) /\ Len(Insert(kept, e)) = half + 1
      /\ Insert(moved, e) \in Seq(E) /\ Len(Insert(moved, e)) = half + 1
  BY <1>0, InsertType
<1>5. /\ Members(Insert(kept, e)) = Members(kept) \cup {e}
      /\ Members(Insert(moved, e)) = Members(moved) \cup {e}
  BY <1>0, InsertMembers
<1>6. CASE GoesLeft(n, e)
  <2>1. left = Insert(kept, e) /\ right = moved
    BY <1>2, <1>3, <1>6
  <2>2. Members(left) \cup Members(right) = Members(n.ents) \cup {e}
    BY <1>1, <1>5, <2>1
  <2>3. Len(left) = half + 1 /\ Len(right) = half /\ left \in Seq(E) /\ right \in Seq(E)
    BY <1>0, <1>4, <2>1
  <2> QED BY <1>0, <2>2, <2>3 DEF Halved
<1>7. CASE ~GoesLeft(n, e)
  <2>1. left = kept /\ right = Insert(moved, e)
    BY <1>2, <1>3, <1>7
  <2>2. Members(left) \cup Members(right) = Members(n.ents) \cup {e}
    BY <1>1, <1>5, <2>1
  <2>3. Len(left) = half /\ Len(right) = half + 1 /\ left \in Seq(E) /\ right \in Seq(E)
    BY <1>0, <1>4, <2>1
  <2> QED BY <1>0, <2>2, <2>3 DEF Halved
<1> QED BY <1>6, <1>7

\* The halves are in order, and the key reported separates them.
LEMMA LeafSplitOrder ==
  ASSUME NEW E, Keyed(E), NEW N, NEW n \in LeafNode(E, N), Len(n.ents) = LeafMax, NEW e \in E,
         Ascending(n.ents),
         NEW left, left = LeafSplit(n, e).left.ents,
         NEW right, right = LeafSplit(n, e).right.ents,
         NEW key, key = LeafSplit(n, e).key
  PROVE  /\ Ascending(left) /\ Ascending(right)
         /\ \A l \in Members(left) : l.key <= key
         /\ \A r \in Members(right) : key <= r.key
         /\ key = right[1].key
<1> DEFINE ents  == n.ents
           count == Len(n.ents)
           half  == Half(n)
           kept  == KeptHalf(n)
           upper == SubSeq(n.ents, half + 1, count)
           moved == MovedHalf(n)
           at    == Locate(n.ents, e.key)
           mid   == ents[half + 1].key
<1>1. /\ half \in Nat \ {0} /\ LeafMax = 2 * half
      /\ kept \in Seq(E) /\ Len(kept) = half /\ moved \in Seq(E) /\ Len(moved) = half
  BY LeafSplitParts
<1>2. left = IF GoesLeft(n, e) THEN Insert(kept, e) ELSE kept
  BY LeafSplitParts
<1>3. right = IF GoesLeft(n, e) THEN moved ELSE Insert(moved, e)
  BY LeafSplitParts
<1>4. key = IF at = half + 1 THEN e.key ELSE mid
  BY LeafSplitParts
<1>5. /\ ents \in Seq(E) /\ Len(ents) = count /\ count = 2 * half
      /\ \A i \in 1..count : ents[i].key \in Int
  <2>1. ents \in Seq(E)
    BY DEF LeafNode
  <2> QED BY <1>1, <2>1, ElementOfSeq DEF Keyed
<1>6. e.key \in Int /\ mid \in Int
  BY <1>1, <1>5 DEF Keyed
<1>7. /\ at \in 1..(count + 1)
      /\ at <= count => ents[at].key >= e.key
      /\ \A i \in 1..count : i < at => ents[i].key < e.key
  BY <1>5, <1>6, LocateRange
<1>8. GoesLeft(n, e) <=> at <= half
  BY DEF GoesLeft
<1>9. \A i, j \in 1..count : i <= j => ents[i].key <= ents[j].key
  <2> SUFFICES ASSUME NEW i \in 1..count, NEW j \in 1..count, i <= j
               PROVE  ents[i].key <= ents[j].key
    OBVIOUS
  <2>1. i = j \/ i < j
    BY <1>1, <1>5
  <2> QED BY <1>5, <2>1 DEF Ascending
<1> HIDE DEF half, count, at, mid
<1>10. /\ \A i \in 1..half : kept[i] = ents[i]
       /\ Ascending(kept)
  <2>1. 1 \in Nat \ {0} /\ half \in 0..count /\ 1 <= half + 1 /\ half - 1 + 1 = half
        /\ \A i \in 1..half : 1 + i - 1 = i
    BY <1>1, <1>5
  <2>2. \A i \in 1..half : SubSeq(ents, 1, half)[i] = ents[i]
    BY <1>5, <2>1, SubSeqPlaces
  <2>3. Ascending(SubSeq(ents, 1, half))
    BY <1>5, <2>1, SubSeqAscending
  <2> QED BY <2>2, <2>3 DEF KeptHalf, half
<1>11. /\ upper \in Seq(E) /\ Len(upper) = half
       /\ \A i \in 1..half : upper[i] = ents[half + i]
  <2>1. half + 1 \in Nat \ {0} /\ count \in 0..Len(ents) /\ half + 1 <= count + 1
        /\ count - (half + 1) + 1 = half /\ \A i \in 1..half : (half + 1) + i - 1 = half + i
    BY <1>1, <1>5
  <2>2. /\ upper \in Seq(E) /\ Len(upper) = count - (half + 1) + 1
        /\ \A i \in 1..(count - (half + 1) + 1) : upper[i] = ents[(half + 1) + i - 1]
    <3>1. \A a \in Nat \ {0}, b \in 0..Len(ents) : a <= b + 1 =>
            /\ SubSeq(ents, a, b) \in Seq(E)
            /\ Len(SubSeq(ents, a, b)) = b - a + 1
            /\ \A i \in 1..(b - a + 1) : SubSeq(ents, a, b)[i] = ents[a + i - 1]
      BY <1>5, SubSeqPlaces
    <3> QED BY <2>1, <3>1
  <2> QED BY <2>1, <2>2, SMTT(30)
<1>12. moved = Reinserted(upper)
  BY DEF MovedHalf, half, count
<1> HIDE DEF ents, kept, upper, moved
<1>13. Ascending(moved) /\ Members(moved) = Members(upper)
  BY <1>11, <1>12, ReinsertedAscending, ReinsertedMembers
<1>14. \A x \in Members(kept) : x.key <= mid
  <2> SUFFICES ASSUME NEW i \in 1..half PROVE kept[i].key <= mid
    BY <1>1 DEF Members
  <2>1. i \in 1..count /\ half + 1 \in 1..count /\ i <= half + 1
    BY <1>1, <1>5
  <2> QED BY <1>9, <1>10, <2>1 DEF mid
<1>15. \A x \in Members(moved) : mid <= x.key
  <2> SUFFICES ASSUME NEW i \in 1..half PROVE mid <= upper[i].key
    BY <1>11, <1>13 DEF Members
  <2>1. half + i \in 1..count /\ half + 1 \in 1..count /\ half + 1 <= half + i
    BY <1>1, <1>5
  <2> QED BY <1>9, <1>11, <2>1 DEF mid
<1>16. moved[1].key = mid
  <2>1. upper[1] \in Members(moved) /\ upper[1] = ents[half + 1]
    BY <1>1, <1>11, <1>13 DEF Members
  <2>2. PICK i \in 1..half : moved[i] = ents[half + 1]
    BY <1>1, <2>1 DEF Members
  <2>3. 1 \in 1..half /\ moved[1] \in Members(moved) /\ moved[1] \in E
    BY <1>1, ElementOfSeq DEF Members
  <2>4. mid <= moved[1].key /\ moved[1].key \in Int
    BY <1>15, <2>3 DEF Keyed
  <2>5. i = 1 \/ moved[1].key <= moved[i].key
    BY <1>1, <1>13, <2>3 DEF Ascending
  <2> QED BY <1>6, <2>2, <2>4, <2>5 DEF mid
<1>17. /\ Ascending(Insert(kept, e)) /\ Members(Insert(kept, e)) = Members(kept) \cup {e}
       /\ Ascending(Insert(moved, e)) /\ Members(Insert(moved, e)) = Members(moved) \cup {e}
  BY <1>1, <1>10, <1>13, InsertAscending, InsertMembers
<1>18. \A x \in Members(kept) \cup Members(moved) : x.key \in Int
  BY <1>1, MembersType DEF Keyed
<1>19. CASE at <= half
  <2>1. left = Insert(kept, e) /\ right = moved /\ key = mid
    BY <1>1, <1>2, <1>3, <1>4, <1>7, <1>8, <1>19
  <2>2. e.key <= mid
    <3>1. at \in 1..count /\ half + 1 \in 1..count /\ at <= half + 1
      BY <1>1, <1>5, <1>7, <1>19
    <3>2. ents[at].key <= mid /\ ents[at].key >= e.key /\ ents[at].key \in Int
      BY <1>5, <1>7, <1>9, <3>1 DEF mid
    <3> QED BY <1>6, <3>2
  <2> QED BY <1>13, <1>14, <1>15, <1>16, <1>17, <2>1, <2>2
<1>20. CASE at = half + 1
  <2>1. left = kept /\ right = Insert(moved, e) /\ key = e.key
    BY <1>1, <1>2, <1>3, <1>4, <1>8, <1>20
  <2>2. e.key <= mid
    <3>1. at <= count
      BY <1>1, <1>5, <1>20
    <3> QED BY <1>6, <1>7, <1>20, <3>1 DEF mid
  <2>3. \A x \in Members(kept) : x.key <= e.key
    <3> SUFFICES ASSUME NEW i \in 1..half PROVE kept[i].key <= e.key
      BY <1>1 DEF Members
    <3>1. i \in 1..count /\ i < at
      BY <1>1, <1>5, <1>20
    <3>2. ents[i].key < e.key /\ ents[i].key \in Int
      BY <1>5, <1>7, <3>1
    <3> QED BY <1>6, <1>10, <3>2
  <2>4. \A x \in Members(right) : e.key <= x.key
    BY <1>6, <1>15, <1>17, <1>18, <2>1, <2>2
  <2>5. Locate(moved, e.key) = 1
    <3>1. /\ Locate(moved, e.key) \in 1..(half + 1)
          /\ \A i \in 1..half : i < Locate(moved, e.key) => moved[i].key < e.key
      BY <1>1, <1>6, LocateRange
    <3>2. 1 \in 1..half
      BY <1>1
    <3> QED BY <1>6, <1>16, <2>2, <3>1, <3>2
  <2>6. right[1] = e
    BY <1>1, <2>1, <2>5, InsertPlaces
  <2> QED BY <1>10, <1>17, <2>1, <2>3, <2>4, <2>6
<1>21. CASE at > half + 1
  <2>1. left = kept /\ right = Insert(moved, e) /\ key = mid
    BY <1>1, <1>2, <1>3, <1>4, <1>7, <1>8, <1>21
  <2>2. mid < e.key
    <3>1. half + 1 \in 1..count
      BY <1>1, <1>5
    <3> QED BY <1>7, <1>21, <3>1 DEF mid
  <2>3. \A x \in Members(right) : mid <= x.key
    BY <1>6, <1>15, <1>17, <2>1, <2>2
  <2>4. Locate(moved, e.key) \in 2..(half + 1)
    <3>1. /\ Locate(moved, e.key) \in 1..(half + 1)
          /\ Locate(moved, e.key) <= half => moved[Locate(moved, e.key)].key >= e.key
      BY <1>1, <1>6, LocateRange
    <3>2. Locate(moved, e.key) # 1
      BY <1>1, <1>6, <1>16, <2>2, <3>1
    <3> QED BY <1>1, <3>1, <3>2
  <2>5. right[1] = moved[1]
    <3>1. 1 \in 1..half /\ 1 < Locate(moved, e.key)
      BY <1>1, <2>4
    <3>2. Insert(moved, e)[IF 1 < Locate(moved, e.key) THEN 1 ELSE 1 + 1] = moved[1]
      BY <1>1, <3>1, InsertPlaces
    <3> QED BY <2>1, <3>1, <3>2
  <2> QED BY <1>10, <1>14, <1>16, <1>17, <2>1, <2>3, <2>5
<1> QED BY <1>1, <1>7, <1>19, <1>20, <1>21

-----------------------------------------------------------------------------
(* A non-leaf, and where it sends a key.                                   *)

Distinct(ents) == \A i, j \in 1..Len(ents) : i < j => ents[i].key < ents[j].key

\* at is where the first key larger than the given one is, or the end.
FirstLarger(ents, key, at) ==
  /\ at \in 1..(Len(ents) + 1)
  /\ at <= Len(ents) => key < ents[at].key
  /\ \A i \in 1..Len(ents) : i < at => ents[i].key <= key
ChildBefore(n, at) == IF at = 1 THEN n.first ELSE n.ents[at - 1].pid

LEMMA ChildPtrIs ==
  ASSUME NEW K \in SUBSET Int, NEW Q, NEW n \in NonLeafNode(K, Q), NEW key \in Int
  PROVE  /\ \E at : FirstLarger(n.ents, key, at)
         /\ \A at : FirstLarger(n.ents, key, at) => ChildPtr(n, key) = ChildBefore(n, at)
<1> DEFINE ents == n.ents
           S == {i \in 1..Len(ents) : key < ents[i].key} \cup {Len(ents) + 1}
           larger == Min(S)
<1>1. ents \in Seq(Separator(K, Q)) /\ Len(ents) \in Nat
  BY DEF NonLeafNode
<1>2. \A i \in 1..Len(ents) : ents[i].key \in Int
  <2>1. \A i \in 1..Len(ents) : ents[i] \in Separator(K, Q)
    BY <1>1, ElementOfSeq
  <2> QED BY <2>1 DEF Separator
<1>3. S \in SUBSET Nat /\ S # {}
  BY <1>1
<1>4. larger \in S /\ \A y \in S : larger <= y
  BY <1>3, MinExists
<1>5. ChildPtr(n, key) = ChildBefore(n, larger)
  BY DEF ChildPtr, ChildBefore
<1> HIDE DEF larger, ents
<1>6. FirstLarger(ents, key, larger)
  BY <1>1, <1>2, <1>4 DEF FirstLarger
<1>7. ASSUME NEW at, FirstLarger(ents, key, at)
      PROVE  at = larger
  <2>1. at \in S
    BY <1>1, <1>7 DEF FirstLarger
  <2>2. larger <= at /\ at \in Int /\ larger \in Int
    BY <1>1, <1>4, <2>1
  <2>3. ~(larger < at)
    BY <1>1, <1>2, <1>6, <1>7 DEF FirstLarger
  <2> QED BY <2>2, <2>3
<1> QED BY <1>5, <1>6, <1>7 DEF ents

\* A new separator takes over the keys from its own to the next.
LEMMA NonLeafInsertRoutes ==
  ASSUME NEW K \in SUBSET Int, NEW Q, NEW n \in NonLeafNode(K, Q), NEW e \in Separator(K, Q),
         ~NonLeafFull(n), Ascending(n.ents), NEW k \in Int
  PROVE  ChildPtr(NonLeafInsert(n, e), k) =
           IF e.key <= k /\ ~\E x \in {y.key : y \in Members(n.ents)} : e.key <= x /\ x <= k
           THEN e.pid ELSE ChildPtr(n, k)
<1> DEFINE ents  == n.ents
           len   == Len(ents)
           new   == Insert(ents, e)
           at    == Locate(ents, e.key)
           m     == NonLeafInsert(n, e)
           Taken == \E x \in {y.key : y \in Members(ents)} : e.key <= x /\ x <= k
<1>1. ents \in Seq(Separator(K, Q)) /\ Keyed(Separator(K, Q)) /\ len \in Nat /\ e.key \in Int
  <2>1. Keyed(Separator(K, Q))
    BY DEF Keyed, Separator
  <2> QED BY <2>1 DEF NonLeafNode, Keyed
<1>2. \A i \in 1..len : ents[i].key \in Int
  BY <1>1, ElementOfSeq DEF Keyed
<1>3. m \in NonLeafNode(K, Q) /\ m.ents = new /\ m.first = n.first
  BY NonLeafInsertType DEF NonLeafInsert, NonLeafNode
<1>4. Len(new) = len + 1
  BY <1>1, InsertType
<1>5. /\ at \in 1..(len + 1)
      /\ at <= len => ents[at].key >= e.key
      /\ \A i \in 1..len : i < at => ents[i].key < e.key
  BY <1>1, LocateRange
<1>6. \A i \in 1..(len + 1) : new[i] = IF i < at THEN ents[i] ELSE IF i = at THEN e ELSE ents[i - 1]
  BY <1>1, InsertPlaces
<1>7. PICK lg : FirstLarger(ents, k, lg)
  BY ChildPtrIs
<1>8. ChildPtr(n, k) = ChildBefore(n, lg)
  BY <1>7, ChildPtrIs
<1>9. \A i, j \in 1..len : i <= j => ents[i].key <= ents[j].key
  <2> SUFFICES ASSUME NEW i \in 1..len, NEW j \in 1..len, i <= j
               PROVE  ents[i].key <= ents[j].key
    OBVIOUS
  <2>1. i = j \/ i < j
    BY <1>1
  <2> QED BY <1>2, <2>1 DEF Ascending
<1>10. \A l : FirstLarger(new, k, l) => ChildPtr(m, k) = ChildBefore(m, l)
  BY <1>3, ChildPtrIs
<1>11. lg \in 1..(len + 1) /\ (lg <= len => k < ents[lg].key)
       /\ \A i \in 1..len : i < lg => ents[i].key <= k
  BY <1>7 DEF FirstLarger
<1> HIDE DEF ents, len, new, at, m
<1>12. CASE k < e.key
  <2>1. lg <= at
    <3> SUFFICES ASSUME at < lg PROVE FALSE
      BY <1>5, <1>11
    <3>1. at \in 1..len /\ ents[at].key >= e.key /\ ents[at].key <= k
      BY <1>1, <1>5, <1>11
    <3> QED BY <1>1, <1>2, <1>12, <3>1
  <2>2. FirstLarger(new, k, lg)
    <3>1. lg \in 1..(Len(new) + 1)
      BY <1>1, <1>4, <1>11
    <3>2. lg \in 1..(len + 1) /\ k < new[lg].key
      <4>1. CASE lg < at
        <5>1. new[lg] = ents[lg] /\ lg <= len
          BY <1>1, <1>5, <1>6, <1>11, <4>1
        <5> QED BY <1>11, <5>1
      <4>2. CASE lg = at
        BY <1>6, <1>11, <1>12, <4>2
      <4> QED BY <1>5, <1>11, <2>1, <4>1, <4>2
    <3>3. \A i \in 1..Len(new) : i < lg => new[i].key <= k
      <4> SUFFICES ASSUME NEW i \in 1..Len(new), i < lg PROVE new[i].key <= k
        OBVIOUS
      <4>1. i \in 1..len /\ i < at /\ i \in 1..(len + 1)
        BY <1>1, <1>4, <1>5, <1>11, <2>1
      <4> QED BY <1>6, <1>11, <4>1
    <3> QED BY <3>1, <3>2, <3>3 DEF FirstLarger
  <2>3. ChildBefore(m, lg) = ChildBefore(n, lg)
    <3>1. CASE lg = 1
      BY <1>3, <3>1 DEF ChildBefore
    <3>2. CASE lg # 1
      <4>1. lg - 1 \in 1..(len + 1) /\ lg - 1 < at
        BY <1>1, <1>5, <1>11, <2>1, <3>2
      <4>2. new[lg - 1] = ents[lg - 1]
        BY <1>6, <4>1
      <4> QED BY <1>3, <3>2, <4>2 DEF ChildBefore, ents
    <3> QED BY <3>1, <3>2
  <2>4. ~(e.key <= k)
    BY <1>1, <1>12
  <2> QED BY <1>8, <1>10, <2>2, <2>3, <2>4 DEF m
<1>13. CASE e.key <= k
  <2>1. at <= lg
    <3> SUFFICES ASSUME lg < at PROVE FALSE
      BY <1>5, <1>11
    <3>1. lg \in 1..len /\ ents[lg].key < e.key /\ k < ents[lg].key
      BY <1>1, <1>5, <1>11
    <3> QED BY <1>1, <1>2, <1>13, <3>1
  <2>2. FirstLarger(new, k, lg + 1)
    <3>1. lg + 1 \in 1..(Len(new) + 1)
      BY <1>1, <1>4, <1>11
    <3>2. lg + 1 <= Len(new) => k < new[lg + 1].key
      <4> SUFFICES ASSUME lg + 1 <= Len(new) PROVE k < new[lg + 1].key
        OBVIOUS
      <4>1. lg <= len /\ lg + 1 \in 1..(len + 1) /\ ~(lg + 1 < at) /\ lg + 1 # at /\ (lg + 1) - 1 = lg
        BY <1>1, <1>4, <1>5, <1>11, <2>1
      <4>2. new[lg + 1] = ents[lg]
        BY <1>6, <4>1
      <4> QED BY <1>11, <4>1, <4>2
    <3>3. \A i \in 1..Len(new) : i < lg + 1 => new[i].key <= k
      <4> SUFFICES ASSUME NEW i \in 1..Len(new), i < lg + 1 PROVE new[i].key <= k
        OBVIOUS
      <4>0. i \in 1..(len + 1)
        BY <1>4
      <4>1. CASE i < at
        <5>1. i \in 1..len /\ i < lg /\ new[i] = ents[i]
          BY <1>1, <1>5, <1>6, <1>11, <2>1, <4>0, <4>1
        <5> QED BY <1>11, <5>1
      <4>2. CASE i = at
        BY <1>6, <1>13, <4>0, <4>2
      <4>3. CASE i > at
        <5>1. i - 1 \in 1..len /\ i - 1 < lg /\ new[i] = ents[i - 1]
          BY <1>1, <1>5, <1>6, <1>11, <4>0, <4>3
        <5> QED BY <1>11, <5>1
      <4> QED BY <1>5, <4>0, <4>1, <4>2, <4>3
    <3> QED BY <3>1, <3>2, <3>3 DEF FirstLarger
  <2>3. ChildPtr(m, k) = new[lg].pid
    <3>1. lg + 1 # 1 /\ (lg + 1) - 1 = lg
      BY <1>11
    <3>2. ChildBefore(m, lg + 1) = new[lg].pid
      BY <1>3, <3>1 DEF ChildBefore
    <3> QED BY <1>10, <2>2, <3>2
  <2>4. CASE lg = at
    <3>1. new[lg] = e
      BY <1>6, <1>11, <2>4
    <3>2. ~Taken
      <4> SUFFICES ASSUME NEW i \in 1..len, e.key <= ents[i].key, ents[i].key <= k PROVE FALSE
        BY DEF Members, len
      <4>1. i < at => ents[i].key < e.key
        BY <1>5
      <4>2. i >= at => lg \in 1..len /\ ents[lg].key <= ents[i].key /\ k < ents[lg].key
        BY <1>1, <1>9, <1>11, <2>4
      <4> QED BY <1>1, <1>2, <1>5, <4>1, <4>2
    <3> QED BY <1>13, <2>3, <3>1, <3>2 DEF m, ents
  <2>5. CASE lg > at
    <3>1. new[lg] = ents[lg - 1] /\ lg # 1 /\ at \in 1..len
      BY <1>1, <1>5, <1>6, <1>11, <2>5
    <3>2. ents[at].key >= e.key /\ ents[at].key <= k /\ ents[at] \in Members(ents)
      BY <1>1, <1>5, <1>11, <2>5, <3>1 DEF Members, len
    <3>3. Taken
      BY <1>1, <1>2, <3>1, <3>2
    <3>4. ChildPtr(n, k) = ents[lg - 1].pid
      BY <1>8, <3>1 DEF ChildBefore, ents
    <3> QED BY <1>13, <2>3, <3>1, <3>3, <3>4 DEF m, ents
  <2> QED BY <1>5, <1>11, <2>1, <2>4, <2>5
<1> QED BY <1>1, <1>12, <1>13

LEMMA InsertDistinct ==
  ASSUME NEW T, Keyed(T), NEW ents \in Seq(T), NEW e \in T, Distinct(ents),
         \A x \in Members(ents) : x.key # e.key
  PROVE  Distinct(Insert(ents, e))
<1> DEFINE at  == Locate(ents, e.key)
           n   == Len(ents)
           new == Insert(ents, e)
<1>1. n \in Nat /\ Len(new) = n + 1 /\ e.key \in Int
  BY InsertType DEF Keyed
<1>2. at \in 1..(n + 1) /\ new[at] = e
  BY InsertPlaces
<1>3. \A i \in 1..(n + 1) : new[i] = IF i < at THEN ents[i] ELSE IF i = at THEN e ELSE ents[i - 1]
  BY InsertPlaces
<1>4. \A i \in 1..n : ents[i].key \in Int
  BY ElementOfSeq DEF Keyed
<1>5. \A i \in 1..n : i < at => ents[i].key < e.key
  BY LocateRange DEF Keyed
<1>6. at <= n => ents[at].key >= e.key
  BY LocateRange DEF Keyed
<1>7. \A i \in 1..n : i >= at => ents[i].key > e.key
  <2> SUFFICES ASSUME NEW i \in 1..n, i >= at PROVE ents[i].key > e.key
    BY <1>2
  <2>0. at \in 1..n
    BY <1>1, <1>2
  <2>1. ents[at].key > e.key /\ ents[at].key \in Int /\ ents[i].key \in Int
    <3>1. ents[at].key # e.key
      BY <2>0 DEF Members
    <3> QED BY <1>1, <1>4, <1>6, <2>0, <3>1
  <2>2. at = i \/ ents[at].key < ents[i].key
    BY <1>2, <2>0 DEF Distinct
  <2> QED BY <1>1, <2>1, <2>2
<1> HIDE DEF at, new
<1>8. \A i, j \in 1..(n + 1) : i < j => new[i].key < new[j].key
  <2> SUFFICES ASSUME NEW i \in 1..(n + 1), NEW j \in 1..(n + 1), i < j
               PROVE  new[i].key < new[j].key
    OBVIOUS
  <2>1. CASE j < at
    <3>1. i \in 1..n /\ j \in 1..n /\ new[i] = ents[i] /\ new[j] = ents[j]
      BY <1>1, <1>2, <1>3, <2>1
    <3> QED BY <3>1 DEF Distinct
  <2>2. CASE j = at
    <3>1. i \in 1..n /\ i < at /\ new[i] = ents[i] /\ new[j] = e
      BY <1>1, <1>2, <1>3, <2>2
    <3> QED BY <1>1, <1>4, <1>5, <3>1
  <2>3. CASE j > at
    <3>1. j - 1 \in 1..n /\ j - 1 >= at /\ new[j] = ents[j - 1]
      BY <1>1, <1>2, <1>3, <2>3
    <3>2. CASE i < at
      <4>1. i \in 1..n /\ i < j - 1 /\ new[i] = ents[i]
        BY <1>1, <1>2, <1>3, <2>3, <3>2
      <4> QED BY <3>1, <4>1 DEF Distinct
    <3>3. CASE i = at
      <4>1. new[i] = e
        BY <1>2, <3>3
      <4> QED BY <1>1, <1>4, <1>7, <3>1, <4>1
    <3>4. CASE i > at
      <4>1. i - 1 \in 1..n /\ i - 1 < j - 1 /\ new[i] = ents[i - 1]
        BY <1>1, <1>2, <1>3, <3>4
      <4> QED BY <3>1, <4>1 DEF Distinct
    <3> QED BY <1>2, <3>2, <3>3, <3>4
  <2> QED BY <1>2, <2>1, <2>2, <2>3
<1> QED BY <1>1, <1>8 DEF Distinct, new

\* Entries of distinct keys are reinserted where they were.
LEMMA DistinctReinserted ==
  ASSUME NEW T, Keyed(T), NEW ents \in Seq(T), Distinct(ents)
  PROVE  Reinserted(ents) = ents
<1> DEFINE n == Len(ents)
<1>1. n \in Nat /\ \A i \in 1..n : ents[i].key \in Int
  BY ElementOfSeq DEF Keyed
<1>2. \A j \in 1..n : Rank(ents, j) = j
  <2> SUFFICES ASSUME NEW j \in 1..n PROVE Rank(ents, j) = j
    OBVIOUS
  <2>1. \A i \in 1..n : Before(ents, i, j) <=> i < j
    <3> SUFFICES ASSUME NEW i \in 1..n PROVE Before(ents, i, j) <=> i < j
      OBVIOUS
    <3>1. i < j \/ i = j \/ j < i
      BY <1>1
    <3> QED BY <1>1, <3>1 DEF Before, Distinct
  <2>2. {i \in 1..n : Before(ents, i, j)} = 1..(j - 1)
    BY <1>1, <2>1
  <2>3. Cardinality(1..(j - 1)) = j - 1
    <3>1. 1 \in Int /\ j - 1 \in Int /\ 1 <= j - 1 + 1
      BY <1>1
    <3>2. Cardinality(1..(j - 1)) = IF 1 > j - 1 THEN 0 ELSE (j - 1) - 1 + 1
      BY <3>1, FS_Interval
    <3> QED BY <1>1, <3>2
  <2>4. Rank(ents, j) = Cardinality(1..(j - 1)) + 1
    BY <2>2, Zenon DEF Rank
  <2> QED BY <1>1, <2>3, <2>4
<1>3. \A r \in 1..n : (CHOOSE j \in 1..n : Rank(ents, j) = r) = r
  BY <1>2
<1>4. Reinserted(ents) = [r \in 1..n |-> ents[CHOOSE j \in 1..n : Rank(ents, j) = r]]
  BY DEF Reinserted
<1>5. ents = [r \in 1..n |-> ents[r]]
  BY SeqDef, LenProperties
<1> QED BY <1>3, <1>4, <1>5

LEMMA NonLeafSplitParts ==
  ASSUME NEW K \in SUBSET Int, NEW Q, NEW n \in NonLeafNode(K, Q), Len(n.ents) = NonLeafMax,
         NEW e, Distinct(n.ents), NEW s, s = NonLeafSplit(n, e)
  PROVE  /\ Half(n) \in Nat /\ Half(n) >= 2 /\ Len(n.ents) = 2 * Half(n)
         /\ s.left.first = n.first /\ s.right.first = n.ents[Half(n) + 1].pid
         /\ s.key = n.ents[Half(n) + 1].key
         /\ Len(s.left.ents) = Half(n) /\ Len(s.right.ents) = Half(n) - 1
         /\ \A i \in 1..Half(n) : s.left.ents[i] = n.ents[i]
         /\ \A i \in 1..(Half(n) - 1) : s.right.ents[i] = n.ents[Half(n) + 1 + i]
<1> DEFINE ents  == n.ents
           count == Len(n.ents)
           half  == Half(n)
           lower == SubSeq(ents, 1, half)
           upper == SubSeq(ents, half + 2, count)
           E     == Separator(K, Q)
<1>1. ents \in Seq(E) /\ count \in Nat /\ Len(ents) = count /\ Keyed(E)
  <2>1. Keyed(E)
    BY DEF Keyed, Separator
  <2>2. ents \in Seq(E)
    BY DEF NonLeafNode
  <2> QED BY <2>1, <2>2
<1>2. half \in Nat /\ half >= 2 /\ count = 2 * half /\ SplitPos(count) = half
  BY <1>1, NonLeafMaxAssumption DEF Half, SplitPos
<1>3. NonLeafFull(n)
  BY <1>1, NonLeafMaxAssumption DEF NonLeafFull
<1>4. s = [left  |-> [n EXCEPT !.ents = lower],
           right |-> [kind |-> "nonleaf", first |-> ents[half + 1].pid, ents |-> Reinserted(upper)],
           key   |-> ents[half + 1].key]
  BY <1>2, <1>3 DEF NonLeafSplit, NonLeafInsert, Half
<1>5. \A a \in Nat \ {0}, b \in 0..Len(ents) : a <= b + 1 =>
        /\ SubSeq(ents, a, b) \in Seq(E)
        /\ Len(SubSeq(ents, a, b)) = b - a + 1
        /\ \A i \in 1..(b - a + 1) : SubSeq(ents, a, b)[i] = ents[a + i - 1]
  BY <1>1, SubSeqPlaces
<1> HIDE DEF half, count, ents, E
<1>6. Len(lower) = half /\ \A i \in 1..half : lower[i] = ents[i]
  <2>1. 1 \in Nat \ {0} /\ half \in 0..Len(ents) /\ 1 <= half + 1 /\ half - 1 + 1 = half
        /\ \A i \in 1..half : 1 + i - 1 = i
    BY <1>1, <1>2
  <2> QED BY <1>5, <2>1
<1>7. upper \in Seq(E) /\ Len(upper) = half - 1 /\ \A i \in 1..(half - 1) : upper[i] = ents[half + 1 + i]
  <2>1. half + 2 \in Nat \ {0} /\ count \in 0..Len(ents) /\ half + 2 <= count + 1
        /\ count - (half + 2) + 1 = half - 1
        /\ \A i \in 1..(half - 1) : (half + 2) + i - 1 = half + 1 + i
    BY <1>1, <1>2
  <2>2. /\ upper \in Seq(E) /\ Len(upper) = count - (half + 2) + 1
        /\ \A i \in 1..(count - (half + 2) + 1) : upper[i] = ents[(half + 2) + i - 1]
    BY <1>5, <2>1
  <2> QED BY <2>1, <2>2
<1> HIDE DEF upper, lower
<1>8. Distinct(upper)
  <2> SUFFICES ASSUME NEW i \in 1..(half - 1), NEW j \in 1..(half - 1), i < j
               PROVE  upper[i].key < upper[j].key
    BY <1>7 DEF Distinct
  <2>1. half + 1 + i \in 1..count /\ half + 1 + j \in 1..count /\ half + 1 + i < half + 1 + j
    BY <1>1, <1>2
  <2> QED BY <1>1, <1>7, <2>1 DEF Distinct, ents
<1>9. Reinserted(upper) = upper
  BY <1>1, <1>7, <1>8, DistinctReinserted
<1>10. s.left.ents = lower /\ s.left.first = n.first /\ s.right.first = ents[half + 1].pid
       /\ s.right.ents = upper /\ s.key = ents[half + 1].key
  BY <1>4, <1>9 DEF NonLeafNode
<1> QED BY <1>1, <1>2, <1>6, <1>7, <1>10 DEF ents, half, count

\* A split sends every key to the child it had.
LEMMA NonLeafSplitRoutes ==
  ASSUME NEW K \in SUBSET Int, NEW Q, NEW n \in NonLeafNode(K, Q), Len(n.ents) = NonLeafMax,
         NEW e \in Separator(K, Q), Distinct(n.ents), NEW s, s = NonLeafSplit(n, e), NEW k \in Int
  PROVE  ChildPtr(n, k) = IF k < s.key THEN ChildPtr(s.left, k) ELSE ChildPtr(s.right, k)
<1> DEFINE ents == n.ents
           half == Half(n)
           count == Len(ents)
           mid  == half + 1
<1>1. ents \in Seq(Separator(K, Q)) /\ \A i \in 1..count : ents[i].key \in Int
  <2>1. ents \in Seq(Separator(K, Q))
    BY DEF NonLeafNode
  <2>2. \A i \in 1..count : ents[i] \in Separator(K, Q)
    BY <2>1, ElementOfSeq
  <2> QED BY <2>1, <2>2 DEF Separator
<1>2. half \in Nat /\ half >= 2 /\ count = 2 * half
  BY NonLeafSplitParts
<1>3. s.left.first = n.first /\ s.right.first = ents[mid].pid /\ s.key = ents[mid].key
  BY NonLeafSplitParts
<1>4. Len(s.left.ents) = half /\ Len(s.right.ents) = half - 1
  BY NonLeafSplitParts
<1>5. \A i \in 1..half : s.left.ents[i] = ents[i]
  BY NonLeafSplitParts
<1>6. \A i \in 1..(half - 1) : s.right.ents[i] = ents[mid + i]
  BY NonLeafSplitParts
<1>7. s.left \in NonLeafNode(K, Q) /\ s.right \in NonLeafNode(K, Q)
  <2>1. NonLeafFull(n)
    BY NonLeafMaxAssumption DEF NonLeafFull
  <2> QED BY <2>1, NonLeafSplitType
<1>8. PICK lg : FirstLarger(ents, k, lg)
  BY ChildPtrIs
<1>9. ChildPtr(n, k) = ChildBefore(n, lg)
  BY <1>8, ChildPtrIs
<1>10. lg \in 1..(count + 1) /\ (lg <= count => k < ents[lg].key)
       /\ \A i \in 1..count : i < lg => ents[i].key <= k
  BY <1>8 DEF FirstLarger
<1>11. \A i, j \in 1..count : i < j => ents[i].key < ents[j].key
  BY DEF Distinct
<1> HIDE DEF half, ents, count
<1>12. CASE k < s.key
  <2>1. lg <= mid
    <3> SUFFICES ASSUME mid < lg PROVE FALSE
      BY <1>2, <1>10
    <3>1. mid \in 1..count /\ ents[mid].key <= k
      BY <1>2, <1>10
    <3> QED BY <1>1, <1>3, <1>12, <3>1
  <2>2. FirstLarger(s.left.ents, k, lg)
    <3>1. lg \in 1..(half + 1)
      BY <1>2, <1>10, <2>1
    <3>2. lg <= half => k < s.left.ents[lg].key
      BY <1>2, <1>5, <1>10, <3>1
    <3>3. \A i \in 1..half : i < lg => s.left.ents[i].key <= k
      BY <1>2, <1>5, <1>10
    <3> QED BY <1>4, <3>1, <3>2, <3>3 DEF FirstLarger
  <2>3. ChildPtr(s.left, k) = ChildBefore(s.left, lg)
    BY <1>7, <2>2, ChildPtrIs
  <2>4. lg # 1 => s.left.ents[lg - 1] = ents[lg - 1]
    <3>1. lg # 1 => lg - 1 \in 1..half
      BY <1>2, <1>10, <2>1
    <3> QED BY <1>5, <3>1
  <2> QED BY <1>3, <1>9, <1>12, <2>3, <2>4 DEF ChildBefore, ents
<1>13. CASE ~(k < s.key)
  <2> DEFINE r == lg - mid
  <2>0. ents[mid].key <= k
    BY <1>1, <1>2, <1>3, <1>13
  <2>1. mid < lg
    <3> SUFFICES ASSUME lg <= mid PROVE FALSE
      BY <1>2, <1>10
    <3>1. lg \in 1..count /\ mid \in 1..count /\ k < ents[lg].key
      BY <1>2, <1>10
    <3>2. lg = mid \/ ents[lg].key < ents[mid].key
      BY <1>2, <1>10, <1>11, <3>1
    <3> QED BY <1>1, <2>0, <3>1, <3>2
  <2>2. FirstLarger(s.right.ents, k, r)
    <3>1. r \in 1..((half - 1) + 1)
      BY <1>2, <1>10, <2>1
    <3>2. r <= half - 1 => k < s.right.ents[r].key
      <4>1. r <= half - 1 => r \in 1..(half - 1) /\ mid + r = lg /\ lg <= count
        BY <1>2, <1>10, <2>1
      <4> QED BY <1>6, <1>10, <4>1
    <3>3. \A i \in 1..(half - 1) : i < r => s.right.ents[i].key <= k
      <4> SUFFICES ASSUME NEW i \in 1..(half - 1), i < r PROVE s.right.ents[i].key <= k
        OBVIOUS
      <4>1. mid + i \in 1..count /\ mid + i < lg
        BY <1>2, <1>10
      <4> QED BY <1>6, <1>10, <4>1
    <3> QED BY <1>4, <3>1, <3>2, <3>3 DEF FirstLarger
  <2>3. ChildPtr(s.right, k) = ChildBefore(s.right, r)
    BY <1>7, <2>2, ChildPtrIs
  <2>4. CASE r = 1
    <3>1. lg - 1 = mid /\ lg # 1
      BY <1>2, <1>10, <2>4
    <3>2. ChildBefore(n, lg) = ents[mid].pid
      BY <3>1 DEF ChildBefore, ents
    <3> QED BY <1>3, <1>9, <1>13, <2>3, <2>4, <3>2 DEF ChildBefore
  <2>5. CASE r # 1
    <3>1. r - 1 \in 1..(half - 1) /\ mid + (r - 1) = lg - 1 /\ lg # 1
      BY <1>2, <1>10, <2>1, <2>5
    <3>2. s.right.ents[r - 1] = ents[lg - 1]
      BY <1>6, <3>1
    <3>3. ChildBefore(n, lg) = ents[lg - 1].pid
      BY <3>1 DEF ChildBefore, ents
    <3> QED BY <1>9, <1>13, <2>3, <2>5, <3>2, <3>3 DEF ChildBefore
  <2> QED BY <2>4, <2>5
<1> QED BY <1>12, <1>13

-----------------------------------------------------------------------------
(* No entry twice: a split takes each entry to one of its halves.         *)

\* No entry at two places of a leaf, none in two leaves.
Single(ents) == \A i, j \in 1..Len(ents) : ents[i] = ents[j] => i = j
Apart(ents, others) == \A x \in Members(ents) : x \notin Members(others)

-----------------------------------------------------------------------------
(* Insert and split.                                                       *)

LEMMA InsertSingle ==
  ASSUME NEW T, Keyed(T), NEW ents \in Seq(T), NEW e \in T, Single(ents), e \notin Members(ents)
  PROVE  Single(Insert(ents, e))
<1> DEFINE at  == Locate(ents, e.key)
           new == Insert(ents, e)
           n   == Len(ents)
<1>1. n \in Nat /\ Len(new) = n + 1
  BY InsertType
<1>2. /\ at \in 1..(n + 1)
      /\ \A i \in 1..(n + 1) :
           new[i] = IF i < at THEN ents[i] ELSE IF i = at THEN e ELSE ents[i - 1]
  BY InsertPlaces
<1>3. \A i \in 1..n : ents[i] # e
  BY DEF Members
<1> HIDE DEF at, new
<1>4. \A i, j \in 1..n : ents[i] = ents[j] => i = j
  BY DEF Single
<1>5. ASSUME NEW i \in 1..(n + 1), NEW j \in 1..(n + 1), new[i] = new[j] PROVE i = j
  <2> DEFINE old(k) == IF k < at THEN k ELSE k - 1
  <2>1. \A k \in 1..(n + 1) : k # at => old(k) \in 1..n /\ new[k] = ents[old(k)]
    BY <1>1, <1>2
  <2>2. new[at] = e
    BY <1>1, <1>2
  <2>3. (i = at) <=> (j = at)
    BY <1>3, <1>5, <2>1, <2>2
  <2>4. CASE i # at /\ j # at
    <3>1. old(i) = old(j)
      BY <1>4, <1>5, <2>1, <2>4
    <3> QED BY <1>1, <1>2, <2>4, <3>1
  <2> QED BY <2>3, <2>4
<1> QED BY <1>1, <1>5 DEF Single, new

LEMMA SubSeqSingle ==
  ASSUME NEW T, NEW s \in Seq(T), NEW a \in Nat \ {0}, NEW b \in 0..Len(s), a <= b + 1, Single(s)
  PROVE  Single(SubSeq(s, a, b))
<1>1. /\ Len(SubSeq(s, a, b)) = b - a + 1
      /\ \A i \in 1..(b - a + 1) : SubSeq(s, a, b)[i] = s[a + i - 1]
  BY SubSeqPlaces
<1>2. \A i \in 1..(b - a + 1) : a + i - 1 \in 1..Len(s)
  OBVIOUS
<1> QED BY <1>1, <1>2, SMTT(30) DEF Single

LEMMA ReinsertedSingle ==
  ASSUME NEW T, Keyed(T), NEW ents \in Seq(T), Single(ents)
  PROVE  Single(Reinserted(ents))
<1>1. /\ Len(Reinserted(ents)) = Len(ents)
      /\ \A r \in 1..Len(ents) :
           \E j \in 1..Len(ents) : Rank(ents, j) = r /\ Reinserted(ents)[r] = ents[j]
  BY ReinsertedPlaces
<1>2. ASSUME NEW r \in 1..Len(ents), NEW q \in 1..Len(ents), Reinserted(ents)[r] = Reinserted(ents)[q]
      PROVE  r = q
  <2>1. PICK i \in 1..Len(ents) : Rank(ents, i) = r /\ Reinserted(ents)[r] = ents[i]
    BY <1>1
  <2>2. PICK j \in 1..Len(ents) : Rank(ents, j) = q /\ Reinserted(ents)[q] = ents[j]
    BY <1>1
  <2>3. i = j
    BY <1>2, <2>1, <2>2 DEF Single
  <2> QED BY <2>1, <2>2, <2>3
<1> QED BY <1>1, <1>2 DEF Single

\* Two halves without an entry in common, of which neither is empty.
Parted(ents, e, left, right) ==
  /\ Single(left) /\ Single(right) /\ Apart(left, right)
  /\ Len(left) > 0 /\ Len(right) > 0
  /\ \A x \in Members(left) : x \in Members(ents) \/ x = e
  /\ \A x \in Members(right) : x \in Members(ents) \/ x = e

LEMMA SplitParts ==
  ASSUME NEW E, Keyed(E), NEW N, NEW n \in LeafNode(E, N), Len(n.ents) = LeafMax, NEW e \in E,
         Single(n.ents), e \notin Members(n.ents),
         NEW left, left = LeafSplit(n, e).left.ents,
         NEW right, right = LeafSplit(n, e).right.ents
  PROVE  Parted(n.ents, e, left, right)
<1> DEFINE kept  == KeptHalf(n)
           moved == MovedHalf(n)
           upper == SubSeq(n.ents, Half(n) + 1, Len(n.ents))
<1>1. /\ Half(n) \in Nat \ {0} /\ Len(n.ents) = 2 * Half(n) /\ n.ents \in Seq(E)
      /\ kept \in Seq(E) /\ moved \in Seq(E) /\ Len(kept) = Half(n) /\ Len(moved) = Half(n)
      /\ Members(kept) \cup Members(moved) = Members(n.ents)
      /\ left = IF GoesLeft(n, e) THEN Insert(kept, e) ELSE kept
      /\ right = IF GoesLeft(n, e) THEN moved ELSE Insert(moved, e)
  BY LeafSplitParts DEF LeafNode
<1>2. Half(n) \in 0..Len(n.ents) /\ Half(n) + 1 \in Nat \ {0} /\ Len(n.ents) \in 0..Len(n.ents)
      /\ Half(n) + 1 <= Len(n.ents) + 1 /\ 1 \in Nat \ {0} /\ 1 <= Half(n) + 1
  BY <1>1
<1>3. Single(kept)
  BY <1>1, <1>2, SubSeqSingle DEF KeptHalf
<1>4. upper \in Seq(E) /\ Single(upper)
  <2>1. upper \in Seq(E)
    BY <1>1, <1>2, SubSeqPlaces
  <2> QED BY <1>1, <1>2, <2>1, SubSeqSingle
<1>5. Single(moved) /\ Members(moved) = Members(upper)
  <2> HIDE DEF upper
  <2>1. Single(Reinserted(upper)) /\ Members(Reinserted(upper)) = Members(upper)
    BY <1>4, ReinsertedSingle, ReinsertedMembers
  <2> QED BY <2>1 DEF MovedHalf, upper
<1>6. Apart(kept, moved)
  <2>1. /\ \A i \in 1..Half(n) : kept[i] = n.ents[i]
        /\ Len(upper) = Half(n)
        /\ \A i \in 1..Half(n) : upper[i] = n.ents[Half(n) + i]
    <3>1. \A i \in 1..Half(n) : kept[i] = n.ents[1 + i - 1]
      BY <1>1, <1>2, SubSeqPlaces DEF KeptHalf
    <3>2. \A a \in Nat \ {0}, b \in 0..Len(n.ents) : a <= b + 1 =>
            /\ Len(SubSeq(n.ents, a, b)) = b - a + 1
            /\ \A i \in 1..(b - a + 1) : SubSeq(n.ents, a, b)[i] = n.ents[a + i - 1]
      BY <1>1, SubSeqPlaces
    <3>3. PICK a \in Nat \ {0}, b \in 0..Len(n.ents) :
            a = Half(n) + 1 /\ b = Len(n.ents) /\ a <= b + 1 /\ b - a + 1 = Half(n)
      BY <1>1, <1>2
    <3>4. Len(upper) = Half(n) /\ \A i \in 1..Half(n) : upper[i] = n.ents[a + i - 1]
      BY <3>2, <3>3
    <3>5. \A i \in 1..Half(n) : a + i - 1 = Half(n) + i
      BY <1>1, <3>3, SMTT(30)
    <3> HIDE DEF upper, kept
    <3> QED BY <1>1, <3>1, <3>4, <3>5
  <2> HIDE DEF kept, upper
  <2>2. ASSUME NEW i \in 1..Half(n), NEW j \in 1..Half(n), kept[i] = upper[j] PROVE FALSE
    <3>1. i \in 1..Len(n.ents) /\ Half(n) + j \in 1..Len(n.ents) /\ i # Half(n) + j
      BY <1>1
    <3> QED BY <2>1, <2>2, <3>1 DEF Single
  <2>3. ASSUME NEW x \in Members(kept), x \in Members(moved) PROVE FALSE
    <3>1. x \in Members(upper)
      BY <1>5, <2>3
    <3>2. PICK i \in 1..Half(n) : kept[i] = x
      BY <1>1 DEF Members
    <3>3. PICK j \in 1..Half(n) : upper[j] = x
      BY <2>1, <3>1 DEF Members
    <3> QED BY <2>2, <3>2, <3>3
  <2> QED BY <2>3 DEF Apart
<1>7. e \notin Members(kept) /\ e \notin Members(moved)
  BY <1>1
<1>8. /\ Single(Insert(kept, e)) /\ Members(Insert(kept, e)) = Members(kept) \cup {e}
      /\ Len(Insert(kept, e)) = Half(n) + 1
  <2> HIDE DEF kept
  <2>1. Single(Insert(kept, e))
    BY <1>1, <1>3, <1>7, InsertSingle
  <2>2. Members(Insert(kept, e)) = Members(kept) \cup {e}
    BY <1>1, InsertMembers
  <2>3. Len(Insert(kept, e)) = Len(kept) + 1
    BY <1>1, InsertType
  <2> QED BY <1>1, <2>1, <2>2, <2>3
<1>9. /\ Single(Insert(moved, e)) /\ Members(Insert(moved, e)) = Members(moved) \cup {e}
      /\ Len(Insert(moved, e)) = Half(n) + 1
  <2> HIDE DEF moved
  <2>1. Single(Insert(moved, e))
    BY <1>1, <1>5, <1>7, InsertSingle
  <2>2. Members(Insert(moved, e)) = Members(moved) \cup {e}
    BY <1>1, InsertMembers
  <2>3. Len(Insert(moved, e)) = Len(moved) + 1
    BY <1>1, InsertType
  <2> QED BY <1>1, <2>1, <2>2, <2>3
<1> HIDE DEF kept, moved, upper
<1> QED BY <1>1, <1>3, <1>5, <1>6, <1>7, <1>8, <1>9 DEF Parted, Apart

=============================================================================
