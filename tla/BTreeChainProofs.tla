-------------------------- MODULE BTreeChainProofs --------------------------
(***************************************************************************)
(* The leaves of BTreeIndex stay on one chain, and what was saved stays on *)
(* it, for every set of keys, every capacity and wherever a write fails or *)
(* a writer dies.                                                          *)
(*                                                                         *)
(* No entry stands twice on the chain, if none is inserted that stands     *)
(* there already: the sibling joins the chain by the write that takes what *)
(* moved out of the split leaf.  So a cursor, which goes along the chain,  *)
(* meets each entry once.                                                  *)
(***************************************************************************)
EXTENDS BTreeIndexProofs

Pages(s) == 1..(s - 1)

\* rank counts the leaves that come after a leaf.
Strung(rank, d, s) ==
  /\ DOMAIN rank \subseteq Pages(s)
  /\ \A p \in DOMAIN rank :
       /\ d[p] \in LeafNode(Entry, DOMAIN rank \cup {0}) /\ Len(d[p].ents) <= LeafMax
       /\ rank[p] \in Nat /\ rank[p] < Cardinality(DOMAIN rank)
       /\ d[p].next = 0 => rank[p] = 0
       /\ d[p].next # 0 => rank[d[p].next] = rank[p] - 1
  /\ \A p, q \in DOMAIN rank : rank[p] = rank[q] => p = q

\* A non-leaf, on disk at page p or about to be.
NodeIn(live, spine, p, node) ==
  node \in NonLeafNode(Key, live) /\ (p \in spine => node.first \in spine)

Woven(live, spine, rank, d, s) ==
  /\ spine \subseteq live /\ live \subseteq Pages(s)
  /\ \A p \in live :
       /\ d[p].kind = "leaf" =>
            p \in DOMAIN rank /\ (p \in spine => \A q \in DOMAIN rank : rank[q] <= rank[p])
       /\ d[p].kind # "leaf" => NodeIn(live, spine, p, d[p])

OnLeaves(rank, d) == UNION {Members(d[p].ents) : p \in DOMAIN rank}

\* The sibling of a split leaf is written, the leaf is not.
Unlinked(rank, d, s, c) ==
  /\ c.over.pid \in Pages(s) \ DOMAIN rank
  /\ LET old == d[c.at]  new == d[c.over.pid] IN
     /\ new \in LeafNode(Entry, DOMAIN rank \cup {0}) /\ new.next = old.next
     /\ c.page \in LeafNode(Entry, {c.over.pid})
     /\ Len(new.ents) <= LeafMax /\ Len(c.page.ents) <= LeafMax
     /\ Members(old.ents) \cup {c.entry} \subseteq Members(c.page.ents) \cup Members(new.ents)

HeldIn(live, spine, held) ==
  \A i \in 1..Len(held) : held[i].pid \in live /\ NodeIn(live, spine, held[i].pid, held[i].node)

Going(live, spine, rank, d, s, c) ==
  /\ c.pc \in {"down", "left", "up"} => HeldIn(live, spine, c.held)
  /\ c.pc \in {"down", "left"} => c.at \in live
  /\ c.pc = "left" /\ c.page.kind = "leaf" => Unlinked(rank, d, s, c)
  /\ c.pc = "left" /\ c.page.kind # "leaf" =>
       c.over.pid \in live /\ NodeIn(live, spine, c.at, c.page) /\ c.entry \in OnLeaves(rank, d)
  /\ c.pc = "up" => c.over.pid \in live /\ c.entry \in OnLeaves(rank, d)

Rooted(spine) ==
  /\ size > 0 /\ disk[0].height > 0 => disk[0].root \in spine
  /\ obj.height > 0 => obj.root \in spine
  /\ saved # {} => disk[0].height > 0
  /\ obj.mode # "none" => /\ acked # {} => obj.height > 0
                          /\ disk[0].height > 0 => obj.height > 0

Chained(live, spine, rank) ==
  /\ Strung(rank, disk, size)
  /\ Woven(live, spine, rank, disk, size)
  /\ Going(live, spine, rank, disk, size, op)
  /\ Rooted(spine)
  /\ acked \cup saved \subseteq OnLeaves(rank, disk)

CInv == IInv /\ \E live, spine, rank : Chained(live, spine, rank)

-----------------------------------------------------------------------------
(* What the levels say of a page without naming one.                       *)

LeafPage    == LeafNode(Entry, Nat)
NonLeafPage == NonLeafNode(Key, Nat)
HeldPage    == [pid : Nat \ {0}, node : NonLeafPage]

Typed ==
  /\ size \in Nat /\ DOMAIN disk = 0..(size - 1)
  /\ \A p \in Pages(size) : disk[p] \in LeafPage \cup NonLeafPage
  /\ obj \in ObjType
  /\ size > 0 => disk[0] \in HeaderType
  /\ obj.mode # "none" => size > 0
  /\ op.pc \in Inserting \cup {"idle", "seek"}
  /\ op.pc \in Inserting => op.entry \in Entry /\ obj.mode = "w"
  /\ op.pc = "first" => obj.height = 0 /\ obj.root = size
  /\ op.pc \in {"down", "left", "up"} =>
       /\ obj.height > 0 /\ op.held \in Seq(HeldPage)
       /\ \A i \in 1..Len(op.held) : op.held[i].pid \in Pages(size)
                                     /\ disk[op.held[i].pid].kind = "nonleaf"
  /\ op.pc = "down" =>
       /\ op \in [pc : {"down"}, entry : Entry, at : Pages(size), held : Seq(HeldPage)]
       /\ disk[op.at].kind = IF AtLeaf THEN "leaf" ELSE "nonleaf"
  /\ op.pc = "left" =>
       /\ op.at \in Pages(size) /\ op.page \in LeafPage \cup NonLeafPage
       /\ op.page.kind = disk[op.at].kind
  /\ op.pc \in {"left", "up"} => op.over \in Separator(Key, Pages(size))

LEMMA LevelsType ==
  ASSUME NEW s \in Nat, NEW lvl \in Levels(s), NEW p \in 1..(s - 1),
         NEW page \in NodeAt(lvl, lvl[p])
  PROVE  /\ page \in LeafPage \cup NonLeafPage
         /\ page.kind = IF lvl[p] = 1 THEN "leaf" ELSE "nonleaf"
<1>1. \A k : At(lvl, k) \subseteq Nat
  BY DEF At, Levels
<1>2. CASE lvl[p] = 1
  <2>1. page \in LeafNode(Entry, At(lvl, 1) \cup {0})
    BY <1>2 DEF NodeAt
  <2> QED BY <1>1, <1>2, <2>1 DEF LeafNode, LeafPage
<1>3. CASE lvl[p] # 1
  <2>1. page \in NonLeafNode(Key, At(lvl, lvl[p] - 1))
    BY <1>3 DEF NodeAt
  <2>2. page \in NonLeafPage
    BY <1>1, <2>1, NonLeafMono DEF NonLeafPage
  <2> QED BY <1>3, <2>2 DEF NonLeafNode, NonLeafPage
<1> QED BY <1>2, <1>3

LEMMA IsTyped == IInv => Typed
<1> SUFFICES ASSUME IInv PROVE Typed
  OBVIOUS
<1>1. PICK lvl \in Levels(size) : Levelled(lvl)
  BY DEF IInv
<1>2. Books
  BY DEF IInv
<1>3. size \in Nat /\ DOMAIN disk = 0..(size - 1) /\ DOMAIN lvl = Pages(size)
      /\ (size > 0 => disk[0] \in HeaderType)
  BY <1>1 DEF Levelled, Store, Levels, Pages
<1>4. \A p \in Pages(size) : /\ disk[p] \in LeafPage \cup NonLeafPage
                             /\ disk[p].kind = IF lvl[p] = 1 THEN "leaf" ELSE "nonleaf"
  BY <1>1, <1>3, LevelsType DEF Levelled, Store, Pages
<1>5. obj \in ObjType /\ (obj.mode # "none" => size > 0)
  BY <1>1 DEF Levelled, Object
<1>6. op.pc \in Inserting \cup {"idle", "seek"} /\ (op.pc \in Inserting => op.entry \in Entry /\ obj.mode = "w")
      /\ (op.pc = "first" => obj.height = 0 /\ obj.root = size)
  BY <1>1, <1>2 DEF Levelled, Operation, Books
<1>7. \A k : At(lvl, k) \subseteq Pages(size) /\ \A p \in At(lvl, k) : lvl[p] = k
  BY <1>3 DEF At
<1>8. HeldNode(lvl) \subseteq HeldPage
  <2>1. DOMAIN lvl \subseteq Nat \ {0}
    BY <1>3 DEF Pages
  <2> QED BY <2>1, NonLeafMono DEF HeldNode, HeldPage, NonLeafPage
<1>9. ASSUME op.pc \in {"down", "left", "up"}
      PROVE  /\ obj.height \in Nat /\ obj.height > 0 /\ op.held \in Seq(HeldPage)
             /\ Len(op.held) \in Nat /\ Len(op.held) < obj.height
             /\ \A i \in 1..Len(op.held) : op.held[i].pid \in Pages(size)
                                           /\ disk[op.held[i].pid].kind = "nonleaf"
  <2>1. Held(lvl, op.held, obj.height)
    BY <1>1, <1>9 DEF Levelled, Operation
  <2>2. op.held \in Seq(HeldNode(lvl)) /\ Len(op.held) < obj.height /\ obj.height \in Nat
        /\ Len(op.held) \in Nat
    BY <1>5, <2>1 DEF Held, ObjType
  <2>3. op.held \in Seq(HeldPage)
    BY <1>8, <2>2, SeqMonotonic
  <2>4. \A i \in 1..Len(op.held) : op.held[i].pid \in Pages(size)
                                   /\ disk[op.held[i].pid].kind = "nonleaf"
    <3> SUFFICES ASSUME NEW i \in 1..Len(op.held)
                 PROVE  op.held[i].pid \in Pages(size) /\ disk[op.held[i].pid].kind = "nonleaf"
      OBVIOUS
    <3>1. op.held[i].pid \in At(lvl, obj.height - i + 1)
      BY <2>1 DEF Held
    <3>2. obj.height - i + 1 # 1
      BY <2>2
    <3> QED BY <1>4, <1>7, <3>1, <3>2
  <2> QED BY <2>2, <2>3, <2>4
<1>10. ASSUME op.pc = "down"
       PROVE  /\ op \in [pc : {"down"}, entry : Entry, at : Pages(size), held : Seq(HeldPage)]
              /\ disk[op.at].kind = IF AtLeaf THEN "leaf" ELSE "nonleaf"
  <2>1. op \in [pc : {"down"}, entry : Entry, at : DOMAIN lvl, held : Seq(HeldNode(lvl))]
        /\ op.at \in At(lvl, obj.height - Len(op.held))
    BY <1>1, <1>10 DEF Levelled, Operation
  <2>2. (obj.height - Len(op.held) = 1) <=> AtLeaf
    BY <1>9, <1>10 DEF AtLeaf
  <2>3. op.held \in Seq(HeldPage)
    BY <1>9, <1>10
  <2>4. op \in [pc : {"down"}, entry : Entry, at : Pages(size), held : Seq(HeldPage)]
    BY <1>3, <2>1, <2>3
  <2> QED BY <1>4, <1>7, <2>1, <2>2, <2>4
<1>11. ASSUME op.pc = "left"
       PROVE  /\ op.at \in Pages(size) /\ op.page \in LeafPage \cup NonLeafPage
              /\ op.page.kind = disk[op.at].kind
  <2>1. op.at \in At(lvl, obj.height - Len(op.held))
        /\ op.page \in NodeAt(lvl, obj.height - Len(op.held))
    BY <1>1, <1>11 DEF Levelled, Operation
  <2>2. op.at \in Pages(size) /\ lvl[op.at] = obj.height - Len(op.held)
    BY <1>7, <2>1
  <2>3. /\ op.page \in LeafPage \cup NonLeafPage
        /\ op.page.kind = IF lvl[op.at] = 1 THEN "leaf" ELSE "nonleaf"
    BY <1>3, <2>1, <2>2, LevelsType DEF Pages
  <2> QED BY <1>4, <2>2, <2>3
<1>12. op.pc \in {"left", "up"} => op.over \in Separator(Key, Pages(size))
  BY <1>1, <1>7 DEF Levelled, Operation, Separator
<1> QED BY <1>3, <1>4, <1>5, <1>6, <1>9, <1>10, <1>11, <1>12 DEF Typed

-----------------------------------------------------------------------------
(* What the writes do to the chain.                                        *)

\* A chain on which the entries found can be found.
Bearing(live, spine, rank, d, s, found) ==
  /\ Strung(rank, d, s) /\ Woven(live, spine, rank, d, s)
  /\ found \subseteq OnLeaves(rank, d)

\* Page 0 is written, a page is added, or none is.
LEMMA Elsewhere ==
  ASSUME NEW live, NEW spine, NEW rank, NEW d, NEW s \in Nat,
         Strung(rank, d, s), Woven(live, spine, rank, d, s),
         NEW e, NEW t \in Nat, s <= t, \A p \in Pages(s) : e[p] = d[p]
  PROVE  /\ Strung(rank, e, t) /\ Woven(live, spine, rank, e, t)
         /\ OnLeaves(rank, e) = OnLeaves(rank, d)
<1>1. Pages(s) \subseteq Pages(t) /\ DOMAIN rank \subseteq Pages(s) /\ live \subseteq Pages(s)
  BY DEF Pages, Strung, Woven
<1>2. (\A p \in DOMAIN rank : e[p] = d[p]) /\ (\A p \in live : e[p] = d[p])
  BY <1>1
<1>3. Strung(rank, e, t)
  BY <1>1, <1>2 DEF Strung
<1>4. Woven(live, spine, rank, e, t)
  BY <1>1, <1>2 DEF Woven
<1>5. OnLeaves(rank, e) = OnLeaves(rank, d)
  BY <1>2 DEF OnLeaves
<1> QED BY <1>3, <1>4, <1>5

\* A leaf gets more entries, its next stays.
LEMMA LeafWritten ==
  ASSUME NEW live, NEW spine, NEW rank, NEW d, NEW s,
         Strung(rank, d, s), Woven(live, spine, rank, d, s),
         NEW a \in DOMAIN rank, NEW page \in LeafNode(Entry, {d[a].next}),
         Len(page.ents) <= LeafMax, \A x \in Members(d[a].ents) : x \in Members(page.ents),
         NEW e, \A p \in Pages(s) : e[p] = IF p = a THEN page ELSE d[p],
         NEW found, \A x \in found : x \in OnLeaves(rank, d) \/ x \in Members(page.ents)
  PROVE  Bearing(live, spine, rank, e, s, found)
<1>1. DOMAIN rank \subseteq Pages(s) /\ live \subseteq Pages(s)
  BY DEF Strung, Woven
<1>2. \A p \in DOMAIN rank \cup live : e[p] = IF p = a THEN page ELSE d[p]
  BY <1>1
<1>3. \A p \in DOMAIN rank : d[p] \in LeafNode(Entry, DOMAIN rank \cup {0}) /\ d[p].kind = "leaf"
  BY DEF Strung, LeafNode
<1>4. page \in LeafNode(Entry, DOMAIN rank \cup {0}) /\ page.next = d[a].next /\ page.kind = "leaf"
  BY <1>3 DEF LeafNode
<1>5. \A p \in DOMAIN rank : /\ e[p] \in LeafNode(Entry, DOMAIN rank \cup {0})
                             /\ Len(e[p].ents) <= LeafMax /\ e[p].next = d[p].next
  BY <1>2, <1>4 DEF Strung
<1>6. Strung(rank, e, s)
  BY <1>1, <1>5 DEF Strung
<1>7. \A p \in live : e[p].kind = d[p].kind /\ (e[p].kind # "leaf" => e[p] = d[p])
  BY <1>2, <1>3, <1>4
<1>8. Woven(live, spine, rank, e, s)
  BY <1>1, <1>7 DEF Woven
<1>9. \A p \in DOMAIN rank : Members(d[p].ents) \subseteq Members(e[p].ents)
  BY <1>2
<1>10. e[a] = page
  BY <1>2
<1>11. OnLeaves(rank, d) \subseteq OnLeaves(rank, e)
  BY <1>9 DEF OnLeaves
<1>12. Members(page.ents) \subseteq OnLeaves(rank, e)
  BY <1>10 DEF OnLeaves
<1> QED BY <1>6, <1>8, <1>11, <1>12 DEF Bearing

\* A non-leaf is written, in place or as a page to which nothing leads yet.
LEMMA NonLeafWritten ==
  ASSUME NEW live, NEW spine, NEW rank, NEW d, NEW s \in Nat,
         Strung(rank, d, s), Woven(live, spine, rank, d, s),
         NEW t \in Nat, s <= t, NEW a \in Pages(t), a \notin DOMAIN rank,
         NEW page \in NonLeafNode(Key, live),
         NEW top, spine \subseteq top, top \subseteq spine \cup {a},
         a \in top => page.first \in spine,
         NEW e, \A p \in Pages(t) : e[p] = IF p = a THEN page ELSE d[p],
         NEW found, found \subseteq OnLeaves(rank, d)
  PROVE  Bearing(live \cup {a}, top, rank, e, t, found)
<1>1. Pages(s) \subseteq Pages(t) /\ DOMAIN rank \subseteq Pages(s) /\ live \subseteq Pages(s)
      /\ spine \subseteq live
  BY DEF Pages, Strung, Woven
<1>2. \A p \in DOMAIN rank : e[p] = d[p]
  BY <1>1
<1>3. Strung(rank, e, t)
  BY <1>1, <1>2 DEF Strung
<1>4. OnLeaves(rank, e) = OnLeaves(rank, d)
  BY <1>2 DEF OnLeaves
<1>5. \A p \in live \cup {a} : e[p] = IF p = a THEN page ELSE d[p]
  BY <1>1
<1>6. page.kind = "nonleaf" /\ page \in NonLeafNode(Key, live \cup {a})
  <2>1. NonLeafNode(Key, live) \subseteq NonLeafNode(Key, live \cup {a})
    BY NonLeafMono
  <2> QED BY <2>1 DEF NonLeafNode
<1>7. ASSUME NEW p \in live \cup {a}
      PROVE  /\ e[p].kind = "leaf" =>
                   p \in DOMAIN rank /\ (p \in top => \A q \in DOMAIN rank : rank[q] <= rank[p])
             /\ e[p].kind # "leaf" => NodeIn(live \cup {a}, top, p, e[p])
  <2>1. CASE p = a
    BY <1>5, <1>6, <2>1 DEF NodeIn
  <2>2. CASE p # a
    <3>1. p \in live /\ e[p] = d[p] /\ (p \in top => p \in spine)
      BY <1>5, <2>2
    <3>2. e[p].kind # "leaf" => NodeIn(live, spine, p, e[p])
      BY <3>1 DEF Woven
    <3>3. NonLeafNode(Key, live) \subseteq NonLeafNode(Key, live \cup {a})
      BY NonLeafMono
    <3>4. e[p].kind # "leaf" => NodeIn(live \cup {a}, top, p, e[p])
      BY <3>1, <3>2, <3>3 DEF NodeIn
    <3> QED BY <3>1, <3>4 DEF Woven
  <2> QED BY <2>1, <2>2
<1>8. Woven(live \cup {a}, top, rank, e, t)
  BY <1>1, <1>7 DEF Woven
<1> QED BY <1>3, <1>4, <1>8 DEF Bearing

\* The sibling b of a split leaf a comes right after it.
Spliced(rank, a, b) ==
  [p \in DOMAIN rank \cup {b} |-> IF p = b THEN rank[a]
                                 ELSE IF rank[p] >= rank[a] THEN rank[p] + 1 ELSE rank[p]]

LEMMA PagesAreFinite ==
  ASSUME NEW s \in Nat, NEW C \in SUBSET Pages(s)
  PROVE  /\ IsFiniteSet(C) /\ Cardinality(C) \in Nat /\ Cardinality(C) <= IF s = 0 THEN 0 ELSE s - 1
         /\ \A b : b \notin C => Cardinality(C \cup {b}) = Cardinality(C) + 1
<1>1. IsFiniteSet(Pages(s)) /\ Cardinality(Pages(s)) = IF 1 <= s - 1 THEN (s - 1) - 1 + 1 ELSE 0
  BY FS_Interval DEF Pages
<1>2. IsFiniteSet(C) /\ Cardinality(C) <= Cardinality(Pages(s))
  BY <1>1, FS_Subset
<1>3. Cardinality(C) \in Nat
  BY <1>2, FS_CardinalityType
<1>4. \A b : b \notin C => Cardinality(C \cup {b}) = Cardinality(C) + 1
  BY <1>2, FS_AddElement
<1>5. Cardinality(Pages(s)) = IF s = 0 THEN 0 ELSE s - 1
  BY <1>1
<1> QED BY <1>2, <1>3, <1>4, <1>5

\* The split leaf, which leads to its sibling, is written over the old one.
LEMMA SiblingLinked ==
  ASSUME NEW live, NEW spine, NEW rank, NEW d, NEW s \in Nat,
         Strung(rank, d, s), Woven(live, spine, rank, d, s),
         NEW c, c.at \in DOMAIN rank, Unlinked(rank, d, s, c),
         NEW e, \A p \in Pages(s) : e[p] = IF p = c.at THEN c.page ELSE d[p],
         NEW new, new = Spliced(rank, c.at, c.over.pid),
         NEW found, \A x \in found : x \in OnLeaves(rank, d) \/ x = c.entry
  PROVE  Bearing(live \cup {c.over.pid}, spine, new, e, s, found)
<1> DEFINE a == c.at
           b == c.over.pid
           C == DOMAIN rank
<1>1. a \in C /\ b \in Pages(s) /\ b \notin C /\ C \subseteq Pages(s) /\ live \subseteq Pages(s)
      /\ spine \subseteq live
  BY DEF Unlinked, Strung, Woven
<1>2. /\ DOMAIN new = C \cup {b} /\ new[b] = rank[a]
      /\ \A p \in C : new[p] = IF rank[p] >= rank[a] THEN rank[p] + 1 ELSE rank[p]
  <2>1. new = [p \in C \cup {b} |-> IF p = b THEN rank[a]
                                   ELSE IF rank[p] >= rank[a] THEN rank[p] + 1 ELSE rank[p]]
    BY DEF Spliced
  <2> HIDE DEF C, a, b
  <2> QED BY <1>1, <2>1
<1>3. \A p \in C : rank[p] \in Nat /\ rank[p] < Cardinality(C)
  BY DEF Strung
<1>4. \A p, q \in C : rank[p] = rank[q] => p = q
  BY DEF Strung
<1>5. Cardinality(C) \in Nat /\ Cardinality(C \cup {b}) = Cardinality(C) + 1
  BY <1>1, PagesAreFinite
<1>6. /\ d[b] \in LeafNode(Entry, C \cup {0}) /\ d[b].next = d[a].next
      /\ c.page \in LeafNode(Entry, {b})
      /\ Len(d[b].ents) <= LeafMax /\ Len(c.page.ents) <= LeafMax
      /\ Members(d[a].ents) \cup {c.entry} \subseteq Members(c.page.ents) \cup Members(d[b].ents)
  BY DEF Unlinked
<1>7. \A p \in C : d[p] \in LeafNode(Entry, C \cup {0}) /\ Len(d[p].ents) <= LeafMax
  BY DEF Strung
<1>8. \A p \in C : /\ d[p].next = 0 => rank[p] = 0
                   /\ d[p].next # 0 => rank[d[p].next] = rank[p] - 1
  BY DEF Strung
<1>9. b # a /\ e[a] = c.page /\ e[b] = d[b] /\ \A p \in C \cup live : p # a => e[p] = d[p]
  BY <1>1
<1>10. e[a].next = b /\ b # 0
  BY <1>1, <1>6, <1>9 DEF LeafNode, Pages
<1> HIDE DEF a, b, C
<1>11. \A p \in C \cup {b} : e[p] \in LeafNode(Entry, C \cup {b} \cup {0}) /\ Len(e[p].ents) <= LeafMax
  <2> SUFFICES ASSUME NEW p \in C \cup {b}
               PROVE  e[p] \in LeafNode(Entry, C \cup {b} \cup {0}) /\ Len(e[p].ents) <= LeafMax
    OBVIOUS
  <2>1. CASE p = a
    BY <1>6, <1>9, <2>1 DEF LeafNode
  <2>2. CASE p = b
    BY <1>6, <1>9, <2>2 DEF LeafNode
  <2>3. CASE p # a /\ p # b
    BY <1>7, <1>9, <2>3 DEF LeafNode
  <2> QED BY <2>1, <2>2, <2>3
<1>12. \A p \in C \cup {b} : new[p] \in Nat /\ new[p] < Cardinality(C \cup {b})
  BY <1>1, <1>2, <1>3, <1>5
<1>13. \A p, q \in C \cup {b} : new[p] = new[q] => p = q
  <2>1. \A p, q \in C : new[p] = new[q] => p = q
    BY <1>1, <1>2, <1>3, <1>4
  <2>2. \A p \in C : new[p] # new[b]
    BY <1>1, <1>2, <1>3
  <2> QED BY <2>1, <2>2
<1>14. ASSUME NEW p \in C \cup {b}
       PROVE  /\ e[p].next = 0 => new[p] = 0
              /\ e[p].next # 0 => new[e[p].next] = new[p] - 1
  <2>1. \A q \in C : d[q].next # 0 => d[q].next \in C
    BY <1>7 DEF LeafNode
  <2>2. CASE p = a
    <3>1. new[a] = rank[a] + 1 /\ new[b] = rank[a] /\ rank[a] \in Nat
      BY <1>1, <1>2, <1>3
    <3> QED BY <1>10, <2>2, <3>1
  <2>3. CASE p = b
    <3>1. e[p].next = d[a].next /\ new[p] = rank[a] /\ rank[a] \in Nat
      BY <1>1, <1>2, <1>3, <1>6, <1>9, <2>3
    <3>2. ASSUME d[a].next # 0 PROVE new[d[a].next] = rank[a] - 1
      <4>1. d[a].next \in C /\ rank[d[a].next] = rank[a] - 1
        BY <1>1, <1>8, <2>1, <3>2
      <4> QED BY <1>2, <3>1, <4>1
    <3> QED BY <1>1, <1>8, <3>1, <3>2
  <2>4. CASE p # a /\ p # b
    <3>1. p \in C /\ e[p].next = d[p].next /\ rank[p] # rank[a] /\ rank[p] \in Nat /\ rank[a] \in Nat
      BY <1>1, <1>3, <1>4, <1>9, <2>4
    <3>2. ASSUME d[p].next # 0 PROVE new[d[p].next] = new[p] - 1
      <4>1. d[p].next \in C /\ rank[d[p].next] = rank[p] - 1
        BY <1>8, <2>1, <3>1, <3>2
      <4> QED BY <1>2, <3>1, <4>1
    <3>3. d[p].next = 0 => new[p] = 0
      <4>1. d[p].next = 0 => rank[p] = 0
        BY <1>8, <3>1
      <4> QED BY <1>2, <3>1, <4>1
    <3> QED BY <3>1, <3>2, <3>3
  <2> QED BY <2>2, <2>3, <2>4
<1>15. Strung(new, e, s)
  <2>1. C \cup {b} \subseteq Pages(s)
    BY <1>1
  <2> QED BY <1>2, <1>11, <1>12, <1>13, <1>14, <2>1 DEF Strung
<1>16. \A p \in live \cup {b} : e[p].kind # "leaf" => p \in live /\ e[p] = d[p]
  <2>1. e[a].kind = "leaf" /\ e[b].kind = "leaf"
    BY <1>6, <1>9 DEF LeafNode
  <2> QED BY <1>9, <2>1
<1>17. ASSUME NEW p \in live \cup {b}, e[p].kind = "leaf"
       PROVE  p \in C \cup {b} /\ (p \in spine => \A q \in C \cup {b} : new[q] <= new[p])
  <2>1. CASE p = b
    <3>1. b \notin spine
      <4>1. d[b].kind = "leaf"
        BY <1>6 DEF LeafNode
      <4> QED BY <1>1, <4>1 DEF Woven, C
    <3> QED BY <2>1, <3>1
  <2>2. CASE p # b
    <3>1. d[p].kind = "leaf" /\ p \in live
      <4>1. d[a].kind = "leaf"
        BY <1>1, <1>7 DEF LeafNode
      <4> QED BY <1>9, <1>17, <2>2, <4>1
    <3>2. p \in C /\ (p \in spine => \A q \in C : rank[q] <= rank[p])
      BY <3>1 DEF Woven, C
    <3> QED BY <1>1, <1>2, <1>3, <3>2
  <2> QED BY <2>1, <2>2
<1>18. Woven(live \cup {b}, spine, new, e, s)
  <2>1. \A p \in live \cup {b} : e[p].kind # "leaf" => NodeIn(live \cup {b}, spine, p, e[p])
    <3>1. NonLeafNode(Key, live) \subseteq NonLeafNode(Key, live \cup {b})
      BY NonLeafMono
    <3> QED BY <1>16, <3>1 DEF Woven, NodeIn
  <2>2. spine \subseteq live \cup {b} /\ live \cup {b} \subseteq Pages(s)
    BY <1>1
  <2> QED BY <1>2, <1>17, <2>1, <2>2 DEF Woven
<1>19. OnLeaves(rank, d) \cup {c.entry} \subseteq OnLeaves(new, e)
  <2>1. Members(e[a].ents) \cup Members(e[b].ents) \subseteq OnLeaves(new, e)
    BY <1>1, <1>2 DEF OnLeaves
  <2>2. Members(d[a].ents) \cup {c.entry} \subseteq OnLeaves(new, e)
    BY <1>6, <1>9, <2>1
  <2>3. \A p \in C : p # a => Members(d[p].ents) \subseteq OnLeaves(new, e)
    BY <1>2, <1>9 DEF OnLeaves
  <2>4. \A p \in C : Members(d[p].ents) \subseteq OnLeaves(new, e)
    BY <2>2, <2>3
  <2>5. OnLeaves(rank, d) \subseteq OnLeaves(new, e)
    BY <2>4 DEF OnLeaves, C
  <2> QED BY <2>2, <2>5
<1> QED BY <1>15, <1>18, <1>19 DEF b, Bearing

-----------------------------------------------------------------------------
(* The invariant, action by action.                                        *)

LEMMA InitChained == Init => \E live, spine, rank : Chained(live, spine, rank)
<1> SUFFICES ASSUME Init PROVE \E live, spine, rank : Chained(live, spine, rank)
  OBVIOUS
<1> DEFINE rank == [p \in {} |-> 0]
<1>1. DOMAIN rank = {}
  OBVIOUS
<1> HIDE DEF rank
<1>2. Strung(rank, disk, size) /\ Woven({}, {}, rank, disk, size)
  BY <1>1 DEF Strung, Woven
<1>3. Going({}, {}, rank, disk, size, op)
  BY DEF Init, Idle, Going
<1>4. Rooted({})
  BY DEF Init, Fresh, Rooted
<1>5. acked \cup saved \subseteq OnLeaves(rank, disk)
  BY DEF Init
<1> QED BY <1>2, <1>3, <1>4, <1>5 DEF Chained

LEMMA Wrote ==
  ASSUME Typed, NEW pid \in 0..size, pid > 0 => size > 0, NEW page, WritePage(pid, page)
  PROVE  /\ size' \in Nat /\ size' = (IF pid = size THEN size + 1 ELSE size)
         /\ \A p \in Pages(size') : disk'[p] = IF p = pid THEN page ELSE disk[p]
         /\ disk'[0] = IF pid = 0 THEN page ELSE disk[0]
<1>1. size \in Nat /\ DOMAIN disk = 0..(size - 1)
  BY DEF Typed
<1>2. size' = (IF pid = size THEN size + 1 ELSE size)
  BY <1>1 DEF WritePage
<1>3. DOMAIN disk \cup {pid} = 0..(size' - 1)
  BY <1>1, <1>2
<1>4. disk' = [p \in 0..(size' - 1) |-> IF p = pid THEN page ELSE disk[p]]
  BY <1>3 DEF WritePage
<1>5. \A p \in Pages(size') : disk'[p] = IF p = pid THEN page ELSE disk[p]
  BY <1>4 DEF Pages
<1>6. 0 \in 0..(size' - 1)
  BY <1>1, <1>2
<1>7. disk'[0] = IF pid = 0 THEN page ELSE disk[0]
  BY <1>4, <1>6
<1> QED BY <1>1, <1>2, <1>5, <1>7

LEMMA Undisturbed ==
  ASSUME NEW live, NEW spine, NEW rank, Chained(live, spine, rank), Typed,
         size' \in Nat, size <= size', \A p \in Pages(size) : disk'[p] = disk[p]
  PROVE  /\ Strung(rank, disk', size') /\ Woven(live, spine, rank, disk', size')
         /\ OnLeaves(rank, disk') = OnLeaves(rank, disk)
BY Elsewhere DEF Chained, Typed

LEMMA Standing ==
  ASSUME NEW live, NEW spine, NEW rank, Chained(live, spine, rank), Typed, UNCHANGED <<disk, size>>
  PROVE  /\ Strung(rank, disk', size') /\ Woven(live, spine, rank, disk', size')
         /\ OnLeaves(rank, disk') = OnLeaves(rank, disk)
BY DEF Chained

LEMMA OpensChained ==
  ASSUME NEW live, NEW spine, NEW rank, Chained(live, spine, rank), Typed, Books,
         OpenNew \/ Open("r") \/ Open("w")
  PROVE  Chained(live, spine, rank)'
<1>1. op.pc = "idle" /\ acked = saved /\ (size = 0 => saved = {}) /\ UNCHANGED <<op, acked, saved>>
  BY DEF OpenNew, Open, Books
<1>2. Going(live, spine, rank, disk', size', op')
  BY <1>1 DEF Going
<1>3. CASE OpenNew
  <2>1. size = 0
    BY <1>3 DEF OpenNew
  <2>2. CASE WritePage(0, Header(Fresh)) /\ obj' = [Fresh EXCEPT !.mode = "w"]
    <3>1. size' = 1 /\ disk'[0] = Header(Fresh)
      BY <2>1, <2>2, Wrote
    <3>2. \A p \in Pages(size) : disk'[p] = disk[p]
      BY <2>1 DEF Pages
    <3>3. disk'[0].height = 0 /\ obj'.height = 0
      BY <2>2, <3>1 DEF Header, Fresh
    <3>4. Rooted(spine)'
      BY <1>1, <2>1, <3>3 DEF Rooted
    <3> QED BY <1>1, <1>2, <2>1, <3>1, <3>2, <3>4, Undisturbed DEF Chained
  <2>3. CASE UNCHANGED <<disk, size, obj>>
    <3>1. Rooted(spine)'
      BY <1>1, <2>3 DEF Rooted, Chained
    <3> QED BY <1>1, <1>2, <2>3, <3>1, Standing DEF Chained
  <2> QED BY <1>3, <2>2, <2>3 DEF OpenNew
<1>4. CASE Open("r") \/ Open("w")
  <2>1. UNCHANGED <<disk, size>> /\ size > 0
        /\ obj'.height = disk[0].height /\ obj'.root = disk[0].root
    BY <1>4 DEF Open
  <2>2. disk[0].height \in Nat
    BY <2>1 DEF Typed, HeaderType
  <2>3. Rooted(spine)'
    BY <1>1, <2>1, <2>2 DEF Rooted, Chained
  <2> QED BY <1>1, <1>2, <2>1, <2>3, Standing DEF Chained
<1> QED BY <1>3, <1>4

LEMMA CloseChained ==
  ASSUME NEW live, NEW spine, NEW rank, Chained(live, spine, rank), Typed, Close
  PROVE  Chained(live, spine, rank)'
<1>1. obj.mode = "w" /\ size > 0 /\ size \in Nat /\ WritePage(0, Header(obj))
      /\ saved' = acked /\ acked' = acked /\ obj' = Fresh /\ op' = Idle
  BY DEF Close, Typed
<1>2. size' = size /\ disk'[0] = Header(obj) /\ \A p \in Pages(size) : disk'[p] = disk[p]
  BY <1>1, Wrote DEF Pages
<1>3. Going(live, spine, rank, disk', size', op')
  BY <1>1 DEF Going, Idle
<1>4. Rooted(spine)'
  BY <1>1, <1>2 DEF Rooted, Chained, Header, Fresh
<1> QED BY <1>1, <1>2, <1>3, <1>4, Undisturbed DEF Chained

LEMMA EndsChained ==
  ASSUME NEW live, NEW spine, NEW rank, Chained(live, spine, rank), Typed,
         CloseFails \/ Abandon \/ InsertFails
  PROVE  Chained(live, spine, rank)'
<1>1. UNCHANGED <<disk, size, saved>> /\ (op' = Idle \/ op' = op)
      /\ (acked' = saved \/ acked' = acked)
  BY DEF CloseFails, Abandon, InsertFails
<1>2. Going(live, spine, rank, disk', size', op')
  BY <1>1 DEF Going, Idle, Chained
<1>3. Rooted(spine)'
  <2>1. (obj' = obj /\ acked' = acked) \/ obj' = Fresh
    BY DEF CloseFails, Abandon, InsertFails
  <2> QED BY <1>1, <2>1 DEF Rooted, Chained, Fresh
<1> QED BY <1>1, <1>2, <1>3, Standing DEF Chained

LEMMA SearchesChained ==
  ASSUME NEW live, NEW spine, NEW rank, Chained(live, spine, rank), Typed,
         (\E k \in Key : LocateCall(k)) \/ SeekDown \/ SeekLeaf \/ ReadForward
  PROVE  Chained(live, spine, rank)'
<1>1. UNCHANGED <<disk, size, obj, acked, saved>>
  BY DEF LocateCall, SeekDown, SeekLeaf, ReadForward
<1>2. op'.pc \in {"idle", "seek"}
  <2>1. CASE \E k \in Key : LocateCall(k)
    BY <2>1 DEF LocateCall, Idle
  <2>2. CASE SeekDown
    <3>1. op'.pc = op.pc
      BY <2>2 DEF SeekDown
    <3> QED BY <2>2, <3>1 DEF SeekDown
  <2>3. CASE SeekLeaf \/ ReadForward
    BY <2>3 DEF SeekLeaf, ReadForward, Idle
  <2> QED BY <2>1, <2>2, <2>3
<1>3. Going(live, spine, rank, disk', size', op')
  BY <1>2 DEF Going
<1>4. Rooted(spine)'
  BY <1>1 DEF Rooted, Chained
<1> QED BY <1>1, <1>3, <1>4, Standing DEF Chained

LEMMA InsertCallChained ==
  ASSUME NEW live, NEW spine, NEW rank, Chained(live, spine, rank), Typed,
         NEW e \in Entry, InsertCall(e)
  PROVE  Chained(live, spine, rank)'
<1>1. UNCHANGED <<disk, size, acked, saved>> /\ obj.height \in Nat
  BY DEF InsertCall, Typed, ObjType
<1>2. obj'.height = obj.height /\ obj'.mode = obj.mode /\ (obj.height # 0 => obj'.root = obj.root)
  <2> DEFINE w == Widened(obj, e.key)
  <2>1. obj \in ObjType /\ e.key \in Key
    BY EntryKeyed DEF Typed
  <2>2. w \in ObjType /\ w.height = obj.height /\ w.mode = obj.mode /\ w.root = obj.root
    BY <2>1 DEF Widened, ObjType, Bound
  <2>3. obj' = [w EXCEPT !.root = IF obj.height = 0 THEN size ELSE @]
    BY DEF InsertCall
  <2> HIDE DEF w
  <2> QED BY <2>2, <2>3 DEF ObjType
<1>3. Rooted(spine)'
  BY <1>1, <1>2 DEF Rooted, Chained
<1>4. Going(live, spine, rank, disk', size', op')
  <2>1. CASE obj.height = 0
    BY <2>1 DEF InsertCall, Going
  <2>2. CASE obj.height # 0
    <3>1. op' = [pc |-> "down", entry |-> e, at |-> obj.root, held |-> <<>>]
      BY <2>2 DEF InsertCall
    <3>2. obj.root \in live
      BY <1>1, <2>2 DEF Chained, Rooted, Woven
    <3>3. HeldIn(live, spine, <<>>)
      BY DEF HeldIn
    <3> QED BY <3>1, <3>2, <3>3 DEF Going
  <2> QED BY <2>1, <2>2
<1> QED BY <1>1, <1>3, <1>4, Standing DEF Chained

LEMMA DescendChained ==
  ASSUME NEW live, NEW spine, NEW rank, Chained(live, spine, rank), Typed, Descend
  PROVE  Chained(live, spine, rank)'
<1> DEFINE node == disk[op.at]
           at   == ChildPtr(node, op.entry.key)
           held == Append(op.held, [pid |-> op.at, node |-> node])
<1>1. op.pc = "down" /\ op.at \in live /\ HeldIn(live, spine, op.held) /\ op.entry \in Entry
      /\ op \in [pc : {"down"}, entry : Entry, at : Pages(size), held : Seq(HeldPage)]
  BY DEF Descend, Chained, Going, Typed
<1>2. NodeIn(live, spine, op.at, node) /\ node \in NonLeafPage
  <2>1. node.kind = "nonleaf"
    BY <1>1 DEF Descend, Typed
  <2>2. NodeIn(live, spine, op.at, node)
    BY <1>1, <2>1 DEF Chained, Woven
  <2>3. node \in LeafPage \cup NonLeafPage
    BY <1>1 DEF Typed
  <2> QED BY <2>1, <2>2, <2>3 DEF LeafPage, LeafNode
<1>3. at \in live
  <2>1. op.entry.key \in Int
    BY <1>1, EntryKeyed DEF Keyed
  <2> QED BY <1>2, <2>1, EntryKeyed, ChildPtrType DEF NodeIn
<1>4. op' = [op EXCEPT !.at = at, !.held = held]
  BY DEF Descend
<1> HIDE DEF at, node
<1>5. [pid |-> op.at, node |-> node] \in HeldPage
  BY <1>1, <1>2 DEF HeldPage, Pages, Typed
<1>6. Len(held) = Len(op.held) + 1 /\ Len(op.held) \in Nat
      /\ (\A i \in 1..Len(op.held) : held[i] = op.held[i])
      /\ held[Len(op.held) + 1] = [pid |-> op.at, node |-> node]
  BY <1>1, <1>5, AppendProperties
<1> HIDE DEF held
<1>7. HeldIn(live, spine, held)
  <2> SUFFICES ASSUME NEW i \in 1..Len(held)
               PROVE  held[i].pid \in live /\ NodeIn(live, spine, held[i].pid, held[i].node)
    BY DEF HeldIn
  <2>1. CASE i \in 1..Len(op.held)
    BY <1>1, <1>6, <2>1 DEF HeldIn
  <2>2. CASE i = Len(op.held) + 1
    BY <1>1, <1>2, <1>6, <2>2
  <2> QED BY <1>6, <2>1, <2>2
<1>8. op'.pc = "down" /\ op'.at = at /\ op'.held = held
  BY <1>1, <1>4
<1>9. Going(live, spine, rank, disk', size', op')
  BY <1>3, <1>7, <1>8 DEF Going
<1>10. Rooted(spine)' /\ UNCHANGED <<disk, size, acked, saved>>
  BY DEF Descend, Chained, Rooted
<1> QED BY <1>9, <1>10, Standing DEF Chained

\* In an empty tree no entry is answered for: the new leaf is all there is to know.
LEMMA InsertFirstChained ==
  ASSUME NEW live, NEW spine, NEW rank, Chained(live, spine, rank), Typed, InsertFirst
  PROVE  \E one, sole, only : Chained(one, sole, only)' /\ DOMAIN only = {size}
<1> PICK s : s = size
  OBVIOUS
<1> DEFINE page == LeafInsert(EmptyLeaf, op.entry)
           only == [p \in {s} |-> 0]
<1>1. op.pc = "first" /\ op.entry \in Entry /\ obj.height = 0 /\ obj.root = size /\ obj.mode = "w"
      /\ size \in Nat /\ size > 0
  BY DEF InsertFirst, Typed, Inserting
<1>2. saved = {} /\ acked = {} /\ disk[0].height = 0
  <2>1. disk[0].height \in Nat
    BY <1>1 DEF Typed, HeaderType
  <2> QED BY <1>1, <2>1 DEF Chained, Rooted
<1>3. page \in LeafNode(Entry, {0}) /\ Len(page.ents) = 1 /\ Members(page.ents) = {op.entry}
  <2>1. EmptyLeaf \in LeafNode(Entry, {0}) /\ EmptyLeaf.ents = <<>> /\ <<>> \in Seq(Entry) /\ Len(<<>>) = 0
    BY EmptySeq DEF EmptyLeaf, LeafNode
  <2>2. page \in LeafNode(Entry, {0})
    BY <1>1, <2>1, EntryKeyed, LeafInsertType
  <2>3. page.ents = Insert(<<>>, op.entry)
    BY <2>1 DEF LeafInsert, EmptyLeaf
  <2>4. Len(Insert(<<>>, op.entry)) = Len(<<>>) + 1
    BY <1>1, <2>1, EntryKeyed, InsertType
  <2>5. Members(page.ents) = Members(<<>>) \cup {op.entry}
    <3> DEFINE none == <<>>
    <3>1. none \in Seq(Entry) /\ page.ents = Insert(none, op.entry)
      BY <2>1, <2>3
    <3> HIDE DEF none, page
    <3>2. Members(page.ents) = Members(none) \cup {op.entry}
      BY <1>1, <3>1, EntryKeyed, InsertMembers
    <3> QED BY <3>2 DEF none
  <2>6. Members(<<>>) = {}
    BY <2>1 DEF Members
  <2> HIDE DEF page
  <2> QED BY <2>1, <2>2, <2>3, <2>4, <2>5, <2>6
<1>4. WritePage(size, page) /\ op' = Idle /\ acked' = acked \cup {op.entry} /\ saved' = saved
      /\ obj' = [obj EXCEPT !.height = 1]
  BY <1>1 DEF InsertFirst, Return
<1> HIDE DEF page
<1>5. size' = size + 1 /\ disk'[size] = page /\ disk'[0] = disk[0]
  <2>1. size \in 0..size /\ size \in Pages(size + 1) /\ size # 0
    BY <1>1 DEF Pages
  <2> QED BY <1>1, <1>4, <2>1, Wrote
<1>6. DOMAIN only = {s} /\ only[size] = 0
  OBVIOUS
<1> HIDE DEF only
<1>7. size \in Pages(size') /\ Cardinality({s}) = 1
  <2>1. Cardinality({s}) = 1
    BY FS_Singleton
  <2> QED BY <1>1, <1>5, <2>1 DEF Pages
<1>8. page.next = 0 /\ page.kind = "leaf" /\ page \in LeafNode(Entry, {s} \cup {0}) /\ Len(page.ents) <= LeafMax
  BY <1>3, LeafMaxAssumption DEF LeafNode
<1>9. Strung(only, disk', size')
  <2>1. Cardinality(DOMAIN only) = 1 /\ DOMAIN only \subseteq Pages(size')
    BY <1>6, <1>7
  <2>2. \A p \in DOMAIN only : disk'[p] = page /\ only[p] = 0 /\ p = s
    BY <1>5, <1>6
  <2>3. page \in LeafNode(Entry, DOMAIN only \cup {0})
    BY <1>6, <1>8
  <2> QED BY <1>8, <2>1, <2>2, <2>3 DEF Strung
<1>10. Woven({s}, {s}, only, disk', size')
  BY <1>5, <1>6, <1>7, <1>8 DEF Woven
<1>11. Going({s}, {s}, only, disk', size', op')
  BY <1>4 DEF Going, Idle
<1>12. Rooted({s})'
  <2>1. obj'.height = 1 /\ obj'.root = size
    BY <1>1, <1>4 DEF Typed, ObjType
  <2> QED BY <1>2, <1>4, <1>5, <2>1 DEF Rooted
<1>13. OnLeaves(only, disk') = {op.entry}
  BY <1>3, <1>5, <1>6 DEF OnLeaves
<1>14. acked' \cup saved' \subseteq OnLeaves(only, disk')
  BY <1>2, <1>4, <1>13
<1>15. Chained({s}, {s}, only)'
  BY <1>9, <1>10, <1>11, <1>12, <1>14 DEF Chained
<1> QED BY <1>6, <1>15

\* The last write of an insert that leaves root and height as they are.
LEMMA ReturnChained ==
  ASSUME NEW live, NEW spine, NEW rank, Chained(live, spine, rank), Typed,
         op.pc \in {"down", "left", "up"}, Return, UNCHANGED <<obj, saved>>, disk'[0] = disk[0],
         size > 0,
         NEW more, NEW longer,
         Bearing(more, spine, longer, disk', size', acked \cup saved \cup {op.entry})
  PROVE  Chained(more, spine, longer)'
<1>1. op' = Idle /\ acked' = acked \cup {op.entry} /\ obj' = obj /\ saved' = saved
  BY DEF Return
<1>2. Going(more, spine, longer, disk', size', op')
  BY <1>1 DEF Going, Idle
<1>3. obj.height > 0
  BY DEF Typed
<1>4. Rooted(spine)'
  BY <1>1, <1>3 DEF Chained, Rooted
<1>5. acked' \cup saved' \subseteq OnLeaves(longer, disk')
  BY <1>1 DEF Bearing
<1> QED BY <1>2, <1>4, <1>5 DEF Chained, Bearing

\* The leaf an insert has come down to.
LEMMA LeafBelow ==
  ASSUME NEW live, NEW spine, NEW rank, Chained(live, spine, rank), Typed,
         op.pc = "down", AtLeaf
  PROVE  /\ size \in Nat /\ op.at \in live /\ op.at \in DOMAIN rank /\ op.at \in Pages(size)
         /\ disk[op.at] \in LeafNode(Entry, DOMAIN rank \cup {0}) /\ disk[op.at].ents \in Seq(Entry)
         /\ Len(disk[op.at].ents) <= LeafMax
<1>1. disk[op.at].kind = "leaf" /\ op.at \in live /\ op.at \in Pages(size) /\ size \in Nat
  BY DEF Typed, Chained, Going
<1>2. op.at \in DOMAIN rank
  BY <1>1 DEF Chained, Woven
<1> QED BY <1>1, <1>2 DEF Chained, Strung, LeafNode

LEMMA InsertInLeafChained ==
  ASSUME NEW live, NEW spine, NEW rank, Chained(live, spine, rank), Typed, InsertInLeaf
  PROVE  Chained(live, spine, rank)'
<1> DEFINE leaf == disk[op.at]
           page == LeafInsert(leaf, op.entry)
<1>1. op.pc = "down" /\ AtLeaf /\ ~LeafFull(leaf) /\ op.entry \in Entry
  BY DEF InsertInLeaf, Typed, Inserting
<1>2. op.at \in DOMAIN rank /\ op.at \in Pages(size) /\ size \in Nat /\ leaf.ents \in Seq(Entry)
      /\ leaf \in LeafNode(Entry, {leaf.next})
  BY <1>1, LeafBelow DEF LeafNode
<1>3. page \in LeafNode(Entry, {leaf.next})
  BY <1>1, <1>2, EntryKeyed, LeafInsertType
<1>4. page.ents = Insert(leaf.ents, op.entry)
  BY <1>2 DEF LeafInsert, LeafNode
<1>5. Members(page.ents) = Members(leaf.ents) \cup {op.entry}
  BY <1>1, <1>2, <1>4, EntryKeyed, InsertMembers
<1>6. Len(page.ents) = Len(leaf.ents) + 1
  <2>1. Len(Insert(leaf.ents, op.entry)) = Len(leaf.ents) + 1
    BY <1>1, <1>2, EntryKeyed, InsertType
  <2> QED BY <1>4, <2>1
<1>7. Len(page.ents) <= LeafMax
  BY <1>1, <1>2, <1>6, LeafMaxAssumption DEF LeafFull
<1>8. WritePage(op.at, page) /\ Return /\ UNCHANGED <<obj, saved>>
  BY DEF InsertInLeaf
<1> HIDE DEF page
<1>9. size' = size /\ disk'[0] = disk[0] /\ size > 0
      /\ \A p \in Pages(size) : disk'[p] = IF p = op.at THEN page ELSE disk[p]
  <2>1. op.at \in 0..size /\ size > 0 /\ op.at # size /\ op.at # 0
    BY <1>2 DEF Pages
  <2> QED BY <1>8, <2>1, Wrote
<1>10. \A x \in Members(disk[op.at].ents) : x \in Members(page.ents)
  BY <1>5
<1> HIDE DEF leaf
<1>11. Strung(rank, disk, size) /\ Woven(live, spine, rank, disk, size)
  BY DEF Chained
<1>12. page \in LeafNode(Entry, {disk[op.at].next})
  BY <1>3 DEF leaf
<1> DEFINE found == acked \cup saved \cup {op.entry}
<1>13. \A x \in found : x \in OnLeaves(rank, disk) \/ x \in Members(page.ents)
  BY <1>5 DEF Chained
<1> HIDE DEF found
<1>14. Bearing(live, spine, rank, disk', size, found)
  BY <1>2, <1>7, <1>9, <1>10, <1>11, <1>12, <1>13, LeafWritten
<1> QED BY <1>1, <1>8, <1>9, <1>14, ReturnChained DEF found

\* The sibling goes to a new page, to which nothing on disk leads yet.
LEMMA SplitLeafChained ==
  ASSUME NEW live, NEW spine, NEW rank, Chained(live, spine, rank), Typed, SplitLeaf
  PROVE  Chained(live, spine, rank)'
<1> DEFINE leaf  == disk[op.at]
           h     == LeafSplit(leaf, op.entry)
           s     == LeafHalves(leaf, op.entry)
           left  == [h.left EXCEPT !.next = size]
           right == [h.right EXCEPT !.next = leaf.next]
           N     == DOMAIN rank \cup {0}
<1>1. op.pc = "down" /\ AtLeaf /\ LeafFull(leaf) /\ op.entry \in Entry
  BY DEF SplitLeaf, Typed, Inserting
<1>2. op.at \in DOMAIN rank /\ op.at \in Pages(size) /\ op.at \in live /\ size \in Nat
      /\ leaf.ents \in Seq(Entry) /\ leaf \in LeafNode(Entry, N) /\ Len(leaf.ents) <= LeafMax
  BY <1>1, LeafBelow
<1>3. Len(leaf.ents) = LeafMax
  BY <1>1, <1>2, LeafMaxAssumption DEF LeafFull
<1>4. h.left \in LeafNode(Entry, N) /\ h.right \in LeafNode(Entry, {0})
  BY <1>1, <1>2, EntryKeyed, LeafSplitType
<1>5. Halved(leaf.ents, op.entry, h.left.ents, h.right.ents)
  BY <1>1, <1>2, <1>3, EntryKeyed, LeafSplitMembers
<1>6. s = [left |-> left, right |-> right, key |-> h.key]
  <2>1. h = [left |-> h.left, right |-> h.right, key |-> h.key]
    BY DEF LeafSplit
  <2>2. s = [h EXCEPT !.left.next = size, !.right.next = leaf.next]
    BY DEF LeafHalves
  <2> HIDE DEF h, s
  <2> QED BY <2>1, <2>2
<1>7. WritePage(size, s.right)
      /\ op' = [pc |-> "left", entry |-> op.entry, held |-> op.held, at |-> op.at,
                page |-> s.left, over |-> [key |-> s.key, pid |-> size]]
      /\ UNCHANGED <<obj, acked, saved>>
  BY DEF SplitLeaf
<1> HIDE DEF s, h
<1>8. left \in LeafNode(Entry, {size}) /\ left.ents = h.left.ents
  BY <1>4 DEF LeafNode
<1>9. right \in LeafNode(Entry, N) /\ right.next = leaf.next /\ right.ents = h.right.ents
  BY <1>2, <1>4 DEF LeafNode
<1> HIDE DEF left, right, N
<1>10. WritePage(size, right) /\ op'.page = left /\ op'.over.pid = size /\ op'.at = op.at
       /\ op'.entry = op.entry /\ op'.held = op.held /\ op'.pc = "left"
  BY <1>6, <1>7
<1>11. size' = size + 1 /\ disk'[size] = right /\ disk'[0] = disk[0]
       /\ \A p \in Pages(size) : disk'[p] = disk[p]
  <2>1. size \in 0..size /\ size > 0 /\ size \in Pages(size + 1)
        /\ \A p \in Pages(size) : p \in Pages(size + 1) /\ p # size
    BY <1>2 DEF Pages
  <2> QED BY <1>10, <2>1, Wrote
<1>12. /\ Strung(rank, disk', size') /\ Woven(live, spine, rank, disk', size')
       /\ OnLeaves(rank, disk') = OnLeaves(rank, disk)
  BY <1>2, <1>11, Undisturbed
<1>13. Unlinked(rank, disk', size', op')
  <2>1. size \in Pages(size') /\ size \notin DOMAIN rank
    BY <1>2, <1>11 DEF Chained, Strung, Pages
  <2>2. disk'[op'.at] = leaf
    BY <1>2, <1>10, <1>11
  <2>3. Members(leaf.ents) \cup {op.entry} \subseteq Members(left.ents) \cup Members(right.ents)
    BY <1>5, <1>8, <1>9 DEF Halved
  <2>4. Len(left.ents) <= LeafMax /\ Len(right.ents) <= LeafMax
    BY <1>5, <1>8, <1>9 DEF Halved
  <2> QED BY <1>8, <1>9, <1>10, <1>11, <2>1, <2>2, <2>3, <2>4 DEF Unlinked, N
<1>14. Going(live, spine, rank, disk', size', op')
  <2>1. HeldIn(live, spine, op.held)
    BY <1>1 DEF Chained, Going
  <2>2. op'.page.kind = "leaf"
    BY <1>8, <1>10 DEF LeafNode
  <2> QED BY <1>2, <1>10, <1>13, <2>1, <2>2 DEF Going
<1>15. Rooted(spine)'
  <2>1. size > 0
    BY <1>2 DEF Pages
  <2> QED BY <1>7, <1>11, <2>1 DEF Chained, Rooted
<1> QED BY <1>7, <1>12, <1>14, <1>15 DEF Chained

LEMMA HeldInMore ==
  ASSUME NEW live, NEW spine, NEW more, live \subseteq more, NEW held, HeldIn(live, spine, held)
  PROVE  HeldIn(more, spine, held)
<1>1. NonLeafNode(Key, live) \subseteq NonLeafNode(Key, more)
  BY NonLeafMono
<1> QED BY <1>1 DEF HeldIn, NodeIn

\* The leaves of the chain after the second write of a split: with the sibling, if
\* it is a leaf that is split.
ChainAfter(C) == IF op.page.kind = "leaf" THEN C \cup {op.over.pid} ELSE C

\* Now the sibling can be reached along the leaves, though not from the node above.
LEMMA WriteLeftChained ==
  ASSUME NEW live, NEW spine, NEW rank, Chained(live, spine, rank), Typed, WriteLeft
  PROVE  \E more, longer : /\ Chained(more, spine, longer)' /\ DOMAIN longer = ChainAfter(DOMAIN rank)
                           /\ \A p \in more : p \in live \/ p = op.over.pid
<1>1. op.pc = "left" /\ HeldIn(live, spine, op.held) /\ op.at \in live /\ op.at \in Pages(size)
      /\ op.page.kind = disk[op.at].kind /\ size \in Nat
  BY DEF WriteLeft, Chained, Going, Typed
<1>2. WritePage(op.at, op.page)
      /\ op' = [pc |-> "up", entry |-> op.entry, held |-> op.held, over |-> op.over]
      /\ UNCHANGED <<obj, acked, saved>>
  BY DEF WriteLeft
<1>3. size' = size /\ disk'[0] = disk[0]
      /\ \A p \in Pages(size) : disk'[p] = IF p = op.at THEN op.page ELSE disk[p]
  <2>1. op.at \in 0..size /\ size > 0 /\ op.at # size /\ op.at # 0
    BY <1>1 DEF Pages
  <2> QED BY <1>2, <2>1, Wrote
<1>4. Rooted(spine)'
  BY <1>2, <1>3 DEF Chained, Rooted
<1> DEFINE found == acked \cup saved \cup {op.entry}
<1>5. SUFFICES \E more, longer :
        /\ live \subseteq more /\ op.over.pid \in more /\ DOMAIN longer = ChainAfter(DOMAIN rank)
        /\ \A p \in more : p \in live \/ p = op.over.pid
        /\ Bearing(more, spine, longer, disk', size', found)
  <2>1. PICK more, longer :
          /\ live \subseteq more /\ op.over.pid \in more /\ DOMAIN longer = ChainAfter(DOMAIN rank)
          /\ \A p \in more : p \in live \/ p = op.over.pid
          /\ Bearing(more, spine, longer, disk', size', found)
    BY <1>5
  <2>2. HeldIn(more, spine, op.held)
    BY <1>1, <2>1, HeldInMore
  <2>3. Going(more, spine, longer, disk', size', op')
    BY <1>2, <2>1, <2>2 DEF Going, Bearing
  <2>4. Chained(more, spine, longer)'
    BY <1>2, <1>4, <2>1, <2>3 DEF Chained, Bearing
  <2> QED BY <2>1, <2>4
<1>6. Strung(rank, disk, size) /\ Woven(live, spine, rank, disk, size)
      /\ \A x \in acked \cup saved : x \in OnLeaves(rank, disk)
  BY DEF Chained
<1>7. CASE op.page.kind = "leaf"
  <2>1. op.at \in DOMAIN rank
    BY <1>1, <1>6, <1>7 DEF Woven
  <2>2. Unlinked(rank, disk, size, op)
    BY <1>1, <1>7 DEF Chained, Going
  <2>3. \A x \in found : x \in OnLeaves(rank, disk) \/ x = op.entry
    BY <1>6
  <2> HIDE DEF found
  <2>4. \A new : new = Spliced(rank, op.at, op.over.pid) =>
          Bearing(live \cup {op.over.pid}, spine, new, disk', size, found)
    BY <1>1, <1>3, <1>6, <2>1, <2>2, <2>3, SiblingLinked
  <2>5. live \subseteq live \cup {op.over.pid} /\ op.over.pid \in live \cup {op.over.pid}
    OBVIOUS
  <2>6. DOMAIN Spliced(rank, op.at, op.over.pid) = ChainAfter(DOMAIN rank)
    BY <1>7 DEF Spliced, ChainAfter
  <2> QED BY <1>3, <2>4, <2>5, <2>6
<1>8. CASE op.page.kind # "leaf"
  <2>1. op.over.pid \in live /\ NodeIn(live, spine, op.at, op.page) /\ op.entry \in OnLeaves(rank, disk)
    BY <1>1, <1>8 DEF Chained, Going
  <2>2. op.at \notin DOMAIN rank
    BY <1>1, <1>6, <1>8 DEF Strung, LeafNode
  <2>3. found \subseteq OnLeaves(rank, disk)
    BY <1>6, <2>1
  <2> HIDE DEF found
  <2>4. op.page \in NonLeafNode(Key, live) /\ (op.at \in spine => op.page.first \in spine)
    BY <2>1 DEF NodeIn
  <2>5. Bearing(live \cup {op.at}, spine, rank, disk', size, found)
    <3>1. spine \subseteq spine /\ spine \subseteq spine \cup {op.at} /\ size <= size
      BY <1>1
    <3> QED BY <1>1, <1>3, <1>6, <2>2, <2>3, <2>4, <3>1, NonLeafWritten
  <2>6. live \cup {op.at} = live /\ DOMAIN rank = ChainAfter(DOMAIN rank)
    BY <1>1, <1>8 DEF ChainAfter
  <2> QED BY <1>3, <2>1, <2>5, <2>6
<1> QED BY <1>7, <1>8

\* The node above a split, and the separator that is to go into it.
LEMMA ParentChained ==
  ASSUME NEW live, NEW spine, NEW rank, Chained(live, spine, rank), Typed,
         op.pc = "up", op.held # <<>>
  PROVE  /\ Parent.pid \in live /\ Parent.pid \in Pages(size) /\ Parent.pid \notin DOMAIN rank
         /\ NodeIn(live, spine, Parent.pid, Parent.node)
         /\ op.over \in Separator(Key, live) /\ op.entry \in OnLeaves(rank, disk)
<1>1. op.held \in Seq(HeldPage) /\ HeldIn(live, spine, op.held)
      /\ \A i \in 1..Len(op.held) : op.held[i].pid \in Pages(size)
                                    /\ disk[op.held[i].pid].kind = "nonleaf"
  BY DEF Typed, Chained, Going
<1>2. Len(op.held) \in 1..Len(op.held)
  BY <1>1, EmptySeq
<1>3. Parent.pid \in live /\ Parent.pid \in Pages(size) /\ disk[Parent.pid].kind = "nonleaf"
      /\ NodeIn(live, spine, Parent.pid, Parent.node)
  BY <1>1, <1>2 DEF Parent, HeldIn
<1>4. Parent.pid \notin DOMAIN rank
  BY <1>3 DEF Chained, Strung, LeafNode
<1>5. op.over \in Separator(Key, live) /\ op.entry \in OnLeaves(rank, disk)
  BY DEF Typed, Chained, Going, Separator
<1> QED BY <1>3, <1>4, <1>5

LEMMA InsertInNonLeafChained ==
  ASSUME NEW live, NEW spine, NEW rank, Chained(live, spine, rank), Typed, InsertInNonLeaf
  PROVE  Chained(live, spine, rank)'
<1> DEFINE a     == Parent.pid
           node  == Parent.node
           page  == NonLeafInsert(node, op.over)
           found == acked \cup saved \cup {op.entry}
<1>1. op.pc = "up" /\ op.held # <<>> /\ WritePage(a, page) /\ Return /\ UNCHANGED <<obj, saved>>
  BY DEF InsertInNonLeaf
<1>2. a \in live /\ a \in Pages(size) /\ a \notin DOMAIN rank /\ NodeIn(live, spine, a, node)
      /\ op.over \in Separator(Key, live) /\ op.entry \in OnLeaves(rank, disk)
  BY <1>1, ParentChained
<1>3. node \in NonLeafNode(Key, live) /\ (a \in spine => node.first \in spine) /\ size \in Nat
  BY <1>2 DEF NodeIn, Typed
<1>4. page \in NonLeafNode(Key, live)
  BY <1>2, <1>3, EntryKeyed, NonLeafInsertType
<1>5. page.first = node.first
  BY <1>3 DEF NonLeafInsert, NonLeafNode
<1> HIDE DEF page, a, node
<1>6. size' = size /\ disk'[0] = disk[0] /\ size > 0
      /\ \A p \in Pages(size) : disk'[p] = IF p = a THEN page ELSE disk[p]
  <2>1. a \in 0..size /\ size > 0 /\ a # size /\ a # 0
    BY <1>2, <1>3 DEF Pages
  <2> QED BY <1>1, <2>1, Wrote
<1>7. Strung(rank, disk, size) /\ Woven(live, spine, rank, disk, size) /\ found \subseteq OnLeaves(rank, disk)
  BY <1>2 DEF Chained
<1> HIDE DEF found
<1>8. Bearing(live \cup {a}, spine, rank, disk', size, found)
  <2>1. spine \subseteq spine /\ spine \subseteq spine \cup {a} /\ size <= size
        /\ (a \in spine => page.first \in spine)
    BY <1>3, <1>5
  <2> QED BY <1>2, <1>3, <1>4, <1>6, <1>7, <2>1, NonLeafWritten
<1>9. live \cup {a} = live
  BY <1>2
<1> QED BY <1>1, <1>6, <1>8, <1>9, ReturnChained DEF found

\* A new page above the leaves.
LEMMA NonLeafAdded ==
  ASSUME NEW live, NEW spine, NEW rank, Typed, size > 0,
         Strung(rank, disk, size), Woven(live, spine, rank, disk, size),
         acked \cup saved \subseteq OnLeaves(rank, disk), op.entry \in OnLeaves(rank, disk),
         NEW page \in NonLeafNode(Key, live), WritePage(size, page),
         NEW s, s = size, NEW top, spine \subseteq top, top \subseteq spine \cup {s},
         s \in top => page.first \in spine
  PROVE  /\ size' = size + 1 /\ disk'[0] = disk[0] /\ \A p \in Pages(size) : disk'[p] = disk[p]
         /\ Bearing(live \cup {s}, top, rank, disk', size', acked \cup saved \cup {op.entry})
<1> DEFINE found == acked \cup saved \cup {op.entry}
<1>1. size \in Nat
  BY DEF Typed
<1>2. size' = size + 1 /\ disk'[0] = disk[0]
      /\ \A p \in Pages(size') : disk'[p] = IF p = s THEN page ELSE disk[p]
  <2>1. size \in 0..size
    BY <1>1
  <2> QED BY <2>1, Wrote
<1>3. s \in Pages(size') /\ s \notin DOMAIN rank /\ size' \in Nat /\ size <= size'
      /\ \A p \in Pages(size) : p \in Pages(size') /\ p # s
  BY <1>1, <1>2 DEF Strung, Pages
<1>4. found \subseteq OnLeaves(rank, disk)
  OBVIOUS
<1> HIDE DEF found
<1>5. Bearing(live \cup {s}, top, rank, disk', size', found)
  BY <1>1, <1>2, <1>3, <1>4, NonLeafWritten
<1> QED BY <1>2, <1>3, <1>5 DEF found

\* The sibling of a split non-leaf does not lead to the page whose separator caused
\* the split, so it does not matter whether the tree does.
LEMMA SplitNonLeafAdds ==
  ASSUME NEW live, NEW spine, NEW rank, Typed, SplitNonLeaf,
         Strung(rank, disk, size), Woven(live, spine, rank, disk, size), Rooted(spine),
         HeldIn(live, spine, op.held),
         acked \cup saved \subseteq OnLeaves(rank, disk), op.entry \in OnLeaves(rank, disk)
  PROVE  \E more : Chained(more, spine, rank)' /\ \A p \in more : p \in live \/ p = size
<1> PICK s : s = size
  OBVIOUS
<1> DEFINE a    == Parent.pid
           node == Parent.node
           cut  == NonLeafSplit(node, op.over)
           n    == Len(op.held)
           held == SubSeq(op.held, 1, n - 1)
           more == live \cup {s}
<1>1. op.pc = "up" /\ op.held # <<>> /\ NonLeafFull(node) /\ WritePage(size, cut.right)
      /\ op' = [pc |-> "left", entry |-> op.entry, held |-> held, at |-> a, page |-> cut.left,
                over |-> [key |-> cut.key, pid |-> size]]
      /\ UNCHANGED <<obj, acked, saved>>
  BY DEF SplitNonLeaf
<1>2. a \in live /\ a \in Pages(size) /\ NodeIn(live, spine, a, node)
  <2>1. op.held \in Seq(HeldPage) /\ \A i \in 1..Len(op.held) : op.held[i].pid \in Pages(size)
    BY <1>1 DEF Typed
  <2>2. Len(op.held) \in 1..Len(op.held)
    BY <1>1, <2>1, EmptySeq
  <2> QED BY <2>1, <2>2 DEF Parent, HeldIn
<1>3. node \in NonLeafNode(Key, live) /\ (a \in spine => node.first \in spine)
      /\ size \in Nat /\ size > 0
  BY <1>2 DEF NodeIn, Typed, Pages
<1>4. cut.left \in NonLeafNode(Key, live) /\ cut.right \in NonLeafNode(Key, live)
  <2> DEFINE e == [key |-> op.over.key, pid |-> node.first]
  <2>1. cut = NonLeafSplit(node, e)
    BY <1>1 DEF NonLeafSplit, NonLeafInsert
  <2>2. e \in Separator(Key, live)
    BY <1>1, <1>3 DEF Typed, Separator, NonLeafNode
  <2> HIDE DEF cut, e
  <2> QED BY <1>1, <1>3, <2>1, <2>2, EntryKeyed, NonLeafSplitType
<1>5. cut.left.first = node.first
  BY <1>3 DEF NonLeafSplit, NonLeafNode
<1>6. op.held \in Seq(HeldPage) /\ HeldIn(live, spine, op.held) /\ n \in Nat /\ n > 0
  <2>1. op.held \in Seq(HeldPage)
    BY <1>1 DEF Typed
  <2> QED BY <1>1, <2>1, EmptySeq
<1>7. Len(held) = n - 1 /\ \A i \in 1..(n - 1) : held[i] = op.held[i]
  <2>1. 1 \in Nat \ {0} /\ n - 1 \in 0..Len(op.held) /\ 1 <= (n - 1) + 1
    BY <1>6
  <2>2. Len(held) = (n - 1) - 1 + 1 /\ \A i \in 1..((n - 1) - 1 + 1) : held[i] = op.held[1 + i - 1]
    BY <1>6, <2>1, SubSeqPlaces
  <2>3. (n - 1) - 1 + 1 = n - 1 /\ \A i \in 1..(n - 1) : 1 + i - 1 = i
    BY <1>6
  <2> HIDE DEF held
  <2> QED BY <2>2, <2>3
<1> HIDE DEF held, cut, a, node
<1>8. HeldIn(more, spine, held)
  <2>1. \A i \in 1..Len(held) : i \in 1..n /\ held[i] = op.held[i]
    BY <1>6, <1>7
  <2>2. HeldIn(live, spine, held)
    BY <1>6, <2>1 DEF HeldIn
  <2> QED BY <2>2, HeldInMore
<1>9. s \notin spine
  BY <1>3 DEF Woven, Pages
<1>10. /\ size' = size + 1 /\ disk'[0] = disk[0]
       /\ Bearing(more, spine, rank, disk', size', acked \cup saved \cup {op.entry})
  <2>1. spine \subseteq spine /\ spine \subseteq spine \cup {s} /\ WritePage(size, cut.right)
    BY <1>1
  <2> QED BY <1>3, <1>4, <1>9, <2>1, NonLeafAdded, ZenonT(30)
<1>11. NodeIn(more, spine, a, cut.left)
  BY <1>3, <1>4, <1>5, NonLeafMono DEF NodeIn
<1>12. Going(more, spine, rank, disk', size', op')
  <2>1. cut.left.kind = "nonleaf"
    BY <1>4 DEF NonLeafNode
  <2> QED BY <1>1, <1>2, <1>8, <1>10, <1>11, <2>1 DEF Going, Bearing
<1>13. Rooted(spine)'
  BY <1>1, <1>3, <1>10 DEF Rooted
<1>14. Chained(more, spine, rank)'
  BY <1>1, <1>10, <1>12, <1>13 DEF Chained, Bearing
<1>15. \A p \in more : p \in live \/ p = size
  OBVIOUS
<1> HIDE DEF more
<1> QED BY <1>14, <1>15

LEMMA SplitNonLeafChained ==
  ASSUME NEW live, NEW spine, NEW rank, Chained(live, spine, rank), Typed, SplitNonLeaf
  PROVE  \E more : Chained(more, spine, rank)' /\ \A p \in more : p \in live \/ p = size
<1>1. op.pc = "up"
  BY DEF SplitNonLeaf
<1> QED BY <1>1, SplitNonLeafAdds DEF Chained, Going

LEMMA NewRootChained ==
  ASSUME NEW live, NEW spine, NEW rank, Chained(live, spine, rank), Typed, NewRoot
  PROVE  \E more, top : Chained(more, top, rank)' /\ \A p \in more : p \in live \/ p = size
<1> PICK s : s = size
  OBVIOUS
<1> DEFINE page == InitializeRoot(obj.root, op.over.key, op.over.pid)
           top  == spine \cup {s}
           more == live \cup {s}
<1>1. op.pc = "up" /\ WritePage(size, page) /\ obj' = [obj EXCEPT !.root = size, !.height = @ + 1]
      /\ op' = Idle /\ acked' = acked \cup {op.entry} /\ saved' = saved
  BY DEF NewRoot, Return
<1>2. obj.height > 0 /\ obj.height \in Nat /\ obj.mode = "w" /\ obj \in ObjType
      /\ size \in Nat /\ size > 0
  BY <1>1 DEF Typed, ObjType, Inserting
<1>3. obj.root \in spine /\ obj.root \in live
  BY <1>2 DEF Chained, Rooted, Woven
<1>4. op.over \in Separator(Key, live) /\ op.entry \in OnLeaves(rank, disk)
  BY <1>1 DEF Typed, Chained, Going, Separator
<1>5. page \in NonLeafNode(Key, live) /\ page.first = obj.root
  <2>1. [key |-> op.over.key, pid |-> op.over.pid] \in Separator(Key, live)
    BY <1>4 DEF Separator
  <2>2. <<[key |-> op.over.key, pid |-> op.over.pid]>> \in Seq(Separator(Key, live))
    BY <2>1
  <2> QED BY <1>3, <2>2 DEF InitializeRoot, NonLeafNode
<1> HIDE DEF page
<1>6. spine \subseteq top /\ top \subseteq spine \cup {s}
  OBVIOUS
<1> HIDE DEF top
<1>7. /\ size' = size + 1 /\ disk'[0] = disk[0]
      /\ Bearing(more, top, rank, disk', size', acked \cup saved \cup {op.entry})
  <2>1. Strung(rank, disk, size) /\ Woven(live, spine, rank, disk, size)
        /\ acked \cup saved \subseteq OnLeaves(rank, disk)
    BY DEF Chained
  <2> QED BY <1>1, <1>2, <1>3, <1>4, <1>5, <1>6, <2>1, NonLeafAdded, ZenonT(30)
<1>8. Going(more, top, rank, disk', size', op')
  BY <1>1 DEF Going, Idle
<1>9. obj'.root = size /\ obj'.height > 0 /\ obj'.mode = "w"
  BY <1>1, <1>2 DEF ObjType
<1>10. Rooted(top)'
  BY <1>1, <1>2, <1>7, <1>9 DEF Chained, Rooted, top
<1>11. Chained(more, top, rank)'
  BY <1>1, <1>7, <1>8, <1>10 DEF Chained, Bearing
<1>12. \A p \in more : p \in live \/ p = size
  OBVIOUS
<1> HIDE DEF more
<1> QED BY <1>11, <1>12

LEMMA NextKeepsChain == CInv /\ [Next]_vars => CInv'
<1> SUFFICES ASSUME CInv, [Next]_vars PROVE CInv'
  OBVIOUS
<1>1. IInv' /\ Typed /\ Books
  BY NextKeeps, IsTyped DEF CInv, IInv
<1>2. PICK live, spine, rank : Chained(live, spine, rank)
  BY DEF CInv
<1> DEFINE Kept == \E l, t, r : Chained(l, t, r)'
<1>3. Chained(live, spine, rank)' => Kept
  OBVIOUS
<1>4. Kept => CInv'
  BY <1>1 DEF CInv
<1> HIDE DEF Kept
<1>5. CASE UNCHANGED vars
  <2>1. Chained(live, spine, rank)'
    BY <1>2, <1>5 DEF vars, Chained, Rooted
  <2> QED BY <1>3, <1>4, <2>1
<1>6. CASE OpenNew \/ Open("r") \/ Open("w")
  BY <1>1, <1>2, <1>3, <1>4, <1>6, OpensChained
<1>7. CASE Close
  BY <1>1, <1>2, <1>3, <1>4, <1>7, CloseChained
<1>8. CASE CloseFails \/ Abandon \/ InsertFails
  BY <1>1, <1>2, <1>3, <1>4, <1>8, EndsChained
<1>9. CASE \E e \in Entry : InsertCall(e)
  BY <1>1, <1>2, <1>3, <1>4, <1>9, InsertCallChained
<1>10. CASE InsertStep
  <2>1. CASE InsertFirst
    <3>1. Kept
      BY <1>1, <1>2, <2>1, InsertFirstChained DEF Kept
    <3> QED BY <1>4, <3>1
  <2>2. CASE Descend
    BY <1>1, <1>2, <1>3, <1>4, <2>2, DescendChained
  <2>3. CASE InsertInLeaf
    BY <1>1, <1>2, <1>3, <1>4, <2>3, InsertInLeafChained
  <2>4. CASE SplitLeaf
    BY <1>1, <1>2, <1>3, <1>4, <2>4, SplitLeafChained
  <2>5. CASE WriteLeft
    <3>1. Kept
      BY <1>1, <1>2, <2>5, WriteLeftChained DEF Kept
    <3> QED BY <1>4, <3>1
  <2>6. CASE InsertInNonLeaf
    BY <1>1, <1>2, <1>3, <1>4, <2>6, InsertInNonLeafChained
  <2>7. CASE SplitNonLeaf
    <3>1. Kept
      BY <1>1, <1>2, <2>7, SplitNonLeafChained DEF Kept
    <3> QED BY <1>4, <3>1
  <2>8. CASE NewRoot
    <3>1. Kept
      BY <1>1, <1>2, <2>8, NewRootChained DEF Kept
    <3> QED BY <1>4, <3>1
  <2> QED BY <1>10, <2>1, <2>2, <2>3, <2>4, <2>5, <2>6, <2>7, <2>8 DEF InsertStep
<1>11. CASE (\E k \in Key : LocateCall(k)) \/ SeekDown \/ SeekLeaf \/ ReadForward
  BY <1>1, <1>2, <1>3, <1>4, <1>11, SearchesChained
<1> QED BY <1>5, <1>6, <1>7, <1>8, <1>9, <1>10, <1>11 DEF Next

LEMMA ChainInductive == Spec => []CInv
<1>1. Init => CInv
  BY InitLevelled, InitChained DEF CInv
<1> QED BY <1>1, NextKeepsChain, PTL DEF Spec

-----------------------------------------------------------------------------
(* What Chain and Leftmost compute.  Each is the function its recursive    *)
(* definition asks for because there is one.                               *)

After(pid) == IF pid = 0 THEN 0 ELSE disk[pid].next

LEMMA ChainExists ==
  ASSUME NEW leaf, NEW n \in Nat
  PROVE  \E f : f = [i \in 0..n |-> IF i = 0 THEN leaf ELSE After(f[i - 1])]
<1> DEFINE P(m) == \E f : f = [i \in 0..m |-> IF i = 0 THEN leaf ELSE After(f[i - 1])]
           Bad  == {m \in Nat : ~P(m)}
<1>1. P(0)
  <2> DEFINE f == [i \in 0..0 |-> leaf]
  <2>1. f = [i \in 0..0 |-> IF i = 0 THEN leaf ELSE After(f[i - 1])]
    OBVIOUS
  <2> QED BY <2>1
<1>2. ASSUME NEW m \in Nat, P(m) PROVE P(m + 1)
  <2>1. PICK f : f = [i \in 0..m |-> IF i = 0 THEN leaf ELSE After(f[i - 1])]
    BY <1>2
  <2> DEFINE g == [i \in 0..(m + 1) |-> IF i = m + 1 THEN After(f[m]) ELSE f[i]]
  <2>2. \A i \in 0..m : f[i] = (IF i = 0 THEN leaf ELSE After(f[i - 1])) /\ g[i] = f[i]
    BY <2>1
  <2>3. g[m + 1] = After(g[m])
    BY <2>2
  <2>4. \A i \in 0..(m + 1) : g[i] = IF i = 0 THEN leaf ELSE After(g[i - 1])
    <3> SUFFICES ASSUME NEW i \in 0..(m + 1) PROVE g[i] = IF i = 0 THEN leaf ELSE After(g[i - 1])
      OBVIOUS
    <3> HIDE DEF g
    <3>1. CASE i = m + 1
      BY <2>3, <3>1
    <3>2. CASE i \in 0..m
      BY <2>2, <3>2
    <3> QED BY <3>1, <3>2
  <2>5. g = [i \in 0..(m + 1) |-> g[i]]
    OBVIOUS
  <2> HIDE DEF g
  <2>6. g = [i \in 0..(m + 1) |-> IF i = 0 THEN leaf ELSE After(g[i - 1])]
    BY <2>4, <2>5
  <2> QED BY <2>6
<1> HIDE DEF P
<1>3. Bad = {}
  <2> SUFFICES ASSUME Bad # {} PROVE FALSE
    OBVIOUS
  <2>1. PICK m \in Bad : \A k \in Bad : m <= k
    BY MinExists
  <2>2. m # 0 /\ m - 1 \in Nat /\ P(m - 1)
    BY <1>1, <2>1
  <2>3. P((m - 1) + 1)
    BY <1>2, <2>2
  <2> QED BY <2>1, <2>3
<1>4. P(n)
  BY <1>3
<1> QED BY <1>4 DEF P

LEMMA ChainIs ==
  ASSUME NEW leaf, size \in Nat, NEW f, f = Chain(leaf)
  PROVE  f = [i \in 0..size |-> IF i = 0 THEN leaf ELSE After(f[i - 1])]
<1>1. PICK g : g = [i \in 0..size |-> IF i = 0 THEN leaf ELSE After(g[i - 1])]
  BY ChainExists
<1> QED BY <1>1 DEF Chain, After

\* From a leaf on, the chain loses one rank at each step, and then it is at 0.
LEMMA ChainRuns ==
  ASSUME size \in Nat, NEW rank, Strung(rank, disk, size), NEW leaf \in DOMAIN rank
  PROVE  /\ Chain(leaf)[size] = 0
         /\ \A p \in DOMAIN rank : rank[p] <= rank[leaf] => \E i \in 0..size : Chain(leaf)[i] = p
         /\ \A i \in 0..size : Chain(leaf)[i] # 0 =>
              Chain(leaf)[i] \in DOMAIN rank /\ rank[Chain(leaf)[i]] <= rank[leaf]
<1> DEFINE m    == rank[leaf]
           f    == Chain(leaf)
           Q(i) == IF i <= m THEN f[i] \in DOMAIN rank /\ rank[f[i]] = m - i ELSE f[i] = 0
           Bad  == {i \in 0..size : ~Q(i)}
<1>1. \A p \in DOMAIN rank : /\ p # 0 /\ rank[p] \in Nat
                             /\ disk[p].next \in DOMAIN rank \cup {0}
                             /\ disk[p].next = 0 => rank[p] = 0
                             /\ disk[p].next # 0 => rank[disk[p].next] = rank[p] - 1
  BY DEF Strung, LeafNode, Pages
<1>2. m \in Nat /\ m < size
  <2>1. Cardinality(DOMAIN rank) \in Nat /\ Cardinality(DOMAIN rank) <= (IF size = 0 THEN 0 ELSE size - 1)
    BY PagesAreFinite DEF Strung
  <2>2. m \in Nat /\ m < Cardinality(DOMAIN rank)
    BY DEF Strung
  <2> QED BY <2>1, <2>2
<1>3. \A i \in 0..size : f[i] = IF i = 0 THEN leaf ELSE After(f[i - 1])
  BY ChainIs
<1> HIDE DEF f
<1>4. Q(0)
  BY <1>2, <1>3
<1> HIDE DEF m
<1>5. ASSUME NEW i \in 1..size, Q(i - 1) PROVE Q(i)
  <2>1. f[i] = After(f[i - 1]) /\ i \in Nat
    BY <1>3
  <2>2. CASE i - 1 <= m
    <3> DEFINE p == f[i - 1]
               q == f[i]
    <3>1. p \in DOMAIN rank /\ rank[p] = m - (i - 1) /\ q = After(p)
      BY <1>5, <2>1, <2>2
    <3> HIDE DEF p, q
    <3>2. q = disk[p].next
      BY <1>1, <3>1 DEF After
    <3>3. q = 0 => i = m + 1
      <4>1. q = 0 => rank[p] = 0
        BY <1>1, <3>1, <3>2
      <4> QED BY <1>2, <2>1, <3>1, <4>1
    <3>4. q # 0 => q \in DOMAIN rank /\ rank[q] = m - i /\ rank[q] \in Nat
      <4>1. q # 0 => q \in DOMAIN rank /\ rank[q] = rank[p] - 1 /\ rank[q] \in Nat
        BY <1>1, <3>1, <3>2
      <4> QED BY <1>2, <2>1, <3>1, <4>1
    <3> QED BY <1>2, <2>1, <3>3, <3>4 DEF q
  <2>3. CASE ~(i - 1 <= m)
    <3>1. f[i - 1] = 0 /\ ~(i <= m)
      BY <1>2, <1>5, <2>1, <2>3
    <3> QED BY <2>1, <3>1 DEF After
  <2> QED BY <2>2, <2>3
<1> HIDE DEF Q
<1>6. Bad = {}
  <2> SUFFICES ASSUME Bad # {} PROVE FALSE
    OBVIOUS
  <2>0. Bad \in SUBSET Nat
    OBVIOUS
  <2>1. PICK i \in Bad : \A k \in Bad : i <= k
    <3> HIDE DEF Bad
    <3> QED BY <2>0, MinExists
  <2>2. i \in 1..size /\ i - 1 \in 0..size /\ i - 1 < i
    BY <1>4, <2>1
  <2>3. Q(i - 1)
    BY <2>1, <2>2
  <2> QED BY <1>5, <2>1, <2>2, <2>3
<1>7. \A i \in 0..size : Q(i)
  BY <1>6
<1>8. f[size] = 0
  BY <1>2, <1>7 DEF Q
<1>9. ASSUME NEW p \in DOMAIN rank, rank[p] <= m PROVE \E i \in 0..size : f[i] = p
  <2>1. rank[p] \in Nat
    BY <1>1
  <2>2. m - rank[p] \in 0..size /\ m - rank[p] <= m /\ m - (m - rank[p]) = rank[p]
    BY <1>2, <1>9, <2>1
  <2>3. f[m - rank[p]] \in DOMAIN rank /\ rank[f[m - rank[p]]] = rank[p]
    BY <1>7, <2>2 DEF Q
  <2>4. f[m - rank[p]] = p
    BY <2>3 DEF Strung
  <2> QED BY <2>2, <2>4
<1>10. \A i \in 0..size : f[i] # 0 => f[i] \in DOMAIN rank /\ rank[f[i]] <= m
  <2> SUFFICES ASSUME NEW i \in 0..size, f[i] # 0 PROVE f[i] \in DOMAIN rank /\ rank[f[i]] <= m
    OBVIOUS
  <2>1. f[i] \in DOMAIN rank /\ rank[f[i]] = m - i
    BY <1>7 DEF Q
  <2> QED BY <1>2, <2>1
<1> QED BY <1>8, <1>9, <1>10 DEF f, m

FirstChild(pid) == disk[pid].first

LEMMA LeftmostIs ==
  ASSUME NEW root, NEW height \in Nat \ {0}
  PROVE  \E f : /\ f = [i \in 1..height |-> IF i = 1 THEN root ELSE FirstChild(f[i - 1])]
                /\ Leftmost(root, height) = f[height]
<1> DEFINE P(m) == \E f : f = [i \in 1..m |-> IF i = 1 THEN root ELSE FirstChild(f[i - 1])]
           Bad  == {m \in Nat \ {0} : ~P(m)}
<1>1. P(1)
  <2> DEFINE f == [i \in 1..1 |-> root]
  <2>1. f = [i \in 1..1 |-> IF i = 1 THEN root ELSE FirstChild(f[i - 1])]
    OBVIOUS
  <2> QED BY <2>1
<1>2. ASSUME NEW m \in Nat \ {0}, P(m) PROVE P(m + 1)
  <2>1. PICK f : f = [i \in 1..m |-> IF i = 1 THEN root ELSE FirstChild(f[i - 1])]
    BY <1>2
  <2> DEFINE g == [i \in 1..(m + 1) |-> IF i = m + 1 THEN FirstChild(f[m]) ELSE f[i]]
  <2>2. \A i \in 1..m : f[i] = (IF i = 1 THEN root ELSE FirstChild(f[i - 1])) /\ g[i] = f[i]
    BY <2>1
  <2>3. g[m + 1] = FirstChild(g[m])
    BY <2>2
  <2>4. \A i \in 1..(m + 1) : g[i] = IF i = 1 THEN root ELSE FirstChild(g[i - 1])
    <3> SUFFICES ASSUME NEW i \in 1..(m + 1)
                 PROVE  g[i] = IF i = 1 THEN root ELSE FirstChild(g[i - 1])
      OBVIOUS
    <3> HIDE DEF g
    <3>1. CASE i = m + 1
      BY <2>3, <3>1
    <3>2. CASE i \in 1..m
      BY <2>2, <3>2
    <3> QED BY <3>1, <3>2
  <2>5. g = [i \in 1..(m + 1) |-> g[i]]
    OBVIOUS
  <2> HIDE DEF g
  <2>6. g = [i \in 1..(m + 1) |-> IF i = 1 THEN root ELSE FirstChild(g[i - 1])]
    BY <2>4, <2>5
  <2> QED BY <2>6
<1> HIDE DEF P
<1>3. Bad = {}
  <2> SUFFICES ASSUME Bad # {} PROVE FALSE
    OBVIOUS
  <2>1. PICK m \in Bad : \A k \in Bad : m <= k
    BY MinExists
  <2>2. m # 1 /\ m - 1 \in Nat \ {0} /\ P(m - 1)
    BY <1>1, <2>1
  <2>3. P((m - 1) + 1)
    BY <1>2, <2>2
  <2> QED BY <2>1, <2>3
<1>4. \E g : g = [i \in 1..height |-> IF i = 1 THEN root ELSE FirstChild(g[i - 1])]
  <2>1. P(height)
    BY <1>3
  <2> QED BY <2>1 DEF P
<1> DEFINE f == CHOOSE page : page = [i \in 1..height |-> IF i = 1 THEN root ELSE FirstChild(page[i - 1])]
<1>5. f = [i \in 1..height |-> IF i = 1 THEN root ELSE FirstChild(f[i - 1])]
  BY <1>4
<1>6. Leftmost(root, height) = f[height]
  BY DEF Leftmost, FirstChild
<1> HIDE DEF f
<1> QED BY <1>5, <1>6

\* The leftmost leaf of a tree whose root is on the spine is the head of the chain.
LEMMA LeftmostIsHead ==
  ASSUME NEW lvl \in Levels(size), Levelled(lvl),
         NEW live, NEW spine, NEW rank, Chained(live, spine, rank),
         NEW root \in spine, NEW height \in Nat \ {0}, root \in At(lvl, height),
         NEW head, head = Leftmost(root, height)
  PROVE  head \in DOMAIN rank /\ \A q \in DOMAIN rank : rank[q] <= rank[head]
<1>1. PICK f : /\ f = [i \in 1..height |-> IF i = 1 THEN root ELSE FirstChild(f[i - 1])]
               /\ head = f[height]
  BY LeftmostIs
<1> DEFINE Q(i) == f[i] \in spine /\ f[i] \in At(lvl, height - i + 1)
           Bad  == {i \in 1..height : ~Q(i)}
<1>2. \A i \in 1..height : f[i] = IF i = 1 THEN root ELSE FirstChild(f[i - 1])
  BY <1>1
<1>3. spine \subseteq live /\ live \subseteq Pages(size) /\ DOMAIN lvl = Pages(size)
  BY DEF Chained, Woven, Levels, Pages
<1>4. Q(1)
  <2>1. height - 1 + 1 = height
    OBVIOUS
  <2> QED BY <1>2, <2>1
<1>5. ASSUME NEW i \in 2..height, Q(i - 1) PROVE Q(i)
  <2> DEFINE p == f[i - 1]
             l == height - (i - 1) + 1
  <2>1. p \in spine /\ p \in live /\ p \in At(lvl, l) /\ f[i] = disk[p].first
    BY <1>2, <1>3, <1>5 DEF FirstChild
  <2>2. l # 1 /\ l \in Nat \ {0} /\ l - 1 = height - i + 1
    OBVIOUS
  <2> HIDE DEF p, l
  <2>3. disk[p] \in NodeAt(lvl, l)
    BY <2>1 DEF Levelled, Store, At, Levels
  <2>4. disk[p] \in NonLeafNode(Key, At(lvl, l - 1))
    BY <2>2, <2>3 DEF NodeAt
  <2>5. disk[p].kind # "leaf" /\ disk[p].first \in At(lvl, l - 1)
    BY <2>4 DEF NonLeafNode
  <2>6. NodeIn(live, spine, p, disk[p])
    BY <2>1, <2>5 DEF Chained, Woven
  <2> QED BY <2>1, <2>2, <2>5, <2>6 DEF NodeIn
<1> HIDE DEF Q
<1>6. Bad = {}
  <2> SUFFICES ASSUME Bad # {} PROVE FALSE
    OBVIOUS
  <2>0. Bad \in SUBSET Nat
    OBVIOUS
  <2>1. PICK i \in Bad : \A k \in Bad : i <= k
    <3> HIDE DEF Bad
    <3> QED BY <2>0, MinExists
  <2>2. i \in 2..height /\ i - 1 \in 1..height /\ i - 1 < i
    BY <1>4, <2>1
  <2>3. Q(i - 1)
    BY <2>1, <2>2
  <2> QED BY <1>5, <2>1, <2>2, <2>3
<1>7. head \in spine /\ head \in At(lvl, 1)
  <2>1. height - height + 1 = 1 /\ height \in 1..height
    OBVIOUS
  <2> QED BY <1>1, <1>6, <2>1 DEF Q
<1>8. disk[head].kind = "leaf"
  BY <1>7 DEF Levelled, Store, At, Levels, NodeAt, LeafNode
<1> QED BY <1>3, <1>7, <1>8 DEF Chained, Woven

-----------------------------------------------------------------------------
(* What the chain gives.                                                   *)

\* The chain from the leftmost leaf of a tree ends and holds every entry.
LEMMA ChainFromTree ==
  ASSUME size > 0, NEW lvl \in Levels(size), Levelled(lvl),
         NEW live, NEW spine, NEW rank, Chained(live, spine, rank),
         NEW t \in {OnDisk, Tree}, t.height > 0
  PROVE  /\ Chain(Leftmost(t.root, t.height))[size] = 0
         /\ OnLeaves(rank, disk) \subseteq ChainEntries(Leftmost(t.root, t.height))
         /\ saved \subseteq ChainEntries(Leftmost(t.root, t.height))
<1>1. t.root \in spine /\ t.root \in At(lvl, t.height) /\ t.height \in Nat \ {0}
  <2>1. CASE t = OnDisk
    <3>1. t.root = disk[0].root /\ t.height = disk[0].height
      BY <2>1 DEF OnDisk
    <3>2. disk[0].root \in At(lvl, disk[0].height) /\ disk[0].height \in Nat
      BY <3>1 DEF Levelled, Store, HeaderType
    <3> QED BY <3>1, <3>2 DEF Chained, Rooted
  <2>2. CASE t # OnDisk
    <3>1. t.root = obj.root /\ t.height = obj.height
      BY <2>2 DEF Tree
    <3>2. obj.root \in At(lvl, obj.height) /\ obj.height \in Nat
      BY <3>1 DEF Levelled, Object, ObjType
    <3> QED BY <3>1, <3>2 DEF Chained, Rooted
  <2> QED BY <2>1, <2>2
<1> DEFINE head == Leftmost(t.root, t.height)
<1>2. head \in DOMAIN rank /\ \A q \in DOMAIN rank : rank[q] <= rank[head]
  BY <1>1, LeftmostIsHead
<1> HIDE DEF head
<1>3. size \in Nat /\ Strung(rank, disk, size)
  BY DEF Levelled, Store, Chained
<1>4. /\ Chain(head)[size] = 0
      /\ \A p \in DOMAIN rank : \E i \in 0..size : Chain(head)[i] = p
  BY <1>2, <1>3, ChainRuns
<1>5. OnLeaves(rank, disk) \subseteq ChainEntries(head)
  <2> SUFFICES ASSUME NEW x \in OnLeaves(rank, disk) PROVE x \in ChainEntries(head)
    OBVIOUS
  <2>1. PICK p \in DOMAIN rank : x \in Members(disk[p].ents)
    BY DEF OnLeaves
  <2>2. p \in {Chain(head)[i] : i \in 0..size} \ {0}
    BY <1>3, <1>4 DEF Strung, Pages
  <2>3. x \in Entries(disk[p].ents)
    BY <2>1 DEF Entries, Members
  <2> QED BY <2>2, <2>3 DEF ChainEntries
<1>6. saved \subseteq ChainEntries(head)
  BY <1>5 DEF Chained
<1> QED BY <1>4, <1>5, <1>6 DEF head

\* A scan of the leaves ends, though splits were cut short and headers are old: the
\* next pointers have no cycle.
THEOREM ChainsEnd == Spec => []ChainEnds
<1>1. CInv => ChainEnds
  <2> SUFFICES ASSUME CInv, size > 0, NEW t \in {OnDisk, Tree}, t.height > 0
               PROVE  Chain(Leftmost(t.root, t.height))[size] = 0
    BY DEF ChainEnds
  <2>1. PICK lvl \in Levels(size) : Levelled(lvl)
    BY DEF CInv, IInv
  <2>2. PICK live, spine, rank : Chained(live, spine, rank)
    BY DEF CInv
  <2> QED BY <2>1, <2>2, ChainFromTree
<1> QED BY <1>1, ChainInductive, PTL

\* What was inserted before a close is met by a scan of the leaves ever after, though
\* later writers die between the two writes of a split or leave an old header.
THEOREM SavedStaysOnChain == Spec => []SavedOnChain
<1>1. CInv => SavedOnChain
  <2> SUFFICES ASSUME CInv, saved # {}
               PROVE  OnDisk.height > 0
                      /\ saved \subseteq ChainEntries(Leftmost(OnDisk.root, OnDisk.height))
    BY DEF SavedOnChain
  <2>1. PICK lvl \in Levels(size) : Levelled(lvl)
    BY DEF CInv, IInv
  <2>2. PICK live, spine, rank : Chained(live, spine, rank)
    BY DEF CInv
  <2>3. size > 0
    BY <2>1 DEF CInv, IInv, Books, Levelled, Store
  <2>4. OnDisk.height > 0
    BY <2>2 DEF Chained, Rooted, OnDisk
  <2> QED BY <2>1, <2>2, <2>3, <2>4, ChainFromTree
<1> QED BY <1>1, ChainInductive, PTL

-----------------------------------------------------------------------------
(* The chain: C are its leaves, d the pages, c the operation in progress.  *)

\* Entry e is not on the chain.
NotYet(C, d, e) == \A p \in C : e \notin Members(d[p].ents)

\* Every entry once.  The entry of an insert is not yet there, until the leaf is
\* written; the sibling written before its leaf has what it will have then.
Once(C, d, c) ==
  /\ \A p \in C : Len(d[p].ents) > 0 /\ Single(d[p].ents)
  /\ \A p, q \in C : p # q => Apart(d[p].ents, d[q].ents)
  /\ c.pc \in {"first", "down"} => NotYet(C, d, c.entry)
  /\ c.pc = "left" /\ c.page.kind = "leaf" =>
       /\ NotYet(C, d, c.entry)
       /\ c.at \in C /\ c.over.pid \notin C
       /\ Parted(d[c.at].ents, c.entry, c.page.ents, d[c.over.pid].ents)

\* Of an operation that is searching, or has no leaf to write any more.
Settled(c) == c.pc \notin {"first", "down", "left"} \/ (c.pc = "left" /\ c.page.kind # "leaf")

\* A step that changes no leaf of the chain.
LEMMA SettledOnce ==
  ASSUME NEW C, NEW d, NEW c, Once(C, d, c), NEW e, \A p \in C : e[p] = d[p],
         NEW b, Settled(b)
  PROVE  Once(C, e, b)
BY DEF Once, Settled

\* A leaf that is not full gets its entry.
LEMMA LeafGetsEntry ==
  ASSUME NEW C, NEW d, NEW c, Once(C, d, c), NEW a \in C, d[a].ents \in Seq(Entry),
         NEW x \in Entry, NotYet(C, d, x),
         NEW page, page.ents = Insert(d[a].ents, x),
         NEW e, \A p \in C : e[p] = IF p = a THEN page ELSE d[p],
         NEW b, Settled(b)
  PROVE  Once(C, e, b)
<1>1. Single(page.ents)
  BY EntryKeyed, InsertSingle DEF Once, NotYet
<1>2. Members(page.ents) = Members(d[a].ents) \cup {x}
  BY EntryKeyed, InsertMembers
<1>3. Len(page.ents) > 0
  <2>1. Len(page.ents) = Len(d[a].ents) + 1
    BY EntryKeyed, InsertType, SMTT(30)
  <2> QED BY <2>1
<1>4. \A p \in C : Len(e[p].ents) > 0 /\ Single(e[p].ents)
  BY <1>1, <1>3 DEF Once
<1>5. \A p, q \in C : p # q => Apart(e[p].ents, e[q].ents)
  <2> SUFFICES ASSUME NEW p \in C, NEW q \in C, p # q PROVE Apart(e[p].ents, e[q].ents)
    OBVIOUS
  <2>1. Apart(d[p].ents, d[q].ents) /\ x \notin Members(d[p].ents) /\ x \notin Members(d[q].ents)
    BY DEF Once, NotYet
  <2>2. \A y \in Members(e[p].ents) : y \in Members(d[p].ents) \/ (p = a /\ y = x)
    BY <1>2
  <2>3. \A y \in Members(e[q].ents) : y \in Members(d[q].ents) \/ (q = a /\ y = x)
    BY <1>2
  <2> QED BY <2>1, <2>2, <2>3 DEF Apart
<1> QED BY <1>4, <1>5 DEF Once, Settled

\* The split leaf is written: the sibling is on the chain.
LEMMA HalvesLinked ==
  ASSUME NEW C, NEW d, NEW c, Once(C, d, c), c.pc = "left", c.page.kind = "leaf",
         NEW e, \A p \in C \cup {c.over.pid} : e[p] = IF p = c.at THEN c.page ELSE d[p],
         NEW b, Settled(b)
  PROVE  Once(C \cup {c.over.pid}, e, b)
<1> DEFINE a == c.at  new == c.over.pid  x == c.entry
<1>1. NotYet(C, d, x) /\ a \in C /\ new \notin C
      /\ Parted(d[a].ents, x, c.page.ents, d[new].ents)
  BY DEF Once
<1>2. e[a] = c.page /\ e[new] = d[new] /\ \A p \in C : p # a => e[p] = d[p]
  BY <1>1
<1> HIDE DEF a, new, x
<1>3. \A p \in C \cup {new} : Len(e[p].ents) > 0 /\ Single(e[p].ents)
  BY <1>1, <1>2 DEF Once, Parted
<1>4. /\ \A y \in Members(e[a].ents) : y \in Members(d[a].ents) \/ y = x
      /\ \A y \in Members(e[new].ents) : y \in Members(d[a].ents) \/ y = x
  BY <1>1, <1>2 DEF Parted
<1>5. \A p, q \in C \cup {new} : p # q => Apart(e[p].ents, e[q].ents)
  <2> SUFFICES ASSUME NEW p \in C \cup {new}, NEW q \in C \cup {new}, p # q
               PROVE  Apart(e[p].ents, e[q].ents)
    OBVIOUS
  <2>1. \A r \in C : r # a => /\ e[r].ents = d[r].ents /\ x \notin Members(d[r].ents)
                              /\ \A y \in Members(d[r].ents) : y \notin Members(d[a].ents)
    BY <1>1, <1>2 DEF Once, NotYet, Apart
  <2>2. CASE p \in {a, new} /\ q \in {a, new}
    BY <1>1, <1>2, <2>2 DEF Parted, Apart
  <2>3. CASE p \notin {a, new} /\ q \notin {a, new}
    BY <1>2, <2>3 DEF Once
  <2>4. CASE p \in {a, new} /\ q \notin {a, new}
    BY <1>4, <2>1, <2>4 DEF Apart
  <2>5. CASE p \notin {a, new} /\ q \in {a, new}
    BY <1>4, <2>1, <2>5 DEF Apart
  <2> QED BY <2>2, <2>3, <2>4, <2>5
<1>6. \A p, q \in C \cup {c.over.pid} : p # q => Apart(e[p].ents, e[q].ents)
  BY <1>5 DEF new
<1>7. \A p \in C \cup {c.over.pid} : Len(e[p].ents) > 0 /\ Single(e[p].ents)
  BY <1>3 DEF new
<1> QED BY <1>6, <1>7 DEF Once, Settled

-----------------------------------------------------------------------------
(* The steps.                                                              *)

\* A page is written that is no leaf of the chain.
LEMMA WrittenElsewhere ==
  ASSUME Typed, NEW rank, Strung(rank, disk, size), NEW pid \in 0..size, pid \notin DOMAIN rank,
         pid > 0 => size > 0, NEW page, WritePage(pid, page)
  PROVE  \A p \in DOMAIN rank : disk'[p] = disk[p]
<1>1. size \in Nat /\ DOMAIN rank \subseteq Pages(size)
  BY DEF Typed, Strung
<1>2. \A p \in Pages(size') : disk'[p] = IF p = pid THEN page ELSE disk[p]
  BY Wrote
<1>3. \A p \in Pages(size) : p \in Pages(size')
  <2>1. size' = IF pid = size THEN size + 1 ELSE size
    BY Wrote
  <2> QED BY <1>1, <2>1 DEF Pages
<1> QED BY <1>1, <1>2, <1>3

\* The pages of the chain.
LEMMA ChainPages ==
  ASSUME NEW live, NEW spine, NEW rank, Chained(live, spine, rank), Typed
  PROVE  /\ Strung(rank, disk, size) /\ size \in Nat /\ DOMAIN rank \subseteq Pages(size)
         /\ 0 \notin DOMAIN rank /\ size \notin DOMAIN rank
<1>1. Strung(rank, disk, size)
  BY DEF Chained
<1>2. size \in Nat
  BY DEF Typed
<1>3. DOMAIN rank \subseteq Pages(size)
  BY <1>1 DEF Strung
<1> QED BY <1>1, <1>2, <1>3 DEF Pages

\* The steps that write no leaf of the chain.
LEMMA LeavesKept ==
  ASSUME NEW live, NEW spine, NEW rank, Chained(live, spine, rank), Typed,
         \/ OpenNew \/ Open("r") \/ Open("w") \/ Close \/ CloseFails \/ Abandon \/ InsertFails
         \/ (\E k \in Key : LocateCall(k)) \/ SeekDown \/ SeekLeaf \/ ReadForward
         \/ (\E e \in Entry : InsertCall(e)) \/ Descend \/ SplitLeaf
         \/ InsertInNonLeaf \/ SplitNonLeaf \/ NewRoot \/ UNCHANGED vars
  PROVE  \A p \in DOMAIN rank : disk'[p] = disk[p]
<1>1. Strung(rank, disk, size) /\ size \in Nat /\ 0 \notin DOMAIN rank /\ size \notin DOMAIN rank
  BY ChainPages
<1>2. CASE OpenNew
  <2>1. size = 0 /\ DOMAIN rank \subseteq Pages(size)
    BY <1>1, <1>2 DEF OpenNew, Strung
  <2>2. DOMAIN rank = {}
    <3>1. 1..(0 - 1) = {}
      OBVIOUS
    <3> QED BY <2>1, <3>1 DEF Pages
  <2> QED BY <2>2
<1>3. CASE Close
  <2>1. WritePage(0, Header(obj)) /\ 0 \in 0..size
    BY <1>1, <1>3 DEF Close
  <2> QED BY <1>1, <2>1, WrittenElsewhere
<1>4. CASE SplitLeaf \/ SplitNonLeaf \/ NewRoot
  <2>1. /\ \E page : WritePage(size, page)
        /\ op.pc \in {"down", "up"}
    BY <1>4 DEF SplitLeaf, SplitNonLeaf, NewRoot
  <2>2. size \in 0..size /\ size > 0
    BY <1>1, <2>1 DEF Typed, Inserting
  <2> QED BY <1>1, <2>1, <2>2, WrittenElsewhere
<1>5. CASE InsertInNonLeaf
  <2>1. op.pc = "up" /\ op.held # <<>> /\ WritePage(Parent.pid, NonLeafInsert(Parent.node, op.over))
    BY <1>5 DEF InsertInNonLeaf
  <2>2. Parent.pid \in Pages(size) /\ Parent.pid \notin DOMAIN rank
    BY <2>1, ParentChained
  <2>3. Parent.pid \in 0..size /\ size > 0
    BY <1>1, <2>2 DEF Pages
  <2> QED BY <1>1, <2>1, <2>2, <2>3, WrittenElsewhere
<1>6. CASE disk' = disk
  BY <1>6
<1> QED BY <1>2, <1>3, <1>4, <1>5, <1>6
        DEF Open, CloseFails, Abandon, InsertFails, LocateCall, SeekDown, SeekLeaf, ReadForward,
            InsertCall, Descend, vars

LEMMA OthersOnce ==
  ASSUME NEW live, NEW spine, NEW rank, Chained(live, spine, rank), Typed, Books,
         Once(DOMAIN rank, disk, op),
         \/ OpenNew \/ Open("r") \/ Open("w") \/ Close \/ CloseFails \/ Abandon \/ InsertFails
         \/ (\E k \in Key : LocateCall(k)) \/ SeekDown \/ SeekLeaf \/ ReadForward
  PROVE  Once(DOMAIN rank, disk', op')
<1>1. Strung(rank, disk, size) /\ size \in Nat /\ 0 \notin DOMAIN rank
  BY ChainPages
<1>2. Settled(op')
  <2>1. CASE SeekDown
    <3>1. op'.pc = op.pc
      BY <2>1 DEF SeekDown
    <3> QED BY <2>1, <3>1 DEF SeekDown, Settled
  <2>2. CASE OpenNew \/ Open("r") \/ Open("w")
    BY <2>2 DEF OpenNew, Open, Books, Settled
  <2>3. CASE Close \/ CloseFails \/ Abandon \/ InsertFails \/ SeekLeaf \/ ReadForward
    BY <2>3 DEF Close, CloseFails, Abandon, InsertFails, SeekLeaf, ReadForward, Idle, Settled
  <2>4. CASE \E k \in Key : LocateCall(k)
    BY <2>4 DEF LocateCall, Idle, Settled
  <2> QED BY <2>1, <2>2, <2>3, <2>4
<1>3. \A p \in DOMAIN rank : disk'[p] = disk[p]
  BY LeavesKept
<1> QED BY <1>2, <1>3, SettledOnce

LEMMA CallOnce ==
  ASSUME NEW C, Once(C, disk, op), NEW e, InsertCall(e), NotYet(C, disk, e)
  PROVE  Once(C, disk', op')
<1>1. disk' = disk /\ op'.pc \in {"first", "down"} /\ op'.entry = e
  BY DEF InsertCall
<1> QED BY <1>1 DEF Once

LEMMA InsertsOnce ==
  ASSUME NEW live, NEW spine, NEW rank, Chained(live, spine, rank), Typed, Once(DOMAIN rank, disk, op),
         \/ Descend \/ InsertInLeaf \/ SplitLeaf \/ InsertInNonLeaf \/ SplitNonLeaf \/ NewRoot
  PROVE  Once(DOMAIN rank, disk', op')
<1> DEFINE C == DOMAIN rank
<1>1. Strung(rank, disk, size) /\ size \in Nat /\ 0 \notin C /\ size \notin C /\ C \subseteq Pages(size)
  BY ChainPages
<1>2. CASE Descend
  <2>1. disk' = disk /\ op.pc = "down" /\ op'.pc = "down" /\ op'.entry = op.entry
    BY <1>2 DEF Descend, Typed
  <2> QED BY <2>1 DEF Once
<1>3. CASE InsertInLeaf
  <2>1. op.pc = "down" /\ AtLeaf /\ WritePage(op.at, LeafInsert(disk[op.at], op.entry)) /\ op' = Idle
        /\ op.entry \in Entry
    BY <1>3 DEF InsertInLeaf, Return, Typed, Inserting
  <2>2. op.at \in C /\ op.at \in Pages(size) /\ disk[op.at].ents \in Seq(Entry)
        /\ disk[op.at] \in LeafNode(Entry, C \cup {0})
    BY <2>1, LeafBelow
  <2>3. LeafInsert(disk[op.at], op.entry).ents = Insert(disk[op.at].ents, op.entry)
    BY <2>2 DEF LeafInsert, LeafNode
  <2>4. \A p \in C : disk'[p] = IF p = op.at THEN LeafInsert(disk[op.at], op.entry) ELSE disk[p]
    <3>1. op.at \in 0..size /\ op.at # size /\ size > 0
      BY <1>1, <2>2 DEF Pages
    <3>2. size' = size
          /\ \A p \in Pages(size') : disk'[p] = IF p = op.at THEN LeafInsert(disk[op.at], op.entry) ELSE disk[p]
      BY <2>1, <3>1, Wrote
    <3> QED BY <1>1, <3>2
  <2>5. NotYet(C, disk, op.entry)
    BY <2>1 DEF Once
  <2>6. Settled(op')
    BY <2>1 DEF Settled, Idle
  <2> QED BY <2>1, <2>2, <2>3, <2>4, <2>5, <2>6, LeafGetsEntry
<1>4. CASE SplitLeaf
  <2> DEFINE leaf == disk[op.at]
             h    == LeafSplit(leaf, op.entry)
             s    == LeafHalves(leaf, op.entry)
  <2>1. op.pc = "down" /\ AtLeaf /\ LeafFull(leaf) /\ op.entry \in Entry
        /\ WritePage(size, s.right)
        /\ op' = [pc |-> "left", entry |-> op.entry, held |-> op.held, at |-> op.at,
                  page |-> s.left, over |-> [key |-> s.key, pid |-> size]]
    BY <1>4 DEF SplitLeaf, Typed, Inserting
  <2>2. op.at \in C /\ op.at \in Pages(size) /\ leaf.ents \in Seq(Entry)
        /\ leaf \in LeafNode(Entry, C \cup {0}) /\ Len(leaf.ents) <= LeafMax
    BY <2>1, LeafBelow
  <2>3. Len(leaf.ents) = LeafMax
    BY <2>1, <2>2, LeafMaxAssumption DEF LeafFull
  <2>4. Single(leaf.ents) /\ op.entry \notin Members(leaf.ents) /\ NotYet(C, disk, op.entry)
    BY <2>1, <2>2 DEF Once, NotYet
  <2>5. Parted(leaf.ents, op.entry, h.left.ents, h.right.ents)
    BY <2>1, <2>2, <2>3, <2>4, EntryKeyed, SplitParts
  <2>6. s.left.ents = h.left.ents /\ s.right.ents = h.right.ents /\ s.left.kind = leaf.kind
    <3>1. h.left \in LeafNode(Entry, C \cup {0}) /\ h.right \in LeafNode(Entry, {0})
      BY <2>1, <2>2, EntryKeyed, LeafSplitType
    <3>2. h = [left |-> h.left, right |-> h.right, key |-> h.key]
      BY DEF LeafSplit
    <3>3. s = [h EXCEPT !.left.next = size, !.right.next = leaf.next]
      BY DEF LeafHalves
    <3> HIDE DEF h, s
    <3>4. s = [left |-> [h.left EXCEPT !.next = size], right |-> [h.right EXCEPT !.next = leaf.next], key |-> h.key]
      BY <3>2, <3>3
    <3> QED BY <2>2, <3>1, <3>4 DEF LeafNode
  <2> HIDE DEF h, s, leaf
  <2>7. op'.pc = "left" /\ op'.page = s.left /\ op'.over.pid = size /\ op'.at = op.at /\ op'.entry = op.entry
    BY <2>1
  <2>8. (\A p \in C : disk'[p] = disk[p]) /\ disk'[size] = s.right
    <3>1. size \in 0..size /\ size > 0
      BY <1>1, <2>2 DEF Pages
    <3>2. \A p \in C : disk'[p] = disk[p]
      BY <1>1, <2>1, <3>1, WrittenElsewhere
    <3>3. size' = size + 1 /\ \A p \in Pages(size') : disk'[p] = IF p = size THEN s.right ELSE disk[p]
      BY <2>1, <3>1, Wrote
    <3>4. size \in Pages(size')
      BY <3>1, <3>3 DEF Pages
    <3> QED BY <3>2, <3>3, <3>4
  <2>9. NotYet(C, disk', op.entry)
    BY <2>4, <2>8 DEF NotYet
  <2>10. /\ \A p \in C : Len(disk'[p].ents) > 0 /\ Single(disk'[p].ents)
         /\ \A p, q \in C : p # q => Apart(disk'[p].ents, disk'[q].ents)
    BY <2>8 DEF Once
  <2>11. Parted(disk'[op'.at].ents, op'.entry, op'.page.ents, disk'[op'.over.pid].ents)
    BY <2>2, <2>5, <2>6, <2>7, <2>8 DEF leaf
  <2> QED BY <1>1, <2>2, <2>7, <2>9, <2>10, <2>11 DEF Once
<1>5. CASE InsertInNonLeaf
  <2>1. \A p \in C : disk'[p] = disk[p]
    BY <1>5, LeavesKept
  <2>2. Settled(op')
    BY <1>5 DEF InsertInNonLeaf, Return, Settled, Idle
  <2> QED BY <2>1, <2>2, SettledOnce
<1>6. CASE SplitNonLeaf \/ NewRoot
  <2>1. op.pc = "up"
    BY <1>6 DEF SplitNonLeaf, NewRoot
  <2>3. \A p \in C : disk'[p] = disk[p]
    BY <1>6, LeavesKept
  <2>4. Settled(op')
    <3>1. CASE NewRoot
      BY <3>1 DEF NewRoot, Return, Settled, Idle
    <3>2. CASE SplitNonLeaf
      <4> DEFINE s == NonLeafSplit(Parent.node, op.over)
      <4>1. op'.pc = "left" /\ op'.page = s.left /\ op.held # <<>>
        BY <3>2 DEF SplitNonLeaf
      <4>2. Parent.node.kind = "nonleaf"
        BY <2>1, <4>1, ParentChained DEF NodeIn, NonLeafNode
      <4>3. s.left.kind = Parent.node.kind
        BY <2>1, <4>1, ParentChained DEF NonLeafSplit, NodeIn, NonLeafNode
      <4> QED BY <4>1, <4>2, <4>3 DEF Settled
    <3> QED BY <1>6, <3>1, <3>2
  <2> QED BY <2>3, <2>4, SettledOnce
<1> QED BY <1>2, <1>3, <1>4, <1>5, <1>6

\* The two steps after which the chain has another leaf.
LEMMA FirstOnce ==
  ASSUME NEW live, NEW spine, NEW rank, Chained(live, spine, rank), Typed, InsertFirst
  PROVE  Once({size}, disk', op')
<1> DEFINE none == <<>>
           page == LeafInsert(EmptyLeaf, op.entry)
<1>1. op.entry \in Entry /\ obj.root = size /\ size \in Nat /\ size > 0 /\ op' = Idle
      /\ WritePage(size, page)
  BY DEF InsertFirst, Return, Typed, Inserting
<1>2. none \in Seq(Entry) /\ page.ents = Insert(none, op.entry) /\ Len(none) = 0
  BY EmptySeq DEF LeafInsert, EmptyLeaf
<1> HIDE DEF none, page
<1>3. Len(page.ents) = 1
  <2>1. Len(Insert(none, op.entry)) = Len(none) + 1
    BY <1>1, <1>2, EntryKeyed, InsertType
  <2> QED BY <1>2, <2>1
<1>4. disk'[size] = page
  <2>1. size \in 0..size
    BY <1>1
  <2>2. size' = size + 1 /\ \A p \in Pages(size') : disk'[p] = IF p = size THEN page ELSE disk[p]
    BY <1>1, <2>1, Wrote
  <2>3. size \in Pages(size')
    BY <1>1, <2>2 DEF Pages
  <2> QED BY <2>2, <2>3
<1>5. Settled(op')
  BY <1>1 DEF Settled, Idle
<1> QED BY <1>3, <1>4, <1>5 DEF Once, Single, Settled

LEMMA WriteLeftOnce ==
  ASSUME NEW live, NEW spine, NEW rank, Chained(live, spine, rank), Typed, Once(DOMAIN rank, disk, op),
         WriteLeft
  PROVE  Once(ChainAfter(DOMAIN rank), disk', op')
<1> DEFINE C == DOMAIN rank
<1>1. op.pc = "left" /\ WritePage(op.at, op.page) /\ op'.pc = "up" /\ op.at \in Pages(size)
      /\ op.page.kind = disk[op.at].kind /\ size \in Nat /\ C \subseteq Pages(size)
      /\ op.over.pid \in Pages(size)
  BY DEF WriteLeft, Typed, Chained, Strung, Separator
<1>2. \A p \in Pages(size) : disk'[p] = IF p = op.at THEN op.page ELSE disk[p]
  <2>1. op.at \in 0..size /\ size > 0 /\ op.at # size
    BY <1>1 DEF Pages
  <2>2. size' = size /\ \A p \in Pages(size') : disk'[p] = IF p = op.at THEN op.page ELSE disk[p]
    BY <1>1, <2>1, Wrote
  <2> QED BY <2>2
<1>3. Settled(op')
  BY <1>1 DEF Settled
<1>4. CASE op.page.kind = "leaf"
  <2>1. \A p \in C \cup {op.over.pid} : disk'[p] = IF p = op.at THEN op.page ELSE disk[p]
    BY <1>1, <1>2
  <2>2. Once(C \cup {op.over.pid}, disk', op')
    BY <1>1, <1>3, <1>4, <2>1, HalvesLinked
  <2> QED BY <1>4, <2>2 DEF ChainAfter
<1>5. CASE op.page.kind # "leaf"
  <2>1. op.at \notin C
    BY <1>1, <1>5 DEF Chained, Strung, LeafNode
  <2>2. \A p \in C : disk'[p] = disk[p]
    BY <1>1, <1>2, <2>1
  <2>3. Once(C, disk', op')
    BY <1>3, <2>2, SettledOnce
  <2> QED BY <1>5, <2>3 DEF ChainAfter
<1> QED BY <1>4, <1>5

\* What a step from the pages d to e keeps of a chain: its leaves and their entries,
\* and that a leaf to which nothing leads is one.
Carried(live, rank, d, more, longer, e) ==
  /\ DOMAIN rank \subseteq DOMAIN longer
  /\ \A x \in OnLeaves(rank, d) : x \in OnLeaves(longer, e)
  /\ \A p \in DOMAIN rank : p \in more => p \in live

\* The chain gains an entry, or a leaf, and loses none.
LEMMA EntriesKept ==
  ASSUME NEW rank, \A p \in DOMAIN rank : disk'[p] = disk[p]
  PROVE  \A x \in OnLeaves(rank, disk) : x \in OnLeaves(rank, disk')
BY DEF OnLeaves

LEMMA LeafInsertCarries ==
  ASSUME NEW live, NEW spine, NEW rank, Chained(live, spine, rank), Typed, InsertInLeaf
  PROVE  \A x \in OnLeaves(rank, disk) : x \in OnLeaves(rank, disk')
<1> DEFINE leaf == disk[op.at]
<1>1. op.pc = "down" /\ AtLeaf /\ WritePage(op.at, LeafInsert(leaf, op.entry)) /\ op.entry \in Entry
  BY DEF InsertInLeaf, Typed, Inserting
<1>2. size \in Nat /\ op.at \in Pages(size) /\ leaf.ents \in Seq(Entry) /\ DOMAIN rank \subseteq Pages(size)
      /\ leaf \in LeafNode(Entry, DOMAIN rank \cup {0})
  BY <1>1, LeafBelow, ChainPages
<1>3. LeafInsert(leaf, op.entry).ents = Insert(leaf.ents, op.entry)
  BY <1>2 DEF LeafInsert, LeafNode
<1>4. Members(Insert(leaf.ents, op.entry)) = Members(leaf.ents) \cup {op.entry}
  BY <1>1, <1>2, EntryKeyed, InsertMembers
<1>5. \A p \in DOMAIN rank : disk'[p] = IF p = op.at THEN LeafInsert(leaf, op.entry) ELSE disk[p]
  <2>1. op.at \in 0..size /\ op.at # size /\ size > 0
    BY <1>2 DEF Pages
  <2>2. size' = size
        /\ \A p \in Pages(size') : disk'[p] = IF p = op.at THEN LeafInsert(leaf, op.entry) ELSE disk[p]
    BY <1>1, <2>1, Wrote
  <2> QED BY <1>2, <2>2
<1>6. \A p \in DOMAIN rank : Members(disk[p].ents) \subseteq Members(disk'[p].ents)
  BY <1>3, <1>4, <1>5
<1> QED BY <1>6 DEF OnLeaves

LEMMA WriteLeftCarries ==
  ASSUME NEW live, NEW spine, NEW rank, Chained(live, spine, rank), Typed, WriteLeft,
         NEW longer, DOMAIN longer = ChainAfter(DOMAIN rank)
  PROVE  \A x \in OnLeaves(rank, disk) : x \in OnLeaves(longer, disk')
<1>1. op.pc = "left" /\ WritePage(op.at, op.page) /\ op.at \in Pages(size) /\ size \in Nat
      /\ DOMAIN rank \subseteq Pages(size) /\ op.page.kind = disk[op.at].kind
      /\ op.over.pid \in Pages(size)
  BY DEF WriteLeft, Typed, Chained, Strung, Separator
<1>2. \A p \in Pages(size) : disk'[p] = IF p = op.at THEN op.page ELSE disk[p]
  <2>1. op.at \in 0..size /\ size > 0 /\ op.at # size
    BY <1>1 DEF Pages
  <2>2. size' = size /\ \A p \in Pages(size') : disk'[p] = IF p = op.at THEN op.page ELSE disk[p]
    BY <1>1, <2>1, Wrote
  <2> QED BY <2>2
<1> SUFFICES ASSUME NEW x \in OnLeaves(rank, disk)
             PROVE  \E q \in DOMAIN longer : x \in Members(disk'[q].ents)
  BY DEF OnLeaves
<1>3. PICK p \in DOMAIN rank : x \in Members(disk[p].ents) /\ p \in DOMAIN longer
  BY DEF OnLeaves, ChainAfter
<1>4. CASE p # op.at
  BY <1>1, <1>2, <1>3, <1>4
<1>5. CASE p = op.at
  <2>1. disk[p].kind = "leaf"
    BY DEF Chained, Strung, LeafNode
  <2>2. op.page.kind = "leaf" /\ op.over.pid \in DOMAIN longer
    BY <1>1, <1>5, <2>1 DEF ChainAfter
  <2>3. Unlinked(rank, disk, size, op)
    BY <1>1, <2>2 DEF Chained, Going
  <2>4. op.over.pid # op.at
    BY <1>5, <2>3 DEF Unlinked
  <2>5. x \in Members(op.page.ents) \/ x \in Members(disk[op.over.pid].ents)
    <3>1. \A y : y \in Members(disk[op.at].ents) =>
                   y \in Members(op.page.ents) \/ y \in Members(disk[op.over.pid].ents)
      BY <2>3 DEF Unlinked
    <3> QED BY <1>3, <1>5, <3>1
  <2>6. disk'[p] = op.page /\ disk'[op.over.pid] = disk[op.over.pid]
    BY <1>1, <1>2, <1>5, <2>4
  <2> QED BY <1>3, <2>2, <2>5, <2>6
<1> QED BY <1>4, <1>5

LEMMA CarriedOn ==
  ASSUME NEW live, NEW spine, NEW rank, Chained(live, spine, rank), Typed,
         \A x \in OnLeaves(rank, disk) : x \in OnLeaves(rank, disk'),
         NEW more, \A p \in more : p \in live \/ p = size
  PROVE  Carried(live, rank, disk, more, rank, disk')
<1>1. size \notin DOMAIN rank
  BY ChainPages
<1> QED BY <1>1 DEF Carried

\* Every step of an index keeps the entries of the chain apart, an insert if its
\* entry is not there; and but for the first insert into an empty tree, it keeps the
\* chain.
LEMMA StepOnce ==
  ASSUME NEW live, NEW spine, NEW rank, Chained(live, spine, rank), Typed, Books,
         Once(DOMAIN rank, disk, op), [Next]_vars,
         \A e \in Entry : InsertCall(e) => NotYet(DOMAIN rank, disk, e)
  PROVE  \E more, top, longer : /\ Chained(more, top, longer)' /\ Once(DOMAIN longer, disk', op')
                                /\ InsertFirst \/ Carried(live, rank, disk, more, longer, disk')
<1> DEFINE Kept == \E more, top, longer :
                     /\ Chained(more, top, longer)' /\ Once(DOMAIN longer, disk', op')
                     /\ InsertFirst \/ Carried(live, rank, disk, more, longer, disk')
<1>1. ASSUME \A p \in DOMAIN rank : disk'[p] = disk[p]
      PROVE  Carried(live, rank, disk, live, rank, disk')
  BY <1>1, EntriesKept, CarriedOn
<1>3. CASE InsertFirst
  <2>1. PICK one, sole, only : Chained(one, sole, only)' /\ DOMAIN only = {size}
    BY <1>3, InsertFirstChained
  <2>2. Once(DOMAIN only, disk', op')
    BY <1>3, <2>1, FirstOnce
  <2> QED BY <1>3, <2>1, <2>2
<1>4. CASE WriteLeft
  <2>1. PICK more, longer : /\ Chained(more, spine, longer)' /\ DOMAIN longer = ChainAfter(DOMAIN rank)
                            /\ \A p \in more : p \in live \/ p = op.over.pid
    BY <1>4, WriteLeftChained
  <2>2. Once(DOMAIN longer, disk', op')
    BY <1>4, <2>1, WriteLeftOnce
  <2>3. \A x \in OnLeaves(rank, disk) : x \in OnLeaves(longer, disk')
    BY <1>4, <2>1, WriteLeftCarries
  <2>4. op.over.pid \notin DOMAIN rank \/ op.over.pid \in live
    BY <1>4 DEF WriteLeft, Chained, Going, Unlinked
  <2>5. Carried(live, rank, disk, more, longer, disk')
    BY <2>1, <2>3, <2>4 DEF Carried, ChainAfter
  <2> QED BY <2>1, <2>2, <2>5
<1>5. CASE SplitNonLeaf
  <2>1. PICK more : Chained(more, spine, rank)' /\ \A p \in more : p \in live \/ p = size
    BY <1>5, SplitNonLeafChained
  <2>2. Once(DOMAIN rank, disk', op') /\ \A p \in DOMAIN rank : disk'[p] = disk[p]
    BY <1>5, InsertsOnce, LeavesKept
  <2>3. Carried(live, rank, disk, more, rank, disk')
    BY <2>1, <2>2, EntriesKept, CarriedOn
  <2> QED BY <2>1, <2>2, <2>3
<1>6. CASE NewRoot
  <2>1. PICK more, top : Chained(more, top, rank)' /\ \A p \in more : p \in live \/ p = size
    BY <1>6, NewRootChained
  <2>2. Once(DOMAIN rank, disk', op') /\ \A p \in DOMAIN rank : disk'[p] = disk[p]
    BY <1>6, InsertsOnce, LeavesKept
  <2>3. Carried(live, rank, disk, more, rank, disk')
    BY <2>1, <2>2, EntriesKept, CarriedOn
  <2> QED BY <2>1, <2>2, <2>3
<1>7. CASE Descend \/ SplitLeaf \/ InsertInNonLeaf
  <2>1. Once(DOMAIN rank, disk', op') /\ \A p \in DOMAIN rank : disk'[p] = disk[p]
    BY <1>7, InsertsOnce, LeavesKept
  <2>2. Chained(live, spine, rank)'
    BY <1>7, DescendChained, SplitLeafChained, InsertInNonLeafChained
  <2> QED BY <1>1, <2>1, <2>2
<1>8. CASE InsertInLeaf
  <2>1. Once(DOMAIN rank, disk', op') /\ Chained(live, spine, rank)'
    BY <1>8, InsertsOnce, InsertInLeafChained
  <2>2. Carried(live, rank, disk, live, rank, disk')
    BY <1>8, LeafInsertCarries, CarriedOn
  <2> QED BY <2>1, <2>2
<1>9. CASE \E e \in Entry : InsertCall(e)
  <2>1. Once(DOMAIN rank, disk', op') /\ \A p \in DOMAIN rank : disk'[p] = disk[p]
    BY <1>9, CallOnce, LeavesKept
  <2>2. Chained(live, spine, rank)'
    BY <1>9, InsertCallChained
  <2> QED BY <1>1, <2>1, <2>2
<1>10. CASE \/ OpenNew \/ Open("r") \/ Open("w") \/ Close \/ CloseFails \/ Abandon \/ InsertFails
            \/ (\E k \in Key : LocateCall(k)) \/ SeekDown \/ SeekLeaf \/ ReadForward
  <2>1. Once(DOMAIN rank, disk', op') /\ \A p \in DOMAIN rank : disk'[p] = disk[p]
    BY <1>10, OthersOnce, LeavesKept
  <2>2. Chained(live, spine, rank)'
    BY <1>10, OpensChained, CloseChained, EndsChained, SearchesChained
  <2> QED BY <1>1, <2>1, <2>2
<1>11. CASE UNCHANGED vars
  <2>1. Chained(live, spine, rank)'
    BY <1>11 DEF vars, Chained, Rooted
  <2>2. Once(DOMAIN rank, disk', op') /\ disk' = disk
    BY <1>11 DEF vars
  <2> QED BY <1>1, <2>1, <2>2
<1> HIDE DEF Kept
<1>12. CASE InsertStep
  BY <1>3, <1>4, <1>5, <1>6, <1>7, <1>8, <1>12 DEF InsertStep
<1>13. Kept
  BY <1>9, <1>10, <1>11, <1>12 DEF Next, Kept
<1> QED BY <1>13 DEF Kept

LEMMA InitOnce == Init => \E live, spine, rank : Chained(live, spine, rank) /\ Once(DOMAIN rank, disk, op)
<1> SUFFICES ASSUME Init
             PROVE  \E live, spine, rank : Chained(live, spine, rank) /\ Once(DOMAIN rank, disk, op)
  OBVIOUS
<1>1. PICK live, spine, rank : Chained(live, spine, rank)
  BY InitChained
<1>2. DOMAIN rank = {}
  <2>1. size = 0 /\ DOMAIN rank \subseteq Pages(size)
    BY <1>1 DEF Chained, Strung, Init
  <2> QED BY <2>1 DEF Pages
<1>3. Settled(op)
  BY DEF Init, Settled, Idle
<1>4. Once(DOMAIN rank, disk, op)
  BY <1>2, <1>3 DEF Once, Settled
<1> QED BY <1>1, <1>4

-----------------------------------------------------------------------------
(* Reading.  A descent stays among the pages of the tree, a cursor on the  *)
(* chain, and what it has come past is not read again.                     *)

\* Cursor c has come past entry x.
Past(rank, d, c, x) ==
  \E p \in DOMAIN rank : \E i \in 1..Len(d[p].ents) :
    /\ x = d[p].ents[i]
    /\ \/ c = NoCursor
       \/ rank[p] > rank[c.pid]
       \/ p = c.pid /\ i <= c.eid

\* A cursor at an entry of the chain, unless it has come to the end.
AtEntry(rank, d, c) ==
  c # NoCursor => c.pid \in DOMAIN rank /\ c.eid < Len(d[c.pid].ents)

\* Between two entries of a leaf the cursor moves up, after the last it moves to
\* the next leaf, which has an entry.
LEMMA CursorMoves ==
  ASSUME NEW live, NEW spine, NEW rank, Chained(live, spine, rank), Once(DOMAIN rank, disk, op),
         cursor \in [pid : DOMAIN rank, eid : Nat],
         NEW next, next = Advanced(cursor, disk[cursor.pid])
  PROVE  /\ next \in [pid : DOMAIN rank, eid : Nat] \cup {NoCursor} /\ AtEntry(rank, disk, next)
         /\ \A x : Past(rank, disk, cursor, x) => Past(rank, disk, next, x)
         /\ cursor.eid < Len(disk[cursor.pid].ents) =>
              Past(rank, disk, next, disk[cursor.pid].ents[cursor.eid + 1])
<1> DEFINE a == cursor.pid  k == cursor.eid  ents == disk[a].ents
<1>1. /\ a \in DOMAIN rank /\ k \in Nat /\ cursor = [pid |-> a, eid |-> k] /\ 0 \notin DOMAIN rank
      /\ \A p \in DOMAIN rank : rank[p] \in Nat /\ Len(disk[p].ents) \in Nat
      /\ disk[a] \in LeafNode(Entry, DOMAIN rank \cup {0})
      /\ disk[a].next # 0 => rank[disk[a].next] = rank[a] - 1
  <2>1. \A p \in DOMAIN rank : disk[p] \in LeafNode(Entry, DOMAIN rank \cup {0}) /\ rank[p] \in Nat
    BY DEF Chained, Strung
  <2>2. \A p \in DOMAIN rank : Len(disk[p].ents) \in Nat
    BY <2>1 DEF LeafNode
  <2>3. 0 \notin DOMAIN rank
    BY DEF Chained, Strung, Pages
  <2> QED BY <2>1, <2>2, <2>3 DEF Chained, Strung
<1>2. cursor # NoCursor
  BY <1>1 DEF NoCursor
<1>3. CASE k + 1 < Len(ents)
  <2>1. next = [pid |-> a, eid |-> k + 1] /\ next.pid = a /\ next.eid = k + 1 /\ next # NoCursor
    <3>1. next = [cursor EXCEPT !.eid = @ + 1]
      BY <1>3 DEF Advanced
    <3> QED BY <1>1, <3>1 DEF NoCursor
  <2>2. AtEntry(rank, disk, next)
    BY <1>1, <1>3, <2>1 DEF AtEntry
  <2>3. ASSUME NEW x, Past(rank, disk, cursor, x) PROVE Past(rank, disk, next, x)
    <3>1. PICK p \in DOMAIN rank : \E i \in 1..Len(disk[p].ents) :
                 x = disk[p].ents[i] /\ (rank[p] > rank[a] \/ (p = a /\ i <= k))
      BY <1>2, <2>3 DEF Past
    <3>2. PICK i \in 1..Len(disk[p].ents) :
                 x = disk[p].ents[i] /\ (rank[p] > rank[a] \/ (p = a /\ i <= k))
      BY <3>1
    <3>3. rank[p] > rank[next.pid] \/ (p = next.pid /\ i <= next.eid)
      BY <1>1, <2>1, <3>2
    <3> QED BY <3>2, <3>3 DEF Past
  <2>4. Past(rank, disk, next, ents[k + 1])
    <3>1. k + 1 \in 1..Len(disk[a].ents) /\ k + 1 <= next.eid
      BY <1>1, <1>3, <2>1
    <3> QED BY <1>1, <2>1, <3>1 DEF Past
  <2> QED BY <1>1, <2>1, <2>2, <2>3, <2>4
<1>4. CASE ~(k + 1 < Len(ents))
  <2> DEFINE n == disk[a].next
  <2>1. next = [pid |-> n, eid |-> 0] /\ n \in DOMAIN rank \cup {0}
    BY <1>1, <1>4 DEF Advanced, LeafNode
  <2>2. CASE n = 0
    <3>1. next = NoCursor
      BY <2>1, <2>2 DEF NoCursor
    <3>2. \A x : Past(rank, disk, cursor, x) => Past(rank, disk, next, x)
      BY <3>1 DEF Past
    <3>3. k < Len(ents) => Past(rank, disk, next, ents[k + 1])
      <4>1. k < Len(ents) => k + 1 \in 1..Len(disk[a].ents)
        BY <1>1
      <4> QED BY <1>1, <3>1, <4>1 DEF Past
    <3> QED BY <3>1, <3>2, <3>3 DEF AtEntry
  <2>3. CASE n # 0
    <3>1. next.pid = n /\ next.eid = 0 /\ n \in DOMAIN rank /\ rank[n] = rank[a] - 1 /\ next # NoCursor
          /\ next \in [pid : DOMAIN rank, eid : Nat]
      BY <1>1, <2>1, <2>3 DEF NoCursor
    <3>2. AtEntry(rank, disk, next)
      BY <3>1 DEF AtEntry, Once
    <3>3. \A p \in DOMAIN rank : rank[p] > rank[a] \/ p = a => rank[p] > rank[n]
      BY <1>1, <3>1
    <3>4. ASSUME NEW x, Past(rank, disk, cursor, x) PROVE Past(rank, disk, next, x)
      <4>1. PICK p \in DOMAIN rank : \E i \in 1..Len(disk[p].ents) :
                   x = disk[p].ents[i] /\ (rank[p] > rank[a] \/ (p = a /\ i <= k))
        BY <1>2, <3>4 DEF Past
      <4> QED BY <3>1, <3>3, <4>1 DEF Past
    <3>5. k < Len(ents) => Past(rank, disk, next, ents[k + 1])
      <4>1. k < Len(ents) => k + 1 \in 1..Len(disk[a].ents)
        BY <1>1
      <4>2. rank[a] > rank[next.pid]
        BY <1>1, <3>1
      <4> QED BY <1>1, <4>1, <4>2 DEF Past
    <3> QED BY <3>1, <3>2, <3>4, <3>5
  <2> QED BY <2>2, <2>3
<1> QED BY <1>3, <1>4

\* The entry at the cursor is not one that the cursor has come past.
LEMMA ReadIsNew ==
  ASSUME NEW live, NEW spine, NEW rank, Chained(live, spine, rank), Once(DOMAIN rank, disk, op),
         cursor \in [pid : DOMAIN rank, eid : Nat], cursor.eid < Len(disk[cursor.pid].ents),
         NEW x, Past(rank, disk, cursor, x)
  PROVE  x # disk[cursor.pid].ents[cursor.eid + 1]
<1> DEFINE a == cursor.pid  k == cursor.eid  ents == disk[a].ents
<1>1. /\ a \in DOMAIN rank /\ k \in Nat /\ cursor # NoCursor
      /\ rank[a] \in Nat /\ Len(ents) \in Nat
  <2>1. disk[a] \in LeafNode(Entry, DOMAIN rank \cup {0}) /\ rank[a] \in Nat
    BY DEF Chained, Strung
  <2>2. 0 \notin DOMAIN rank
    BY DEF Chained, Strung, Pages
  <2> QED BY <2>1, <2>2 DEF LeafNode, NoCursor
<1>2. PICK p \in DOMAIN rank : \E i \in 1..Len(disk[p].ents) :
             x = disk[p].ents[i] /\ (rank[p] > rank[a] \/ (p = a /\ i <= k))
  BY <1>1 DEF Past
<1>3. PICK i \in 1..Len(disk[p].ents) :
             x = disk[p].ents[i] /\ (rank[p] > rank[a] \/ (p = a /\ i <= k))
  BY <1>2
<1>4. k + 1 \in 1..Len(ents)
  BY <1>1
<1>5. CASE p = a /\ i <= k
  <2>1. i # k + 1 /\ i \in 1..Len(ents) /\ Single(ents) /\ x = ents[i]
    BY <1>1, <1>3, <1>5 DEF Once
  <2> QED BY <1>4, <2>1 DEF Single
<1>6. CASE rank[p] > rank[a]
  <2>1. p # a
    BY <1>1, <1>6
  <2>2. Apart(disk[p].ents, ents)
    BY <1>1, <2>1 DEF Once
  <2>3. x \in Members(disk[p].ents) /\ ents[k + 1] \in Members(ents)
    BY <1>3, <1>4 DEF Members
  <2> QED BY <2>2, <2>3 DEF Apart
<1> QED BY <1>3, <1>5, <1>6

\* The descent of a search: from a root of the tree to its pages, to a leaf of the
\* chain.
LEMMA SeekBelow ==
  ASSUME NEW live, NEW spine, NEW rank, Chained(live, spine, rank), IInv
  PROVE  /\ obj.height > 0 => obj.root \in live
         /\ op.at \in live /\ SeekDown => op'.at \in live
         /\ op.at \in live /\ SeekLeaf => cursor' \in [pid : DOMAIN rank, eid : Nat]
<1>1. PICK lvl \in Levels(size) : Levelled(lvl)
  BY DEF IInv
<1>2. /\ Woven(live, spine, rank, disk, size) /\ Rooted(spine) /\ Strung(rank, disk, size)
      /\ Store(lvl, disk, size) /\ Operation(lvl, op, obj, size) /\ size \in Nat
  BY <1>1 DEF Chained, Levelled, Store
<1>3. obj.height > 0 => obj.root \in live
  BY <1>2 DEF Woven, Rooted
<1>4. ASSUME op.pc = "seek", op.at \in live
      PROVE  /\ op.key \in Int /\ op.level \in 1..obj.height /\ op.at \in Pages(size)
             /\ op \in Seek(DOMAIN lvl)
             /\ op.level = obj.height => disk[op.at].kind = "leaf"
             /\ op.level # obj.height => disk[op.at].kind # "leaf"
  <2>1. op \in Seek(DOMAIN lvl) /\ op.level \in 1..obj.height
        /\ op.at \in At(lvl, obj.height - op.level + 1)
    BY <1>2, <1>4 DEF Operation, Seek
  <2>2. op.key \in Int
    BY <2>1, EntryKeyed DEF Seek
  <2>3. op.at \in 1..(size - 1) /\ disk[op.at] \in NodeAt(lvl, obj.height - op.level + 1)
    BY <1>2, <2>1 DEF At, Levels, Store
  <2>4. obj.height \in Nat /\ op.level \in Nat
    BY <1>1, <2>1 DEF Levelled, Object, ObjType
  <2>5. (obj.height - op.level + 1 = 1) <=> (op.level = obj.height)
    BY <2>4
  <2> QED BY <2>1, <2>2, <2>3, <2>5 DEF NodeAt, LeafNode, NonLeafNode, Pages
<1>5. ASSUME op.at \in live, SeekDown PROVE op'.at \in live
  <2>1. op.pc = "seek" /\ op.level # obj.height
    BY <1>5 DEF SeekDown
  <2>2. op'.at = ChildPtr(disk[op.at], op.key)
    <3>1. op' = [op EXCEPT !.at = ChildPtr(disk[op.at], op.key), !.level = @ + 1]
      BY <1>5 DEF SeekDown
    <3> QED BY <1>4, <1>5, <2>1, <3>1 DEF Seek
  <2>3. disk[op.at] \in NonLeafNode(Key, live)
    BY <1>2, <1>4, <1>5, <2>1 DEF Woven, NodeIn
  <2> QED BY <1>4, <1>5, <2>1, <2>2, <2>3, EntryKeyed, ChildPtrType
<1>6. ASSUME op.at \in live, SeekLeaf PROVE cursor' \in [pid : DOMAIN rank, eid : Nat]
  <2>1. op.pc = "seek" /\ op.level = obj.height
        /\ cursor' = [pid |-> op.at, eid |-> Locate(disk[op.at].ents, op.key) - 1]
    BY <1>6 DEF SeekLeaf
  <2>2. op.at \in DOMAIN rank
    BY <1>2, <1>4, <1>6, <2>1 DEF Woven
  <2>3. disk[op.at].ents \in Seq(Entry)
    BY <1>2, <2>2 DEF Strung, LeafNode
  <2>4. Locate(disk[op.at].ents, op.key) \in 1..(Len(disk[op.at].ents) + 1)
    BY <1>4, <1>6, <2>1, <2>3, EntryKeyed, LocateRange
  <2>5. Locate(disk[op.at].ents, op.key) - 1 \in Nat
    BY <2>3, <2>4
  <2> QED BY <2>1, <2>2, <2>5
<1> QED BY <1>3, <1>5, <1>6

=============================================================================
