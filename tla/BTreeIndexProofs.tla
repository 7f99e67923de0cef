-------------------------- MODULE BTreeIndexProofs --------------------------
(***************************************************************************)
(* BTreeIndex keeps its pages in levels, for every set of keys, every      *)
(* capacity of the nodes and whenever a write fails or a writer dies.      *)
(*                                                                         *)
(* A page holds no mark of its level, and neither does the state: the      *)
(* invariant says that the pages CAN be given levels so that every pointer *)
(* of a page of level l leads to one of level l - 1, the next of a leaf    *)
(* (level 1) to a leaf, a root to the level of its height, and every page  *)
(* an insert or a search in progress is at or holds to where it should be. *)
(* A page keeps the level it got when it was first written.                *)
(***************************************************************************)
EXTENDS BTreeIndex, BTNodeProofs

Levels(s) == [1..(s - 1) -> Nat \ {0}]
At(lvl, l) == {p \in DOMAIN lvl : lvl[p] = l}

\* What a page of level l holds.
NodeAt(lvl, l) ==
  IF l = 1 THEN LeafNode(Entry, At(lvl, 1) \cup {0}) ELSE NonLeafNode(Key, At(lvl, l - 1))

\* The smallest or largest key, or what stands for none.
Bound == Key \cup {IntMin, IntMax}
HeaderType == [kind : {"header"}, root : Int, height : Nat, min : Bound, max : Bound]

Store(lvl, d, s) ==
  /\ s \in Nat /\ lvl \in Levels(s) /\ DOMAIN d = 0..(s - 1)
  /\ s > 0 => /\ d[0] \in HeaderType /\ d[0].root \in -1..s
              /\ d[0].height > 0 => d[0].root \in At(lvl, d[0].height)
  /\ \A p \in 1..(s - 1) : d[p] \in NodeAt(lvl, lvl[p])

ObjType == [mode : {"none", "r", "w"}, root : Int, height : Nat, min : Bound, max : Bound]
Object(lvl, o, s) ==
  /\ o \in ObjType /\ o.root \in -1..s
  /\ o.mode # "none" => s > 0
  /\ o.height > 0 => o.root \in At(lvl, o.height)

\* The nodes an insert has read on its way down, from the root on.
HeldNode(lvl) == [pid : DOMAIN lvl, node : NonLeafNode(Key, DOMAIN lvl)]
Held(lvl, held, height) ==
  /\ held \in Seq(HeldNode(lvl)) /\ Len(held) < height
  /\ \A i \in 1..Len(held) : /\ held[i].pid \in At(lvl, height - i + 1)
                             /\ held[i].node \in NonLeafNode(Key, At(lvl, height - i))

Inserting == {"first", "down", "left", "up"}
Operation(lvl, c, o, s) ==
  /\ c.pc \in Inserting \cup {"idle", "seek"}
  /\ c.pc \in Inserting => c.entry \in Entry
  /\ c.pc = "first" => o.mode = "w" /\ o.height = 0 /\ o.root = s
  /\ c.pc = "down" =>
       /\ c \in [pc : {"down"}, entry : Entry, at : DOMAIN lvl, held : Seq(HeldNode(lvl))]
       /\ Held(lvl, c.held, o.height)
       /\ c.at \in At(lvl, o.height - Len(c.held))
  /\ c.pc = "left" =>
       /\ Held(lvl, c.held, o.height)
       /\ c.at \in At(lvl, o.height - Len(c.held))
       /\ c.page \in NodeAt(lvl, o.height - Len(c.held))
       /\ c.over \in Separator(Key, At(lvl, o.height - Len(c.held)))
  /\ c.pc = "up" =>
       /\ Held(lvl, c.held, o.height)
       /\ c.over \in Separator(Key, At(lvl, o.height - Len(c.held)))
  /\ c.pc = "seek" =>
       /\ c \in [pc : {"seek"}, key : Key, at : DOMAIN lvl, level : Nat]
       /\ c.level \in 1..o.height
       /\ c.at \in At(lvl, o.height - c.level + 1)

CursorAt(lvl, c) == c \in [pid : At(lvl, 1), eid : Nat] \cup {NoCursor}

Levelled(lvl) ==
  /\ Store(lvl, disk, size)
  /\ Object(lvl, obj, size)
  /\ Operation(lvl, op, obj, size)
  /\ CursorAt(lvl, cursor)

\* The header and the object cover the keys they answer for.
Within(o, key) == o.min <= key /\ key <= o.max
Books ==
  /\ acked \subseteq Entry /\ saved \subseteq Entry
  /\ calls \in 0..MaxCalls /\ faults \in 0..MaxFaults
  /\ size = 0 => saved = {}
  /\ \A e \in saved : Within(disk[0], e.key)
  /\ obj.mode = "none" => acked = saved /\ op.pc = "idle"
  /\ obj.mode # "none" => \A e \in acked : Within(obj, e.key)
  /\ op.pc \in Inserting => obj.mode = "w" /\ Within(obj, op.entry.key)

IInv == Books /\ \E lvl \in Levels(size) : Levelled(lvl)

-----------------------------------------------------------------------------
(* A page that is added changes no level and can only be pointed to.       *)

Grown(lvl, s, l) == [p \in 1..s |-> IF p = s THEN l ELSE lvl[p]]

LEMMA EntryKeyed == Keyed(Entry) /\ (\A x \in Entry : x.key \in Key) /\ Key \in SUBSET Int
<1>1. \A k \in Key : k \in Int
  BY KeyAssumption
<1> QED BY <1>1 DEF Keyed, Entry

LEMMA BoundsAreInts == Bound \subseteq Int
BY EntryKeyed, KeyAssumption DEF Bound

LEMMA NonLeafMono ==
  ASSUME NEW Q, NEW R, Q \subseteq R
  PROVE  NonLeafNode(Key, Q) \subseteq NonLeafNode(Key, R)
<1>1. Separator(Key, Q) \subseteq Separator(Key, R)
  BY DEF Separator
<1>2. Seq(Separator(Key, Q)) \subseteq Seq(Separator(Key, R))
  BY <1>1, SeqMonotonic
<1> QED BY <1>2 DEF NonLeafNode

LEMMA AtMono ==
  ASSUME NEW s \in Nat \ {0}, NEW lvl \in Levels(s), NEW l \in Nat \ {0}
  PROVE  /\ Grown(lvl, s, l) \in Levels(s + 1)
         /\ s \in At(Grown(lvl, s, l), l)
         /\ DOMAIN lvl \subseteq DOMAIN Grown(lvl, s, l)
         /\ \A k : At(lvl, k) \subseteq At(Grown(lvl, s, l), k)
BY DEF Grown, Levels, At

LEMMA NodeMono ==
  ASSUME NEW s \in Nat \ {0}, NEW lvl \in Levels(s), NEW l \in Nat \ {0}
  PROVE  \A k : NodeAt(lvl, k) \subseteq NodeAt(Grown(lvl, s, l), k)
<1> SUFFICES ASSUME NEW k PROVE NodeAt(lvl, k) \subseteq NodeAt(Grown(lvl, s, l), k)
  OBVIOUS
<1>1. CASE k = 1
  BY <1>1, AtMono DEF NodeAt, LeafNode
<1>2. CASE k # 1
  <2>1. At(lvl, k - 1) \subseteq At(Grown(lvl, s, l), k - 1)
    BY AtMono
  <2> QED BY <1>2, <2>1, NonLeafMono DEF NodeAt
<1> QED BY <1>1, <1>2

LEMMA HeldMono ==
  ASSUME NEW s \in Nat \ {0}, NEW lvl \in Levels(s), NEW l \in Nat \ {0},
         NEW held, NEW height, Held(lvl, held, height)
  PROVE  Held(Grown(lvl, s, l), held, height)
<1> DEFINE new == Grown(lvl, s, l)
<1>1. DOMAIN lvl \subseteq DOMAIN new /\ \A k : At(lvl, k) \subseteq At(new, k)
  BY AtMono
<1> HIDE DEF new
<1>2. HeldNode(lvl) \subseteq HeldNode(new)
  BY <1>1, NonLeafMono DEF HeldNode
<1>3. held \in Seq(HeldNode(new))
  BY <1>2, SeqMonotonic DEF Held
<1>4. \A i \in 1..Len(held) : NonLeafNode(Key, At(lvl, height - i))
                                \subseteq NonLeafNode(Key, At(new, height - i))
  BY <1>1, NonLeafMono
<1>5. Held(new, held, height)
  BY <1>1, <1>3, <1>4 DEF Held
<1> QED BY <1>5 DEF new

-----------------------------------------------------------------------------
(* The two ways a page is written: over one of its level, or as the new    *)
(* last page.  Page 0 is written by neither.                               *)

LEMMA Overwritten ==
  ASSUME NEW lvl \in Levels(size), Store(lvl, disk, size),
         NEW pid \in DOMAIN lvl, NEW page \in NodeAt(lvl, lvl[pid]), WritePage(pid, page)
  PROVE  /\ Store(lvl, disk, size)'
         /\ size' = size /\ disk'[0] = disk[0]
<1>1. size \in Nat /\ pid \in 1..(size - 1) /\ DOMAIN disk = 0..(size - 1)
  BY DEF Store, Levels
<1>2. size' = size
  BY <1>1 DEF WritePage
<1>3. disk' = [p \in 0..(size - 1) |-> IF p = pid THEN page ELSE disk[p]]
  BY <1>1 DEF WritePage
<1>4. disk'[0] = disk[0]
  BY <1>1, <1>3
<1>5. \A p \in 1..(size - 1) : disk'[p] = IF p = pid THEN page ELSE disk[p]
  BY <1>1, <1>3
<1>6. \A p \in 1..(size - 1) : disk'[p] \in NodeAt(lvl, lvl[p])
  BY <1>5 DEF Store
<1>7. DOMAIN disk' = 0..(size' - 1)
  BY <1>2, <1>3
<1> QED BY <1>1, <1>2, <1>4, <1>6, <1>7 DEF Store

LEMMA Appended ==
  ASSUME NEW lvl \in Levels(size), Store(lvl, disk, size), size > 0,
         NEW l \in Nat \ {0}, NEW page \in NodeAt(Grown(lvl, size, l), l),
         WritePage(size, page)
  PROVE  /\ \A new : new = Grown(lvl, size, l) => new \in Levels(size') /\ Store(new, disk', size')
         /\ size' = size + 1 /\ disk'[0] = disk[0]
<1>1. size \in Nat \ {0} /\ DOMAIN disk = 0..(size - 1)
  BY DEF Store
<1>2. size' = size + 1
  BY <1>1 DEF WritePage
<1>3. disk' = [p \in 0..size |-> IF p = size THEN page ELSE disk[p]]
  <2>1. DOMAIN disk \cup {size} = 0..size
    BY <1>1
  <2> QED BY <2>1 DEF WritePage
<1>4. disk'[0] = disk[0]
  BY <1>1, <1>3
<1> SUFFICES ASSUME NEW new, new = Grown(lvl, size, l)
             PROVE  new \in Levels(size') /\ Store(new, disk', size')
  BY <1>2, <1>4
<1>5. new \in Levels(size + 1) /\ \A k : At(lvl, k) \subseteq At(new, k)
  BY <1>1, AtMono
<1>6. new[size] = l /\ \A p \in 1..(size - 1) : new[p] = lvl[p]
  BY <1>1 DEF Grown
<1>7. \A p \in 1..(size - 1) : disk'[p] \in NodeAt(new, new[p])
  <2> SUFFICES ASSUME NEW p \in 1..(size - 1) PROVE disk'[p] \in NodeAt(new, new[p])
    OBVIOUS
  <2>1. disk'[p] = disk[p] /\ disk[p] \in NodeAt(lvl, lvl[p])
    BY <1>1, <1>3 DEF Store
  <2>2. NodeAt(lvl, lvl[p]) \subseteq NodeAt(new, lvl[p])
    BY <1>1, NodeMono
  <2> QED BY <1>6, <2>1, <2>2
<1>8. disk'[size] \in NodeAt(new, new[size])
  BY <1>1, <1>3, <1>6
<1>9. \A p \in 1..size : disk'[p] \in NodeAt(new, new[p])
  BY <1>1, <1>7, <1>8
<1>10. DOMAIN disk' = 0..size
  BY <1>3
<1> QED BY <1>1, <1>2, <1>4, <1>5, <1>9, <1>10 DEF Store

-----------------------------------------------------------------------------
(* The invariant, action by action.                                        *)

LEMMA InitLevelled == Init => IInv
<1> SUFFICES ASSUME Init PROVE IInv
  OBVIOUS
<1> DEFINE lvl == [p \in 1..(size - 1) |-> 1]
<1>1. lvl \in Levels(size)
  BY DEF Levels
<1>2. Store(lvl, disk, size)
  BY <1>1 DEF Init, Store
<1>3. Object(lvl, obj, size)
  BY KeyAssumption DEF Init, Object, ObjType, Fresh, Bound
<1>4. Operation(lvl, op, obj, size) /\ CursorAt(lvl, cursor)
  BY DEF Init, Operation, Idle, Inserting, CursorAt
<1>5. Books
  BY BoundAssumption DEF Init, Books, Idle, Inserting, Fresh
<1> QED BY <1>1, <1>2, <1>3, <1>4, <1>5 DEF IInv, Levelled

\* The file's first page, or the failure to write it.
LEMMA OpenNewKeeps ==
  ASSUME NEW lvl \in Levels(size), Levelled(lvl), Books, OpenNew
  PROVE  Levelled(lvl)' /\ Books' /\ lvl \in Levels(size')
<1>1. size = 0 /\ obj.mode = "none" /\ op.pc = "idle" /\ saved = {} /\ acked = {}
  BY DEF OpenNew, Books
<1>2. Fresh \in ObjType /\ Fresh.height = 0 /\ Fresh.root = -1
  BY KeyAssumption DEF Fresh, ObjType, Bound
<1>3. CASE WritePage(0, Header(Fresh)) /\ obj' = [Fresh EXCEPT !.mode = "w"] /\ UNCHANGED faults
  <2>1. size' = 1 /\ disk' = [p \in {0} |-> Header(Fresh)]
    <3>1. DOMAIN disk \cup {0} = {0}
      BY <1>1 DEF Levelled, Store
    <3> QED BY <1>1, <1>3, <3>1 DEF WritePage
  <2>2. Levels(size) = Levels(size')
    BY <1>1, <2>1 DEF Levels
  <2>3. DOMAIN disk' = 0..(size' - 1) /\ disk'[0] = Header(Fresh)
    BY <2>1
  <2>4. Header(Fresh) \in HeaderType /\ Header(Fresh).height = 0 /\ Header(Fresh).root = -1
    BY <1>2 DEF Header, HeaderType, ObjType
  <2>5. Store(lvl, disk', size')
    BY <2>1, <2>2, <2>3, <2>4 DEF Store
  <2>6. obj' \in ObjType /\ obj'.height = 0 /\ obj'.root = -1
    BY <1>2, <1>3 DEF ObjType
  <2>7. Object(lvl, obj', size')
    BY <2>1, <2>6 DEF Object
  <2>8. Operation(lvl, op', obj', size') /\ CursorAt(lvl, cursor')
    BY <1>1, <1>3 DEF OpenNew, Levelled, Operation, CursorAt, Inserting
  <2>9. Books'
    BY <1>1, <1>3, <2>1 DEF OpenNew, Books, Inserting
  <2> QED BY <2>2, <2>5, <2>7, <2>8, <2>9 DEF Levelled
<1>4. CASE WriteFails /\ UNCHANGED <<disk, size, obj>>
  <2>1. Levelled(lvl)'
    BY <1>4 DEF OpenNew, Levelled
  <2>2. faults' \in 0..MaxFaults
    BY <1>4, BoundAssumption DEF WriteFails, Books
  <2> QED BY <1>4, <2>1, <2>2 DEF OpenNew, Books, Inserting
<1> QED BY <1>3, <1>4 DEF OpenNew

LEMMA OpenKeeps ==
  ASSUME NEW lvl \in Levels(size), Levelled(lvl), Books, NEW mode \in {"r", "w"}, Open(mode)
  PROVE  Levelled(lvl)' /\ Books' /\ lvl \in Levels(size')
<1>1. op' = op /\ op.pc = "idle" /\ acked = saved
  BY DEF Open, Books
<1>2. disk[0] \in HeaderType /\ disk[0].root \in -1..size
      /\ (disk[0].height > 0 => disk[0].root \in At(lvl, disk[0].height))
  BY DEF Open, Levelled, Store
<1>3. Object(lvl, obj', size')
  BY <1>2 DEF Open, Object, ObjType, HeaderType
<1>4. Operation(lvl, op', obj', size')
  BY <1>1 DEF Operation, Inserting
<1>5. Books'
  BY <1>1, <1>2 DEF Open, Books, Within, Inserting
<1> QED BY <1>3, <1>4, <1>5 DEF Open, Levelled

\* The header that close writes has the object's root and height, which are right.
LEMMA CloseKeeps ==
  ASSUME NEW lvl \in Levels(size), Levelled(lvl), Books, Close
  PROVE  Levelled(lvl)' /\ Books' /\ lvl \in Levels(size')
<1>1. size \in Nat \ {0} /\ op.pc = "idle" /\ obj.mode = "w"
  BY DEF Close, Levelled, Store, Object, Idle
<1>2. size' = size /\ disk' = [p \in 0..(size - 1) |-> IF p = 0 THEN Header(obj) ELSE disk[p]]
  <2>1. DOMAIN disk \cup {0} = 0..(size - 1)
    BY <1>1 DEF Levelled, Store
  <2> QED BY <1>1, <2>1 DEF Close, WritePage
<1>3. disk'[0] = Header(obj) /\ \A p \in 1..(size - 1) : disk'[p] = disk[p]
  BY <1>1, <1>2
<1>4. Header(obj) \in HeaderType /\ Header(obj).root = obj.root /\ Header(obj).height = obj.height
      /\ Header(obj).min = obj.min /\ Header(obj).max = obj.max
  BY DEF Levelled, Object, ObjType, Header, HeaderType
<1>5. DOMAIN disk' = 0..(size' - 1)
  BY <1>2
<1>6. Store(lvl, disk', size')
  BY <1>2, <1>3, <1>4, <1>5 DEF Levelled, Store, Object
<1>7. Fresh \in ObjType /\ Fresh.height = 0 /\ Fresh.root = -1 /\ Fresh.mode = "none"
  BY KeyAssumption DEF Fresh, ObjType, Bound
<1>8. Object(lvl, obj', size')
  BY <1>1, <1>2, <1>7 DEF Close, Object
<1>9. Operation(lvl, op', obj', size') /\ CursorAt(lvl, cursor')
  BY <1>1 DEF Close, Operation, CursorAt, Inserting
<1>10. Books'
  BY <1>1, <1>2, <1>3, <1>4, <1>7 DEF Close, Books, Within, Inserting
<1> QED BY <1>2, <1>6, <1>8, <1>9, <1>10 DEF Levelled

\* An error or the end of the object: the pages stay, and what was not saved is
\* no longer answered for.
LEMMA EndsKeep ==
  ASSUME NEW lvl \in Levels(size), Levelled(lvl), Books, CloseFails \/ Abandon \/ InsertFails
  PROVE  Levelled(lvl)' /\ Books' /\ lvl \in Levels(size')
<1>1. UNCHANGED <<disk, size, saved, calls>>
  BY DEF CloseFails, Abandon, InsertFails
<1>2. Store(lvl, disk', size') /\ size \in Nat
  BY <1>1 DEF Levelled, Store
<1>3. Fresh \in ObjType /\ Fresh.height = 0 /\ Fresh.root = -1 /\ Fresh.mode = "none"
  BY KeyAssumption DEF Fresh, ObjType, Bound
<1>4. faults' \in 0..MaxFaults
  BY BoundAssumption DEF CloseFails, Abandon, InsertFails, WriteFails, Books
<1>5. CursorAt(lvl, cursor')
  BY DEF CloseFails, Abandon, InsertFails, Levelled, CursorAt
<1>6. CASE CloseFails
  <2>1. UNCHANGED <<obj, op, acked>>
    BY <1>6 DEF CloseFails
  <2> QED BY <1>1, <1>2, <1>4, <1>5, <2>1 DEF Levelled, Books, Object, Operation
<1>7. CASE Abandon \/ InsertFails
  <2>1. obj' = Fresh /\ op' = Idle /\ acked' = saved
    BY <1>7 DEF Abandon, InsertFails
  <2>2. Object(lvl, obj', size')
    BY <1>1, <1>2, <1>3, <2>1 DEF Object
  <2>3. Operation(lvl, op', obj', size')
    BY <2>1 DEF Operation, Idle, Inserting
  <2>4. Books'
    BY <1>1, <1>3, <1>4, <2>1 DEF Books, Idle, Inserting
  <2> QED BY <1>1, <1>2, <1>5, <2>2, <2>3, <2>4 DEF Levelled
<1> QED BY <1>6, <1>7

\* The call widens the range of keys; the pages are not touched.
LEMMA InsertCallKeeps ==
  ASSUME NEW lvl \in Levels(size), Levelled(lvl), Books, NEW e \in Entry, InsertCall(e)
  PROVE  Levelled(lvl)' /\ Books' /\ lvl \in Levels(size')
<1>0. Bound \subseteq Int
  BY BoundsAreInts
<1>1. size \in Nat \ {0} /\ obj \in ObjType /\ e.key \in Key /\ e.key \in Int /\ obj.mode = "w"
  BY EntryKeyed DEF InsertCall, Levelled, Store, Object, Keyed
<1>2. obj' \in ObjType /\ obj'.mode = "w" /\ obj'.height = obj.height
      /\ obj'.root = (IF obj.height = 0 THEN size ELSE obj.root)
      /\ obj'.min = (IF e.key < obj.min THEN e.key ELSE obj.min)
      /\ obj'.max = (IF e.key > obj.max THEN e.key ELSE obj.max)
  <2> DEFINE w == Widened(obj, e.key)
             r == IF obj.height = 0 THEN size ELSE obj.root
  <2>1. w \in ObjType /\ w.mode = "w" /\ w.height = obj.height /\ w.root = obj.root
        /\ w.min = (IF e.key < obj.min THEN e.key ELSE obj.min)
        /\ w.max = (IF e.key > obj.max THEN e.key ELSE obj.max)
    BY <1>1 DEF Widened, ObjType, Bound
  <2>2. r \in Int
    BY <1>1 DEF ObjType
  <2>3. obj' = [w EXCEPT !.root = r]
    <3>1. obj' = [w EXCEPT !.root = IF obj.height = 0 THEN size ELSE @]
      BY DEF InsertCall
    <3> HIDE DEF w
    <3> QED BY <2>1, <3>1 DEF ObjType
  <2> HIDE DEF w, r
  <2>4. obj' \in ObjType /\ obj'.mode = w.mode /\ obj'.height = w.height /\ obj'.root = r
        /\ obj'.min = w.min /\ obj'.max = w.max
    BY <2>1, <2>2, <2>3 DEF ObjType
  <2> QED BY <2>1, <2>4 DEF r
<1>3. Object(lvl, obj', size')
  BY <1>1, <1>2 DEF InsertCall, Levelled, Object
<1>4. Within(obj', e.key) /\ \A k \in Int : Within(obj, k) => Within(obj', k)
  <2>1. obj.min \in Int /\ obj.max \in Int
    BY <1>0, <1>1 DEF ObjType
  <2> QED BY <1>1, <1>2, <2>1 DEF Within
<1>5. Operation(lvl, op', obj', size')
  <2>1. CASE obj.height = 0
    BY <1>1, <1>2, <2>1 DEF InsertCall, Operation, Inserting
  <2>2. CASE obj.height # 0
    <3>1. op' = [pc |-> "down", entry |-> e, at |-> obj.root, held |-> <<>>]
      BY <2>2 DEF InsertCall
    <3>2. obj.height > 0 /\ obj.root \in At(lvl, obj.height)
      BY <1>1, <2>2 DEF Levelled, Object, ObjType
    <3>3. <<>> \in Seq(HeldNode(lvl)) /\ Len(<<>>) = 0
      BY EmptySeq
    <3>4. Held(lvl, <<>>, obj.height)
      BY <3>2, <3>3 DEF Held
    <3>5. obj.height - Len(<<>>) = obj.height
      BY <1>1, <3>3 DEF ObjType
    <3>6. obj.root \in DOMAIN lvl
      BY <3>2 DEF At
    <3> QED BY <1>2, <3>1, <3>2, <3>3, <3>4, <3>5, <3>6 DEF Operation, Inserting
  <2> QED BY <2>1, <2>2
<1>6. CursorAt(lvl, cursor')
  BY DEF InsertCall, CursorAt
<1>7. op'.pc \in Inserting /\ op'.entry = e
  BY DEF InsertCall, Inserting
<1>8. \A d \in acked : Within(obj', d.key)
  BY <1>1, <1>4, EntryKeyed DEF Books, Keyed
<1>9. calls' \in 0..MaxCalls
  BY BoundAssumption DEF InsertCall, Books
<1>10. Books'
  BY <1>1, <1>2, <1>4, <1>7, <1>8, <1>9 DEF InsertCall, Books
<1> QED BY <1>3, <1>5, <1>6, <1>10 DEF InsertCall, Levelled

LEMMA DescendKeeps ==
  ASSUME NEW lvl \in Levels(size), Levelled(lvl), Books, Descend
  PROVE  Levelled(lvl)' /\ Books' /\ lvl \in Levels(size')
<1> DEFINE h    == obj.height
           node == disk[op.at]
           held == Append(op.held, [pid |-> op.at, node |-> node])
           at   == ChildPtr(node, op.entry.key)
           n    == Len(op.held)
<1>1. op.pc = "down" /\ op.entry \in Entry /\ op.at \in At(lvl, h - n) /\ Held(lvl, op.held, h)
      /\ op \in [pc : {"down"}, entry : Entry, at : DOMAIN lvl, held : Seq(HeldNode(lvl))]
  BY DEF Descend, Levelled, Operation, Inserting
<1>2. n \in Nat /\ h \in Nat /\ n + 1 < h
  <2>1. n < h /\ op.held \in Seq(HeldNode(lvl))
    BY <1>1 DEF Held
  <2>2. h \in Nat /\ n \in Nat
    BY <2>1 DEF Levelled, Object, ObjType
  <2> QED BY <2>1, <2>2 DEF Descend, AtLeaf
<1>3. node \in NonLeafNode(Key, At(lvl, h - n - 1))
  <2>1. node \in NodeAt(lvl, h - n)
    BY <1>1 DEF Levelled, Store, At, Levels
  <2> QED BY <1>2, <2>1 DEF NodeAt
<1>4. at \in At(lvl, h - n - 1)
  <2>1. op.entry.key \in Int
    BY <1>1, EntryKeyed DEF Keyed
  <2> QED BY <1>3, <2>1, EntryKeyed, ChildPtrType
<1>5. op' = [op EXCEPT !.at = at, !.held = held]
  BY DEF Descend
<1> HIDE DEF at, node, h
<1>6. [pid |-> op.at, node |-> node] \in HeldNode(lvl)
  <2>1. At(lvl, h - n - 1) \subseteq DOMAIN lvl
    BY DEF At
  <2> QED BY <1>1, <1>3, <2>1, NonLeafMono DEF HeldNode
<1>7. /\ held \in Seq(HeldNode(lvl)) /\ Len(held) = n + 1
      /\ \A i \in 1..n : held[i] = op.held[i]
      /\ held[n + 1] = [pid |-> op.at, node |-> node]
  BY <1>1, <1>6, AppendProperties DEF Held
<1> HIDE DEF held
<1>8. Held(lvl, held, h)
  <2> SUFFICES ASSUME NEW i \in 1..Len(held)
               PROVE  /\ held[i].pid \in At(lvl, h - i + 1)
                      /\ held[i].node \in NonLeafNode(Key, At(lvl, h - i))
    BY <1>2, <1>7 DEF Held
  <2>1. CASE i \in 1..n
    BY <1>1, <1>7, <2>1 DEF Held
  <2>2. CASE i = n + 1
    <3>1. h - i + 1 = h - n /\ h - i = h - n - 1
      BY <1>2, <2>2
    <3> QED BY <1>1, <1>3, <1>7, <2>2, <3>1
  <2> QED BY <1>2, <1>7, <2>1, <2>2
<1>9. h - Len(held) = h - n - 1 /\ at \in DOMAIN lvl
  BY <1>2, <1>4, <1>7 DEF At
<1>10. op'.pc = "down" /\ op'.held = held /\ op'.at = at /\ op'.entry = op.entry
       /\ op' \in [pc : {"down"}, entry : Entry, at : DOMAIN lvl, held : Seq(HeldNode(lvl))]
  BY <1>1, <1>5, <1>7, <1>9
<1>11. Operation(lvl, op', obj, size)
  BY <1>4, <1>8, <1>9, <1>10, <1>1 DEF Operation, Inserting, h
<1>12. Books'
  BY <1>1, <1>10 DEF Descend, Books, Inserting
<1> QED BY <1>11, <1>12 DEF Descend, Levelled

LEMMA InsertFirstKeeps ==
  ASSUME NEW lvl \in Levels(size), Levelled(lvl), Books, InsertFirst
  PROVE  IInv'
<1> DEFINE new  == Grown(lvl, size, 1)
           page == LeafInsert(EmptyLeaf, op.entry)
<1>1. op.pc = "first" /\ op.entry \in Entry /\ obj.height = 0 /\ obj.root = size /\ obj.mode = "w"
  BY DEF InsertFirst, Levelled, Operation, Inserting
<1>2. size \in Nat \ {0}
  BY <1>1 DEF Levelled, Store, Object
<1>3. page \in NodeAt(new, 1)
  <2>1. EmptyLeaf \in LeafNode(Entry, At(new, 1) \cup {0})
    BY EmptySeq DEF EmptyLeaf, LeafNode
  <2> QED BY <1>1, <2>1, EntryKeyed, LeafInsertType DEF NodeAt
<1>4. WritePage(size, page)
  BY <1>1 DEF InsertFirst
<1> HIDE DEF page
<1>5. new \in Levels(size') /\ Store(new, disk', size') /\ size' = size + 1 /\ disk'[0] = disk[0]
  BY <1>2, <1>3, <1>4, Appended DEF Levelled
<1>6. size \in At(new, 1) /\ \A k : At(lvl, k) \subseteq At(new, k)
  BY <1>2, AtMono
<1> HIDE DEF new
<1>7. obj' = [obj EXCEPT !.height = 1] /\ op' = Idle /\ acked' = acked \cup {op.entry}
  BY DEF InsertFirst, Return
<1>8. Object(new, obj', size')
  BY <1>1, <1>2, <1>5, <1>6, <1>7 DEF Levelled, Object, ObjType
<1>9. Operation(new, op', obj', size')
  BY <1>7 DEF Operation, Idle, Inserting
<1>10. CursorAt(new, cursor')
  BY <1>6 DEF InsertFirst, Levelled, CursorAt
<1>11. obj'.mode = "w" /\ obj'.min = obj.min /\ obj'.max = obj.max
  BY <1>1, <1>7 DEF Levelled, Object, ObjType
<1>12. Books'
  BY <1>1, <1>2, <1>5, <1>7, <1>11 DEF InsertFirst, Books, Within, Idle, Inserting
<1> QED BY <1>5, <1>8, <1>9, <1>10, <1>12 DEF IInv, Levelled

\* The level an insert is at, with the leaves at level 1.
Here == obj.height - Len(op.held)

LEMMA HereType ==
  ASSUME NEW lvl, Levelled(lvl), op.pc \in {"down", "left", "up"}
  PROVE  Here \in Nat \ {0} /\ Len(op.held) \in Nat /\ obj.height \in Nat /\ op.entry \in Entry
<1>1. Len(op.held) < obj.height /\ op.held \in Seq(HeldNode(lvl))
  BY DEF Levelled, Operation, Held
<1>2. obj.height \in Nat /\ Len(op.held) \in Nat
  BY <1>1 DEF Levelled, Object, ObjType
<1> QED BY <1>1, <1>2 DEF Here, Levelled, Operation, Inserting

\* The last write of an insert that leaves root and height as they are.
LEMMA ReturnKeeps ==
  ASSUME NEW lvl \in Levels(size), Levelled(lvl), Books, op.pc \in Inserting,
         NEW new \in Levels(size'), Store(new, disk', size'), size' >= size,
         \A k : At(lvl, k) \subseteq At(new, k), disk'[0] = disk[0],
         Return, UNCHANGED <<obj, cursor, saved, calls, faults>>
  PROVE  IInv'
<1>1. op.entry \in Entry /\ obj.mode = "w" /\ Within(obj, op.entry.key)
  BY DEF Levelled, Operation, Books
<1>2. size \in Nat \ {0} /\ size' \in Nat /\ obj \in ObjType
  BY <1>1 DEF Levelled, Store, Object
<1>3. Object(new, obj', size')
  BY <1>2 DEF Levelled, Object
<1>4. Operation(new, op', obj', size')
  BY DEF Return, Operation, Idle, Inserting
<1>5. CursorAt(new, cursor')
  BY DEF Levelled, CursorAt
<1>6. Books'
  BY <1>1, <1>2 DEF Return, Books, Idle, Inserting
<1> QED BY <1>3, <1>4, <1>5, <1>6 DEF IInv, Levelled

LEMMA InsertInLeafKeeps ==
  ASSUME NEW lvl \in Levels(size), Levelled(lvl), Books, InsertInLeaf
  PROVE  IInv'
<1>1. op.pc = "down" /\ op.at \in At(lvl, Here) /\ op.entry \in Entry
  BY DEF InsertInLeaf, Levelled, Operation, Inserting, Here
<1>2. Here = 1
  BY <1>1, HereType DEF InsertInLeaf, AtLeaf, Here
<1>3. op.at \in DOMAIN lvl /\ lvl[op.at] = 1
  BY <1>1, <1>2 DEF At
<1>4. disk[op.at] \in LeafNode(Entry, At(lvl, 1) \cup {0})
  BY <1>3 DEF Levelled, Store, Levels, NodeAt
<1>5. LeafInsert(disk[op.at], op.entry) \in NodeAt(lvl, lvl[op.at])
  BY <1>1, <1>3, <1>4, EntryKeyed, LeafInsertType DEF NodeAt
<1>6. Store(lvl, disk', size') /\ size' = size /\ disk'[0] = disk[0]
  BY <1>3, <1>5, Overwritten DEF InsertInLeaf, Levelled
<1> QED BY <1>1, <1>6, ReturnKeeps DEF InsertInLeaf, Levelled, Store, Inserting

\* The sibling is written first: the half that stays, not yet on disk, leads to it.
LEMMA SplitLeafKeeps ==
  ASSUME NEW lvl \in Levels(size), Levelled(lvl), Books, SplitLeaf
  PROVE  IInv'
<1> DEFINE new  == Grown(lvl, size, 1)
           leaf == disk[op.at]
           s    == LeafHalves(leaf, op.entry)
           h    == LeafSplit(leaf, op.entry)
<1>1. op.pc = "down" /\ op.at \in At(lvl, Here) /\ op.entry \in Entry /\ Held(lvl, op.held, obj.height)
  BY DEF SplitLeaf, Levelled, Operation, Inserting, Here
<1>2. Here = 1
  BY <1>1, HereType DEF SplitLeaf, AtLeaf, Here
<1>3. size \in Nat \ {0} /\ obj.mode = "w"
  BY <1>1 DEF Levelled, Store, Object, Books, Inserting
<1>4. leaf \in LeafNode(Entry, At(lvl, 1) \cup {0})
  BY <1>1, <1>2 DEF Levelled, Store, Levels, NodeAt, At
<1>5. size \in At(new, 1) /\ \A k : At(lvl, k) \subseteq At(new, k)
  BY <1>3, AtMono
<1>6. h.left \in LeafNode(Entry, At(lvl, 1) \cup {0}) /\ h.right \in LeafNode(Entry, {0})
      /\ h.key \in Key
  BY <1>1, <1>4, EntryKeyed, LeafSplitType DEF SplitLeaf
<1>7. s = [left |-> [h.left EXCEPT !.next = size], right |-> [h.right EXCEPT !.next = leaf.next],
           key |-> h.key]
  <2>1. h = [left |-> h.left, right |-> h.right, key |-> h.key]
    BY DEF LeafSplit
  <2>2. s = [h EXCEPT !.left.next = size, !.right.next = leaf.next]
    BY DEF LeafHalves
  <2> HIDE DEF h, s
  <2> QED BY <2>1, <2>2
<1> HIDE DEF h, s, new
<1>8. [h.left EXCEPT !.next = size] \in LeafNode(Entry, At(new, 1) \cup {0})
  BY <1>5, <1>6 DEF LeafNode
<1>9. [h.right EXCEPT !.next = leaf.next] \in LeafNode(Entry, At(new, 1) \cup {0})
  BY <1>4, <1>5, <1>6 DEF LeafNode
<1>10. s.left \in NodeAt(new, 1) /\ s.right \in NodeAt(new, 1) /\ s.key \in Key
  BY <1>6, <1>7, <1>8, <1>9 DEF NodeAt
<1>11. WritePage(size, s.right)
       /\ op' = [pc |-> "left", entry |-> op.entry, held |-> op.held, at |-> op.at,
                 page |-> s.left, over |-> [key |-> s.key, pid |-> size]]
  BY DEF SplitLeaf, s
<1>12. new \in Levels(size') /\ Store(new, disk', size') /\ size' = size + 1 /\ disk'[0] = disk[0]
  BY <1>3, <1>10, <1>11, Appended DEF Levelled, new
<1>13. Held(new, op.held, obj.height)
  BY <1>1, <1>3, HeldMono DEF new
<1>14. [key |-> s.key, pid |-> size] \in Separator(Key, At(new, 1))
  BY <1>5, <1>10 DEF Separator
<1>15. obj.height - Len(op.held) = 1
  BY <1>2 DEF Here
<1>16. op.at \in At(new, 1)
  BY <1>1, <1>2, <1>5
<1>17. Operation(new, op', obj, size')
  BY <1>1, <1>10, <1>11, <1>13, <1>14, <1>15, <1>16 DEF Operation, Inserting
<1>18. Object(new, obj', size')
  BY <1>3, <1>5, <1>12 DEF SplitLeaf, Levelled, Object, ObjType
<1>19. CursorAt(new, cursor')
  BY <1>5 DEF SplitLeaf, Levelled, CursorAt
<1>20. Books'
  BY <1>1, <1>3, <1>11, <1>12 DEF SplitLeaf, Books, Inserting
<1> QED BY <1>12, <1>17, <1>18, <1>19, <1>20 DEF SplitLeaf, IInv, Levelled

LEMMA WriteLeftKeeps ==
  ASSUME NEW lvl \in Levels(size), Levelled(lvl), Books, WriteLeft
  PROVE  IInv'
<1>1. op.pc = "left" /\ op.entry \in Entry /\ Held(lvl, op.held, obj.height)
      /\ op.at \in At(lvl, Here) /\ op.page \in NodeAt(lvl, Here)
      /\ op.over \in Separator(Key, At(lvl, Here))
  BY DEF WriteLeft, Levelled, Operation, Inserting, Here
<1>2. op.at \in DOMAIN lvl /\ lvl[op.at] = Here
  BY <1>1 DEF At
<1>3. Store(lvl, disk', size') /\ size' = size /\ disk'[0] = disk[0]
  BY <1>1, <1>2, Overwritten DEF WriteLeft, Levelled
<1>4. op' = [pc |-> "up", entry |-> op.entry, held |-> op.held, over |-> op.over]
      /\ UNCHANGED <<obj, cursor, acked, saved, calls, faults>>
  BY DEF WriteLeft
<1>5. Operation(lvl, op', obj, size)
  BY <1>1, <1>4 DEF Operation, Inserting, Here
<1>6. Books'
  BY <1>1, <1>3, <1>4 DEF Books, Inserting
<1> QED BY <1>3, <1>4, <1>5, <1>6 DEF IInv, Levelled

\* The node above the level of a split: it was read on the way down, and the
\* separator to come belongs into it.
LEMMA ParentType ==
  ASSUME NEW lvl, Levelled(lvl), op.pc = "up", op.held # <<>>
  PROVE  /\ Parent.pid \in At(lvl, Here + 1) /\ Parent.node \in NonLeafNode(Key, At(lvl, Here))
         /\ Parent.pid \in DOMAIN lvl /\ lvl[Parent.pid] = Here + 1
         /\ op.over \in Separator(Key, At(lvl, Here))
<1> DEFINE n == Len(op.held)
<1>1. Held(lvl, op.held, obj.height) /\ op.over \in Separator(Key, At(lvl, Here))
  BY DEF Levelled, Operation, Here
<1>2. n \in Nat \ {0} /\ obj.height \in Nat
  BY <1>1, HereType, EmptySeq DEF Held
<1>3. obj.height - n + 1 = Here + 1 /\ obj.height - n = Here
  BY <1>2 DEF Here
<1> HIDE DEF n
<1>4. Parent = op.held[n] /\ n \in 1..Len(op.held)
  BY <1>2 DEF Parent, n
<1>5. Parent.pid \in At(lvl, Here + 1) /\ Parent.node \in NonLeafNode(Key, At(lvl, Here))
  BY <1>1, <1>3, <1>4 DEF Held
<1> QED BY <1>1, <1>5 DEF At

LEMMA InsertInNonLeafKeeps ==
  ASSUME NEW lvl \in Levels(size), Levelled(lvl), Books, InsertInNonLeaf
  PROVE  IInv'
<1>1. op.pc = "up" /\ op.held # <<>> /\ Here \in Nat \ {0}
  BY HereType DEF InsertInNonLeaf
<1>2. NonLeafInsert(Parent.node, op.over) \in NodeAt(lvl, lvl[Parent.pid])
  <2>1. NonLeafInsert(Parent.node, op.over) \in NonLeafNode(Key, At(lvl, Here))
    BY <1>1, EntryKeyed, ParentType, NonLeafInsertType
  <2>2. lvl[Parent.pid] = Here + 1
    BY <1>1, ParentType
  <2>3. Here + 1 # 1 /\ (Here + 1) - 1 = Here
    BY <1>1
  <2>4. NodeAt(lvl, Here + 1) = NonLeafNode(Key, At(lvl, Here))
    BY <2>3, Zenon DEF NodeAt
  <2> QED BY <2>1, <2>2, <2>4
<1>3. Parent.pid \in DOMAIN lvl
  BY <1>1, ParentType
<1>4. Store(lvl, disk', size') /\ size' = size /\ disk'[0] = disk[0]
  BY <1>2, <1>3, Overwritten DEF InsertInNonLeaf, Levelled
<1> QED BY <1>1, <1>4, ReturnKeeps DEF InsertInNonLeaf, Levelled, Store, Inserting

LEMMA SplitNonLeafKeeps ==
  ASSUME NEW lvl \in Levels(size), Levelled(lvl), Books, SplitNonLeaf
  PROVE  IInv'
<1> DEFINE l    == Here + 1
           new  == Grown(lvl, size, l)
           s    == NonLeafSplit(Parent.node, op.over)
           n    == Len(op.held)
           held == SubSeq(op.held, 1, n - 1)
<1>1. op.pc = "up" /\ op.held # <<>> /\ op.entry \in Entry /\ Held(lvl, op.held, obj.height)
  BY DEF SplitNonLeaf, Levelled, Operation, Inserting
<1>2. Here \in Nat \ {0} /\ n \in Nat \ {0} /\ obj.height \in Nat
  BY <1>1, HereType, EmptySeq DEF Held
<1>3. size \in Nat \ {0} /\ obj.mode = "w"
  BY <1>1 DEF Levelled, Store, Object, Books, Inserting
<1>4. s.left \in NonLeafNode(Key, At(lvl, Here)) /\ s.right \in NonLeafNode(Key, At(lvl, Here))
      /\ s.key \in Key
  BY <1>1, EntryKeyed, ParentType, NonLeafSplitType DEF SplitNonLeaf
<1>5. l \in Nat \ {0} /\ l # 1 /\ l - 1 = Here
  BY <1>2
<1>6. size \in At(new, l) /\ \A k : At(lvl, k) \subseteq At(new, k)
  BY <1>3, <1>5, AtMono
<1>7. WritePage(size, s.right)
      /\ op' = [pc |-> "left", entry |-> op.entry, held |-> held, at |-> Parent.pid,
                page |-> s.left, over |-> [key |-> s.key, pid |-> size]]
  BY DEF SplitNonLeaf
<1> HIDE DEF l, new, s
<1>8. s.left \in NodeAt(new, l) /\ s.right \in NodeAt(new, l)
  <2>1. NonLeafNode(Key, At(lvl, Here)) \subseteq NonLeafNode(Key, At(new, Here))
    BY <1>6, NonLeafMono
  <2> QED BY <1>4, <1>5, <2>1 DEF NodeAt
<1>9. new \in Levels(size') /\ Store(new, disk', size') /\ size' = size + 1 /\ disk'[0] = disk[0]
  BY <1>3, <1>5, <1>7, <1>8, Appended DEF Levelled, new
<1>10. /\ held \in Seq(HeldNode(lvl)) /\ Len(held) = n - 1
       /\ \A i \in 1..(n - 1) : held[i] = op.held[i]
  <2>1. \A i \in 1..(n - 1) : op.held[i] \in HeldNode(lvl)
    BY <1>1, <1>2, ElementOfSeq DEF Held
  <2>2. 1 \in Int /\ n - 1 \in Int /\ (n - 1) - 1 + 1 = n - 1
    BY <1>2
  <2>3. held \in Seq(HeldNode(lvl))
        /\ Len(held) = (IF 1 <= n - 1 THEN (n - 1) - 1 + 1 ELSE 0)
        /\ \A i \in 1..((n - 1) - 1 + 1) : held[i] = op.held[1 + i - 1]
    BY <2>1, <2>2, SubSeqProperties
  <2> HIDE DEF held, n
  <2>4. Len(held) = n - 1
    BY <1>2, <2>3
  <2>5. \A i \in 1..(n - 1) : held[i] = op.held[i]
    <3> SUFFICES ASSUME NEW i \in 1..(n - 1) PROVE held[i] = op.held[i]
      OBVIOUS
    <3>1. i \in 1..((n - 1) - 1 + 1) /\ 1 + i - 1 = i
      BY <1>2
    <3>2. held[i] = op.held[1 + i - 1]
      BY <2>3, <3>1
    <3> QED BY <3>1, <3>2
  <2> QED BY <2>3, <2>4, <2>5
<1> HIDE DEF held
<1>11. Held(new, held, obj.height)
  <2>1. Held(lvl, held, obj.height)
    <3>1. n < obj.height /\ \A i \in 1..n : /\ op.held[i].pid \in At(lvl, obj.height - i + 1)
                                            /\ op.held[i].node \in NonLeafNode(Key, At(lvl, obj.height - i))
      BY <1>1 DEF Held
    <3> HIDE DEF n
    <3>2. Len(held) < obj.height /\ \A i \in 1..Len(held) : i \in 1..n /\ held[i] = op.held[i]
      BY <1>2, <1>10, <3>1
    <3> QED BY <1>10, <3>1, <3>2 DEF Held
  <2> QED BY <1>3, <1>5, <2>1, HeldMono DEF new
<1>12. obj.height - Len(held) = l
  BY <1>2, <1>10 DEF Here, l
<1>13. Parent.pid \in At(new, l)
  BY <1>1, <1>6, ParentType DEF l
<1>14. [key |-> s.key, pid |-> size] \in Separator(Key, At(new, l))
  BY <1>4, <1>6 DEF Separator
<1>15. Operation(new, op', obj, size')
  BY <1>1, <1>7, <1>8, <1>11, <1>12, <1>13, <1>14 DEF Operation, Inserting
<1>16. Object(new, obj', size')
  BY <1>3, <1>6, <1>9 DEF SplitNonLeaf, Levelled, Object, ObjType
<1>17. CursorAt(new, cursor')
  BY <1>6 DEF SplitNonLeaf, Levelled, CursorAt
<1>18. Books'
  BY <1>1, <1>3, <1>7, <1>9 DEF SplitNonLeaf, Books, Inserting
<1> QED BY <1>9, <1>15, <1>16, <1>17, <1>18 DEF SplitNonLeaf, IInv, Levelled

LEMMA NewRootKeeps ==
  ASSUME NEW lvl \in Levels(size), Levelled(lvl), Books, NewRoot
  PROVE  IInv'
<1> DEFINE h    == obj.height
           l    == h + 1
           new  == Grown(lvl, size, l)
           root == InitializeRoot(obj.root, op.over.key, op.over.pid)
<1>1. op.pc = "up" /\ op.held = <<>> /\ op.entry \in Entry /\ h \in Nat \ {0} /\ Here = h
  <2>1. op.pc = "up" /\ op.held = <<>> /\ op.entry \in Entry /\ Len(<<>>) = 0
    BY EmptySeq DEF NewRoot, Levelled, Operation, Inserting
  <2> QED BY <2>1, HereType DEF Here
<1>2. size \in Nat \ {0} /\ obj.mode = "w" /\ obj \in ObjType
  BY <1>1 DEF Levelled, Store, Object, Books, Inserting
<1>3. obj.root \in At(lvl, h)
  BY <1>1 DEF Levelled, Object
<1>4. op.over \in Separator(Key, At(lvl, h))
  BY <1>1 DEF Levelled, Operation, Here
<1>5. l \in Nat \ {0} /\ l # 1 /\ l - 1 = h
  BY <1>1
<1>6. size \in At(new, l) /\ \A k : At(lvl, k) \subseteq At(new, k)
  BY <1>2, <1>5, AtMono
<1> HIDE DEF l, new, h
<1>7. root \in NodeAt(new, l)
  <2>1. op.over.key \in Key /\ op.over.pid \in At(new, h) /\ obj.root \in At(new, h)
    BY <1>3, <1>4, <1>6 DEF Separator
  <2>2. [key |-> op.over.key, pid |-> op.over.pid] \in Separator(Key, At(new, h))
    BY <2>1 DEF Separator
  <2>3. <<[key |-> op.over.key, pid |-> op.over.pid]>> \in Seq(Separator(Key, At(new, h)))
    BY <2>2
  <2>4. root \in NonLeafNode(Key, At(new, h))
    BY <2>1, <2>3 DEF InitializeRoot, NonLeafNode
  <2> QED BY <1>5, <2>4 DEF NodeAt
<1>8. WritePage(size, root) /\ obj' = [obj EXCEPT !.root = size, !.height = @ + 1]
      /\ Return /\ UNCHANGED <<cursor, saved, calls, faults>>
  BY DEF NewRoot
<1> HIDE DEF root
<1>9. new \in Levels(size') /\ Store(new, disk', size') /\ size' = size + 1 /\ disk'[0] = disk[0]
  BY <1>2, <1>5, <1>7, <1>8, Appended DEF Levelled, new
<1>10. obj' \in ObjType /\ obj'.root = size /\ obj'.height = l /\ obj'.mode = "w"
       /\ obj'.min = obj.min /\ obj'.max = obj.max
  <2>1. l \in Nat /\ obj' = [obj EXCEPT !.root = size, !.height = l]
    BY <1>5, <1>8 DEF l, h
  <2> DEFINE o == [obj EXCEPT !.root = size, !.height = l]
  <2>2. size \in Int /\ l \in Nat
    BY <1>2, <2>1
  <2>3. /\ o \in ObjType /\ o.root = size /\ o.height = l
        /\ o.mode = obj.mode /\ o.min = obj.min /\ o.max = obj.max
    BY <1>2, <2>2 DEF ObjType
  <2>4. obj' = o
    BY <2>1
  <2> HIDE DEF o
  <2> QED BY <1>2, <2>3, <2>4
<1>11. Object(new, obj', size')
  BY <1>2, <1>6, <1>9, <1>10 DEF Object
<1>12. Operation(new, op', obj', size')
  BY <1>8 DEF Return, Operation, Idle, Inserting
<1>13. CursorAt(new, cursor')
  BY <1>6, <1>8 DEF Levelled, CursorAt
<1>14. Books'
  BY <1>1, <1>2, <1>8, <1>9, <1>10 DEF Return, Books, Within, Idle, Inserting
<1> QED BY <1>9, <1>11, <1>12, <1>13, <1>14 DEF IInv, Levelled

-----------------------------------------------------------------------------
(* locate and readForward: a search is at every step at the level it       *)
(* counts, and a cursor in a leaf.                                         *)

Seek(S) == [pc : {"seek"}, key : Key, at : S, level : Nat]

LEMMA SeekMoved ==
  ASSUME NEW S, NEW o \in Seek(S), NEW a \in S, NEW v \in Nat
  PROVE  LET new == [o EXCEPT !.at = a, !.level = v]
         IN  new \in Seek(S) /\ new.pc = "seek" /\ new.at = a /\ new.level = v
BY DEF Seek

LEMMA SearchesKeep ==
  ASSUME NEW lvl \in Levels(size), Levelled(lvl), Books,
         (\E k \in Key : LocateCall(k)) \/ SeekDown \/ SeekLeaf \/ ReadForward
  PROVE  Levelled(lvl)' /\ Books' /\ lvl \in Levels(size')
<1>1. UNCHANGED <<disk, size, obj, acked, saved, calls, faults>>
  BY DEF LocateCall, SeekDown, SeekLeaf, ReadForward
<1>2. Store(lvl, disk', size') /\ Object(lvl, obj', size')
  BY <1>1 DEF Levelled
<1>3. obj.height \in Nat
  BY DEF Levelled, Object, ObjType
<1>4. CASE \E k \in Key : LocateCall(k)
  <2>1. PICK k \in Key : LocateCall(k)
    BY <1>4
  <2>2. Operation(lvl, op', obj', size') /\ op'.pc \in {"idle", "seek"}
    <3>1. CASE obj.height = 0
      BY <1>1, <2>1, <3>1 DEF LocateCall, Operation, Idle, Inserting
    <3>2. CASE obj.height # 0
      <4>1. obj.root \in At(lvl, obj.height) /\ obj.root \in DOMAIN lvl
        BY <1>3, <3>2 DEF Levelled, Object, At
      <4>2. op' = [pc |-> "seek", key |-> k, at |-> obj.root, level |-> 1]
        BY <2>1, <3>2 DEF LocateCall
      <4>3. 1 \in 1..obj.height /\ obj.height - 1 + 1 = obj.height
        BY <1>3, <3>2
      <4> QED BY <1>1, <4>1, <4>2, <4>3 DEF Operation, Inserting
    <3> QED BY <3>1, <3>2
  <2>3. CursorAt(lvl, cursor')
    BY <2>1 DEF LocateCall, CursorAt
  <2>4. Books'
    BY <1>1, <2>1, <2>2 DEF LocateCall, Books, Inserting
  <2> QED BY <1>1, <1>2, <2>2, <2>3, <2>4 DEF Levelled
<1>5. CASE SeekDown
  <2> DEFINE q == obj.height - op.level
             at == ChildPtr(disk[op.at], op.key)
  <2>1. op.pc = "seek" /\ op \in [pc : {"seek"}, key : Key, at : DOMAIN lvl, level : Nat]
        /\ op.level \in 1..obj.height /\ op.at \in At(lvl, q + 1) /\ op.level # obj.height
    BY <1>5 DEF SeekDown, Levelled, Operation
  <2>2. q \in Nat \ {0} /\ q + 1 # 1 /\ (q + 1) - 1 = q
    BY <1>3, <2>1
  <2> HIDE DEF q
  <2>3. disk[op.at] \in NodeAt(lvl, q + 1)
    BY <2>1 DEF Levelled, Store, At, Levels
  <2>4. disk[op.at] \in NonLeafNode(Key, At(lvl, q))
    BY <2>2, <2>3 DEF NodeAt
  <2>5. at \in At(lvl, q) /\ at \in DOMAIN lvl
    <3>1. op.key \in Int
      BY <2>1, EntryKeyed
    <3>2. at \in At(lvl, q)
      BY <2>4, <3>1, EntryKeyed, ChildPtrType
    <3> QED BY <3>2 DEF At
  <2>6. op' = [op EXCEPT !.at = at, !.level = op.level + 1] /\ cursor' = cursor
    BY <1>5, <2>1 DEF SeekDown
  <2> HIDE DEF at
  <2>7. op' \in [pc : {"seek"}, key : Key, at : DOMAIN lvl, level : Nat]
        /\ op'.pc = "seek" /\ op'.at = at /\ op'.level = op.level + 1
    <3>1. op \in Seek(DOMAIN lvl) /\ op.level + 1 \in Nat
      BY <2>1 DEF Seek
    <3> QED BY <2>5, <2>6, <3>1, SeekMoved DEF Seek
  <2>8. op.level + 1 \in 1..obj.height /\ obj.height - (op.level + 1) + 1 = q
    BY <1>3, <2>1 DEF q
  <2>9. Operation(lvl, op', obj', size')
    BY <1>1, <2>5, <2>7, <2>8 DEF Operation, Inserting
  <2>10. Books'
    BY <1>1, <2>1, <2>7 DEF Books, Inserting
  <2> QED BY <1>1, <1>2, <2>6, <2>9, <2>10 DEF Levelled
<1>6. CASE SeekLeaf
  <2>1. op.pc = "seek" /\ op \in [pc : {"seek"}, key : Key, at : DOMAIN lvl, level : Nat]
        /\ op.at \in At(lvl, obj.height - op.level + 1) /\ op.level = obj.height
    BY <1>6 DEF SeekLeaf, Levelled, Operation
  <2>2. op.at \in At(lvl, 1)
    <3>1. obj.height - op.level + 1 = 1
      BY <1>3, <2>1
    <3> QED BY <2>1, <3>1
  <2>3. disk[op.at].ents \in Seq(Entry)
    BY <2>2 DEF Levelled, Store, At, Levels, NodeAt, LeafNode
  <2>4. Locate(disk[op.at].ents, op.key) - 1 \in Nat
    <3>1. op.key \in Int
      BY <2>1, EntryKeyed
    <3>2. Locate(disk[op.at].ents, op.key) \in 1..(Len(disk[op.at].ents) + 1)
      BY <2>3, <3>1, EntryKeyed, LocateRange
    <3> QED BY <3>2
  <2>5. cursor' = [pid |-> op.at, eid |-> Locate(disk[op.at].ents, op.key) - 1] /\ op' = Idle
    BY <1>6 DEF SeekLeaf
  <2>6. CursorAt(lvl, cursor')
    BY <2>2, <2>4, <2>5 DEF CursorAt
  <2>7. Operation(lvl, op', obj', size')
    BY <2>5 DEF Operation, Idle, Inserting
  <2>8. Books'
    BY <1>1, <2>1, <2>5 DEF Books, Idle, Inserting
  <2> QED BY <1>1, <1>2, <2>6, <2>7, <2>8 DEF Levelled
<1>7. CASE ReadForward
  <2>1. cursor \in [pid : At(lvl, 1), eid : Nat]
    BY <1>7 DEF ReadForward, Levelled, CursorAt
  <2>2. disk[cursor.pid].next \in At(lvl, 1) \cup {0}
    BY <2>1 DEF Levelled, Store, At, Levels, NodeAt, LeafNode
  <2>3. cursor' = Advanced(cursor, disk[cursor.pid]) /\ op' = op
    BY <1>7 DEF ReadForward
  <2>4. [cursor EXCEPT !.eid = @ + 1] \in [pid : At(lvl, 1), eid : Nat]
    BY <2>1
  <2>5. CursorAt(lvl, cursor')
    BY <2>2, <2>3, <2>4 DEF Advanced, CursorAt, NoCursor
  <2>6. Operation(lvl, op', obj', size') /\ Books'
    BY <1>1, <2>3 DEF Levelled, Books, Operation
  <2> QED BY <1>1, <1>2, <2>5, <2>6 DEF Levelled
<1> QED BY <1>4, <1>5, <1>6, <1>7

-----------------------------------------------------------------------------
(* The invariant is one, and what it gives.                                *)

LEMMA NextKeeps == IInv /\ [Next]_vars => IInv'
<1> SUFFICES ASSUME IInv, [Next]_vars PROVE IInv'
  OBVIOUS
<1>1. PICK lvl \in Levels(size) : Levelled(lvl)
  BY DEF IInv
<1>2. Books
  BY DEF IInv
<1> DEFINE Kept == Levelled(lvl)' /\ Books' /\ lvl \in Levels(size')
<1>3. Kept => IInv'
  BY DEF IInv
<1> HIDE DEF Kept
<1>4. CASE UNCHANGED vars
  <2>1. Levelled(lvl)' /\ Books' /\ lvl \in Levels(size')
    BY <1>1, <1>2, <1>4 DEF vars, Levelled, Books
  <2> QED BY <1>3, <2>1 DEF Kept
<1>5. CASE OpenNew
  BY <1>1, <1>2, <1>3, <1>5, OpenNewKeeps DEF Kept
<1>6. CASE Open("r") \/ Open("w")
  BY <1>1, <1>2, <1>3, <1>6, OpenKeeps DEF Kept
<1>7. CASE Close
  BY <1>1, <1>2, <1>3, <1>7, CloseKeeps DEF Kept
<1>8. CASE CloseFails \/ Abandon \/ InsertFails
  BY <1>1, <1>2, <1>3, <1>8, EndsKeep DEF Kept
<1>9. CASE \E e \in Entry : InsertCall(e)
  BY <1>1, <1>2, <1>3, <1>9, InsertCallKeeps DEF Kept
<1>10. CASE InsertStep
  <2>1. CASE InsertFirst
    BY <1>1, <1>2, <2>1, InsertFirstKeeps
  <2>2. CASE Descend
    BY <1>1, <1>2, <1>3, <2>2, DescendKeeps DEF Kept
  <2>3. CASE InsertInLeaf
    BY <1>1, <1>2, <2>3, InsertInLeafKeeps
  <2>4. CASE SplitLeaf
    BY <1>1, <1>2, <2>4, SplitLeafKeeps
  <2>5. CASE WriteLeft
    BY <1>1, <1>2, <2>5, WriteLeftKeeps
  <2>6. CASE InsertInNonLeaf
    BY <1>1, <1>2, <2>6, InsertInNonLeafKeeps
  <2>7. CASE SplitNonLeaf
    BY <1>1, <1>2, <2>7, SplitNonLeafKeeps
  <2>8. CASE NewRoot
    BY <1>1, <1>2, <2>8, NewRootKeeps
  <2> QED BY <1>10, <2>1, <2>2, <2>3, <2>4, <2>5, <2>6, <2>7, <2>8 DEF InsertStep
<1>11. CASE (\E k \in Key : LocateCall(k)) \/ SeekDown \/ SeekLeaf \/ ReadForward
  BY <1>1, <1>2, <1>3, <1>11, SearchesKeep DEF Kept
<1> QED BY <1>4, <1>5, <1>6, <1>7, <1>8, <1>9, <1>10, <1>11 DEF Next

LEMMA Inductive == Spec => []IInv
BY InitLevelled, NextKeeps, PTL DEF Spec

LEMMA KindOfLevel ==
  ASSUME NEW lvl, NEW l \in Nat \ {0}, NEW page \in NodeAt(lvl, l)
  PROVE  page.kind = IF l = 1 THEN "leaf" ELSE "nonleaf"
BY DEF NodeAt, LeafNode, NonLeafNode

LEMMA PointersOfLevel ==
  ASSUME NEW s \in Nat, NEW lvl \in Levels(s), NEW l \in Nat \ {0}, NEW page \in NodeAt(lvl, l)
  PROVE  Pointers(page) \subseteq 1..(s - 1)
<1>1. \A k : At(lvl, k) \subseteq 1..(s - 1)
  BY DEF At, Levels
<1>2. CASE l = 1
  BY <1>1, <1>2 DEF NodeAt, LeafNode, Pointers
<1>3. CASE l # 1
  <2>1. page \in NonLeafNode(Key, At(lvl, l - 1))
    BY <1>3 DEF NodeAt
  <2>2. \A x \in Entries(page.ents) : x \in Separator(Key, At(lvl, l - 1))
    BY <2>1, ElementOfSeq DEF NonLeafNode, Entries
  <2> QED BY <1>1, <2>1, <2>2 DEF NonLeafNode, Separator, Pointers
<1> QED BY <1>2, <1>3

\* The state is of its type: page 0 and no other is a header, the pages have no
\* gap, and the object's root is a page or the page to come.
THEOREM TypeCorrect == Spec => []TypeOK
<1>1. IInv => TypeOK
  <2> SUFFICES ASSUME IInv PROVE TypeOK
    OBVIOUS
  <2>1. PICK lvl \in Levels(size) : Levelled(lvl)
    BY DEF IInv
  <2>2. Store(lvl, disk, size) /\ size \in Nat /\ DOMAIN disk = 0..(size - 1)
    BY <2>1 DEF Levelled, Store
  <2>3. \A p \in 1..(size - 1) : disk[p].kind \in {"leaf", "nonleaf"}
    <3> SUFFICES ASSUME NEW p \in 1..(size - 1) PROVE disk[p].kind \in {"leaf", "nonleaf"}
      OBVIOUS
    <3>1. lvl[p] \in Nat \ {0} /\ disk[p] \in NodeAt(lvl, lvl[p])
      BY <2>2 DEF Store, Levels
    <3> QED BY <3>1, KindOfLevel
  <2>4. size > 0 => disk[0].kind = "header"
    BY <2>2 DEF Store, HeaderType
  <2>5. \A p \in DOMAIN disk : ((p = 0) <=> (disk[p].kind = "header"))
                                /\ disk[p].kind \in {"header", "leaf", "nonleaf"}
    <3> SUFFICES ASSUME NEW p \in DOMAIN disk
                 PROVE  ((p = 0) <=> (disk[p].kind = "header"))
                        /\ disk[p].kind \in {"header", "leaf", "nonleaf"}
      OBVIOUS
    <3>1. CASE p = 0
      BY <2>2, <2>4, <3>1
    <3>2. CASE p # 0
      <4>1. p \in 1..(size - 1)
        BY <2>2, <3>2
      <4> QED BY <2>3, <3>2, <4>1
    <3> QED BY <3>1, <3>2
  <2>6. obj.mode \in {"none", "r", "w"} /\ obj.root \in -1..size /\ obj.height \in Nat
    BY <2>1 DEF Levelled, Object, ObjType
  <2>7. op.pc \in {"idle", "first", "down", "left", "up", "seek"}
    BY <2>1 DEF Levelled, Operation, Inserting
  <2>8. cursor.pid \in Nat /\ cursor.eid \in Nat
    BY <2>1, <2>2 DEF Levelled, CursorAt, NoCursor, At, Levels
  <2> QED BY <2>2, <2>5, <2>6, <2>7, <2>8 DEF TypeOK, IInv, Books
<1> QED BY <1>1, Inductive, PTL

\* Whichever write was the last to reach the file, nothing in it, in the insert in
\* progress or in a cursor leads past its pages.
THEOREM PointersLeadToPages == Spec => []NoDangling
<1>1. IInv => NoDangling
  <2> SUFFICES ASSUME IInv PROVE NoDangling
    OBVIOUS
  <2>1. PICK lvl \in Levels(size) : Levelled(lvl)
    BY DEF IInv
  <2>2. Store(lvl, disk, size) /\ size \in Nat /\ DOMAIN disk = 0..(size - 1)
    BY <2>1 DEF Levelled, Store
  <2>3. \A k : At(lvl, k) \subseteq 1..(size - 1)
    BY DEF At, Levels
  <2>4. \A p \in 1..(size - 1) : Pointers(disk[p]) \subseteq 1..(size - 1)
    <3> SUFFICES ASSUME NEW p \in 1..(size - 1) PROVE Pointers(disk[p]) \subseteq 1..(size - 1)
      OBVIOUS
    <3>1. lvl[p] \in Nat \ {0} /\ disk[p] \in NodeAt(lvl, lvl[p])
      BY <2>2 DEF Store, Levels
    <3> QED BY <2>2, <3>1, PointersOfLevel
  <2>5. size > 0 => Pointers(disk[0]) \subseteq 1..(size - 1)
    BY <2>2, <2>3 DEF Store, HeaderType, Pointers
  <2>6. \A p \in DOMAIN disk : \A q \in Pointers(disk[p]) : IsPage(q)
    <3> SUFFICES ASSUME NEW p \in DOMAIN disk
                 PROVE  Pointers(disk[p]) \subseteq 1..(size - 1)
      BY DEF IsPage
    <3>1. CASE p = 0
      BY <2>2, <2>5, <3>1
    <3>2. CASE p # 0
      <4>1. p \in 1..(size - 1)
        BY <2>2, <3>2
      <4> QED BY <2>4, <4>1
    <3> QED BY <3>1, <3>2
  <2>7. obj.height > 0 => IsPage(obj.root)
    BY <2>1, <2>3 DEF Levelled, Object, IsPage
  <2>8. op.pc = "left" => \A q \in Pointers(op.page) : IsPage(q)
    <3> SUFFICES ASSUME op.pc = "left" PROVE \A q \in Pointers(op.page) : IsPage(q)
      OBVIOUS
    <3>1. op.page \in NodeAt(lvl, Here) /\ Here \in Nat \ {0}
      BY <2>1, HereType DEF Levelled, Operation, Here
    <3>2. Pointers(op.page) \subseteq 1..(size - 1)
      BY <2>2, <3>1, PointersOfLevel
    <3> QED BY <3>2 DEF IsPage
  <2>9. op.pc \in {"left", "up"} => IsPage(op.over.pid)
    BY <2>1, <2>3 DEF Levelled, Operation, Separator, IsPage
  <2>10. op.pc \in {"down", "left", "seek"} => IsPage(op.at)
    BY <2>1, <2>3 DEF Levelled, Operation, IsPage
  <2>11. cursor # NoCursor => IsPage(cursor.pid)
    BY <2>1, <2>3 DEF Levelled, CursorAt, IsPage
  <2> QED BY <2>6, <2>7, <2>8, <2>9, <2>10, <2>11 DEF NoDangling
<1> QED BY <1>1, Inductive, PTL

\* insertNonLeaf and locateHelper never take a leaf for a non-leaf or the reverse.
THEOREM DescentsAreTyped == Spec => []DescentIsTyped
<1>1. IInv => DescentIsTyped
  <2> SUFFICES ASSUME IInv PROVE DescentIsTyped
    OBVIOUS
  <2>1. PICK lvl \in Levels(size) : Levelled(lvl)
    BY DEF IInv
  <2>2. \A l, p : p \in At(lvl, l) =>
          l \in Nat \ {0} /\ disk[p].kind = IF l = 1 THEN "leaf" ELSE "nonleaf"
    <3> SUFFICES ASSUME NEW l, NEW p \in At(lvl, l)
                 PROVE  l \in Nat \ {0} /\ disk[p].kind = IF l = 1 THEN "leaf" ELSE "nonleaf"
      OBVIOUS
    <3>1. l \in Nat \ {0} /\ disk[p] \in NodeAt(lvl, l)
      BY <2>1 DEF Levelled, Store, Levels, At
    <3> QED BY <3>1, KindOfLevel
  <2>3. op.pc = "down" => disk[op.at].kind = IF AtLeaf THEN "leaf" ELSE "nonleaf"
    <3> SUFFICES ASSUME op.pc = "down"
                 PROVE  disk[op.at].kind = IF AtLeaf THEN "leaf" ELSE "nonleaf"
      OBVIOUS
    <3>1. op.at \in At(lvl, Here)
      BY <2>1 DEF Levelled, Operation, Here
    <3>2. (Here = 1) <=> AtLeaf
      BY <2>1, HereType DEF Here, AtLeaf
    <3> QED BY <2>2, <3>1, <3>2
  <2>4. op.pc = "seek" => disk[op.at].kind = IF op.level = obj.height THEN "leaf" ELSE "nonleaf"
    <3> SUFFICES ASSUME op.pc = "seek"
                 PROVE  disk[op.at].kind = IF op.level = obj.height THEN "leaf" ELSE "nonleaf"
      OBVIOUS
    <3>1. op.at \in At(lvl, obj.height - op.level + 1) /\ op.level \in 1..obj.height
          /\ obj.height \in Nat
      BY <2>1 DEF Levelled, Operation, Object, ObjType
    <3>2. (obj.height - op.level + 1 = 1) <=> (op.level = obj.height)
      BY <3>1
    <3> QED BY <2>2, <3>1, <3>2
  <2> QED BY <2>3, <2>4 DEF DescentIsTyped
<1> QED BY <1>1, Inductive, PTL

\* The range of keys in the header, to which a select cuts its scan, covers every
\* entry inserted before a close.
THEOREM HeaderCoversSaved == Spec => []HeaderCovers
<1>1. IInv => HeaderCovers
  BY DEF IInv, Books, Within, HeaderCovers
<1> QED BY <1>1, Inductive, PTL

=============================================================================
