# Bruinbase: a verification project

Bruinbase is a single-threaded command-line program: `LOAD` appends the lines of
a text file to a table and optionally to a B+ tree index on the key, `SELECT`
answers from the table or from the index.  This directory holds TLA+ models of
its storage layers and of the engine on top of them, the TLC configurations that
check them, and TLAPS proofs.

## 1. Inventory

| Component | State | Operations | Uses |
|---|---|---|---|
| `PageFile` | per object: `fd`, `epid`; per process: `readCache[10]`, `cacheClock`, two counters | `open`, `close`, `read`, `write`, `endPid` | the unix file system |
| `BTLeafNode`, `BTNonLeafNode` | one page buffer | `insert`, `insertAndSplit`, `locate`, `readEntry`, next pointer; `locateChildPtr`, `initializeRoot` | `PageFile` for `read`, `write` |
| `BTreeIndex` | `rootPid`, `treeHeight`, `min_key`, `max_key`, a `PageFile`; page 0 of the file | `open`, `close`, `insert`, `locate`, `readForward` | nodes, `PageFile` |
| `RecordFile` | `erid`, a `PageFile` | `open`, `close`, `read`, `append`, `endRid` | `PageFile` |
| `SqlEngine` | locals of one command | `load`, `select` | `RecordFile`, `BTreeIndex` |
| `SqlParser` | none | the grammar | `SqlEngine` |

Everything is a direct call; there are no threads, no messages and no log.  What
makes the code hard is elsewhere:

* **Shared state behind objects.**  All `PageFile` objects of the process share
  one cache, keyed by the *number* of a descriptor, and the system reuses
  numbers.  Correctness depends on every write and every close undoing exactly
  the right entries.
* **Ends in the middle.**  An insert that splits writes several pages.  The
  program may end, or `load` return on an error, between any two.  The header
  page is written by `close` only, so the next session may start from a header
  older than the pages.
* **Long call sequences.**  A non-leaf is split for the first time after some
  five thousand sorted inserts.  What is wrong there (section 5) no test reaches.
* **Limits.**  Off-by-ones at the end of a leaf, of a file, of the cache; a clock
  that is an `int`.
* **Two files that have to agree.**  A row goes to the table, then to the index, in
  two files without a common commit; `load` may stop after either, and a later load
  may leave the index out.
* **Failing calls**, several of whose results are ignored.

What makes each component correct:

* `PageFile`: whatever the cache does, a read returns the page last written;
  `endPid` is the length of the file; the cache keeps the pages used last.
* Nodes: sorted, no entry lost by a split, and every key routed to one child.
* `BTreeIndex`: the ordered set of what was inserted, also after reopening; after
  an early end, a structure that later sessions can still walk.
* `RecordFile`: a log in which the n-th append is the n-th record, also after
  reopening.
* `SqlEngine`: the index leads to rows of the table only, and to all of them while
  every load went through it; the answer is that of a scan of the table, by whichever
  path; every command returns.

`PROJECT.json` lists the hazards line by line, with the properties that cover them.

## 2. Plan

All parts that keep state are modelled, in this order:

1. `PageFile` under `PageStore` and `LruCache`; safety and both refinements proved.
2. `BTNode`, `BTreeIndex` under `Index`, with failing writes, early ends and equal keys.
3. Proofs about `BTreeIndex`: `NoDangling`, `DescentIsTyped`, `HeaderCovers`.
4. `RecordFile` under `RecordLog`; all of its properties proved.
5. `SqlEngine` over `BTreeIndex` and the log of `RecordLog`: `load` and `select`, both
   paths against one reference answer, the descriptors.
6. Proofs about `SqlEngine`, and about the chain of leaves under it: `ChainEnds`,
   `SavedOnChain`, `NoRowTwice`; order and routing of single nodes for every capacity.
7. Proof that `BTreeIndex` implements `Index` as long as nothing of section 5 gets in the
   way: `IsIndex`, `LocateFindsStored`.
8. Proofs about a select by the index, over whatever earlier commands have left:
   `IndexIsAnswer`, `ReadsAreSet`.

What is left:

* failing reads below an open index (hazard at `BTreeIndex.cc:251`): their results are
  ignored, and nothing now stated of the index would survive one.

## 3. Modules

| Module | Models | Kind |
|---|---|---|
| `PageFile` | `PageFile.cc` and the system calls it makes | state machine |
| `PageStore` | what `PageFile.h` promises: pages, no cache, no descriptors | abstract specification |
| `LruCache` | a cache that gives up the page used least recently: pages and their order of use | abstract specification |
| `PageFileProofs` | theorems on `PageFile` | proofs |
| `BTNode` | `BTreeNode.cc` | operators on nodes |
| `MCBTNode` | grows every small node and checks each operation on it | model-checking module |
| `BTNodeProofs` | what the node operations return, for every capacity | proofs |
| `MCBTNodeProofs` | theorems on `MCBTNode`: order, contents, routing | proofs |
| `BTreeIndex` | `BTreeIndex.cc` over a page store | state machine |
| `Index` | what `BTreeIndex.h` promises: an ordered set with a cursor | abstract specification |
| `BTreeIndexProofs` | theorems on `BTreeIndex`: types, pointers, levels, header | proofs |
| `BTreeChainProofs` | theorems on `BTreeIndex`: the chain of leaves | proofs |
| `BTreeOrderProofs` | theorems on `BTreeIndex`: it implements `Index` | proofs |
| `RecordFile` | `RecordFile.cc` over a page store | state machine |
| `RecordLog` | what `RecordFile.h` promises: a log of records | abstract specification |
| `RecordFileProofs` | theorems on `RecordFile` | proofs |
| `SqlEngine` | `SqlEngine.cc` over an index and a table | state machine, extends `BTreeIndex` |
| `SqlEngineProofs` | theorems on `SqlEngine` | proofs |
| `MCPageFile`, `MCBTreeIndex`, `MCSqlEngine` | symmetry, key sets, the sorted load; load files and queries | model-checking modules |

The layers are put together as the code is.  `BTreeIndex` and `RecordFile` read and
write pages of `disk` directly; that this is what a `PageFile` amounts to is the
theorem `ImplementsPageStore` (and the run `pagefile_cache`).  `SqlEngine` *extends*
`BTreeIndex`: its commands take the index's own steps, one page write at a time, and
the theorem `EngineUsesIndex` says that they take no others.  Its table is a sequence of
rows with places as record ids; that this is what a `RecordFile` amounts to is the theorem
`ImplementsRecordLog` (and the run `recordfile`).

### PageFile

`cache[s]` is `readCache[s]` and `clock` is `cacheClock`; `pf[h]` holds the members
of object `h`.  `disk`, `size`, `present` and `fdTable` are the files and the descriptor
table that the system keeps; `::open` returns the lowest free descriptor, and
Linux releases a descriptor even when `::close` reports an error.  Each call is
one action, with one more for each way to fail.  `Drop` is an object that goes
away without `close` (there is no destructor), `Restart` the end of the process
at any point.  `cacheClock` wraps around past `ClockMax`, as the build does.  `out`
records what the last call returned, and the page it was asked for.

`PageStore` allows an error only with its reason: an open may fail (the store has no
descriptors to tell when), a read of a page that is not there, a write below page 0,
through an object that may not write, or where `::write` may fail.

Under `LruCache` the pages held are those of the live slots, and their order of use is read
off the slots' last accesses (`Held`, `Later`); which slot a page is in is left out.  A page leaves
the cache only for a read of another one, by a write of its own, by the `close` of a
descriptor, or with the process.

The constants `Faults` and `Sharing` say which system calls may fail and whether
one file may be open through several live objects.

### BTNode

A node is a record with its sequence of entries.  `Insert` places an entry before
the first one with an equal or larger key.  The loops of the splits insert the
moved entries one by one, which turns equal keys around; `Reinserted` says so in
closed form, which the run `btnode` checks against the loop (`OneByOne`) and
`ReinsertsOneByOne` proves equal to it.  `NonLeafSplit` calls
`NonLeafInsert`, which leaves a full node as it is: that is the code's behaviour,
not a simplification.  The capacities are constants, assumed even as they are in the
code (84 and 126).  `MCBTNode` assumes its keys to be ints (`KeyAssumption`), and no more.

### BTreeIndex

`obj` holds the members of the object, `op` the insert or locate in progress: its
place (`at`), the nodes kept by the active calls of `insertNonLeaf` (`held`), the page
about to be written (`page`) and the overflow entry on its way up (`over`).  Each
page write is a step of its own:

* `InsertCall`, then `InsertFirst` in an empty tree, otherwise `Descend` to the leaf;
* `InsertInLeaf`, or `SplitLeaf` (sibling) and `WriteLeft` (the split leaf);
* `InsertInNonLeaf`, or `SplitNonLeaf` and `WriteLeft`, or `NewRoot`.

`InsertFails` is a write that fails: every level returns the error and
`SqlEngine::load` returns without `close`.  `Abandon` is the object going away without
`close`.  `acked` and `saved` are histories: the entries that `insert` answered
OK for in sessions not abandoned, and those of them followed by a `close`.  A cursor
is kept from `locate` through `readForward`s; a session that inserts drops it.

In `Index` a `locate` asks for a key and is answered for that key (`sought`, which the
refinement reads off the descent in progress: `Asked`).  `LocateFindsStored` and `LocateFindsSaved` say that
a locate finds what is there; `LocateIsNotLate`, of trees that early ends and non-leaf splits have spoiled,
that one which finds nothing has stopped at or before what it was to find, so that the
entries from the key on are still ahead of the cursor, unless a key is there twice.

Several entries may have the same key; `bindex_crash` and `sql` have such.

`OrderlySpec` is `Spec` without what makes the tree lose order: `Orderly` forbids a second insert of
a key, a write of an insert that fails, a writer that ends without `close`, and the split
of a full non-leaf.  Failing header writes and opens, readers that end anywhere, and any number of
leaf splits and sessions remain.  With the capacities of the code that is a tree of one
or two levels, some five thousand keys at least.

The steps between a failing write and the return to `load` are one step.  A caller
that goes on with the object and closes it after the write of the *first* root
failed would store a height of 0 with a root in place; no caller does.

### RecordFile

`disk[p]` is a page: its record count and its slots.  `obj` is the object, how it is open
and `erid`; nothing else remembers where the table ends.  `EndRid` is how `open` finds it:
from the length of the file and the count of the last page.  `AppendTo` is the page that
`append` starts from (read, or all zeros), `Filled` what it writes.  A value is its first
characters and whether there are more, which `writeSlot` cuts off.  Reads of every record
id, valid or not, are among the inputs.  `Close` stands for `close` and for
an object that goes away at any moment; an append is one page write, so nothing is
half done.  After a page that cannot be read all callers give up (`SqlEngine.cc:132`,
`:255`, `:355`), which is part of the failing action.

### SqlEngine

`cmd` is the command in progress: the locals of `load` or `select`, and `pc`, the place it
is at.  `table` holds the rows, `files` says which of the two files exist, `fds` counts
the descriptors the process has open; `held` are those that the objects of the command
hold.  `whole` is a history variable: every load so far was WITH INDEX and ended as it
should.

* `LoadCall` to `LoadEnds` are `load`; each page write of the index is a step
  (`LoadInserts`), each early return a part of `LoadCannotOpen` or `LoadGivesUp`.
  `LoadEndsUnsaved` is a header that could not be written, which `load` does not notice.
* `SelectCall` finds the range of keys; a scan is `ScanOpens`, `ScanRow`, `ScanEnds`, the index path
  `SelectOpensIndex`, `SelectLocates`, `SelectReads`, then for each entry
  `SelectSkips` (`<>`), `SelectOpensTable`, `SelectRow`, and `IndexEnds`.
* `Kill` ends the process at any moment, and starts the next one.

Keys are an `int` with its width (`Wrap`); values are ranks, since only the order of
`strcmp` matters.  Of a line of a load file the model keeps its key or that it has none
(`atoi` gives 0), and its value or that there is no comma.  What a select prints is kept
as `printed`, with the place of each row beside it, which no property of the
printed text could tell.

`IndexedAreRows` and `IndexIsComplete` relate the two files.  `ScanIsAnswer` and
`IndexIsAnswer` state what `SqlEngine.h:41-52` promises, the rows that meet every condition
(`WantedRows`), under the hypotheses under which the code keeps it: no overflow in the scan; on the index path an
index as its last close left it, that finds what it has and has no key twice (`IndexIsSound`), every
row that is wanted in that index and with a key from 0 up (`Reachable`), and no
`value >` (`Answerable`).  `ReadsAreSet` is stated for sound indexes too.  Section 5 has what happens
outside these hypotheses.

The load file has a descriptor for as long as a load runs (`FdLimit`).  Opening a table with
records reads its last page, so it fails when that read does (`LastPageFails`, `TableCannot`).

## 4. Runs

Bounds are chosen so that the interesting step happens; each is named in the cfg.

| Run | Instance | Shows |
|---|---|---|
| `pagefile_cache` | 2 files of 1 page, 2 objects, 2 descriptors, 1 slot, clock in -2..1 | the cache agrees with the disk and with the descriptor table; `endPid`; refinement of `PageStore` |
| `pagefile_lru` | 1 file of 3 pages, 2 slots, clock to 6 | refinement of `LruCache` before the clock wraps |
| `pagefile_faults` | 1 file of 2 pages, 2 objects on it, 2 slots, all calls fail at will | one live slot per page |
| `pagefile_poison` | 2 files, 2 objects, `::read` fails at will | violated, see section 5 |
| `btnode` | capacities 4, keys 1..5, 2 rids | order, contents and routing of all node operations |
| `bindex_order` | leaves of 2, non-leaves of 4, 6 distinct keys in all orders, 1 failing open or header write, readers that end early | under `OrderlySpec`: refinement of `Index`; every stored key is located |
| `bindex_crash` | 3 keys with 2 record ids each, 4 inserts, 1 failing write, early ends | pointers, levels, chain, header range; a locate is never past what it looks for |
| `bindex_deep` | a sorted load of 9 keys, 1 failing write, early ends from the fifth insert on, locates from the seventh on | the same through a split of a non-leaf; every insert returns |
| `bindex_split`, `bindex_header` | 9 sorted keys; 4 keys | violated, see section 5 |
| `recordfile` | 2 slots a page, 3 pages, 2 keys, a value that is cut | refinement of `RecordLog`; where open finds the end |
| `sql` | 3 commands, 3 load files, 11 queries, 16 keys, leaves of 4, 3 descriptors, 1 failing write, table calls that fail, kills | index against table, both select paths against the reference answer, every command returns |

Two slots and three pages are the least in which eviction has a choice, and
one slot with two descriptors the least in which it happens at all; two files
are the least in which a descriptor number is reused for another file.
A leaf of 2 and a non-leaf of 4 are the smallest even capacities with which both
splits work as with 84 and 126: a non-leaf of 2 would not have the entry after the
middle one that the split moves.  With them six
sorted keys fill the root of a tree of height two, the seventh splits it, and two more go
into the tree of height three.  In `bindex_crash` three keys are inserted
again after early ends, so that a leaf splits over the remains of an unfinished split;
two record ids give equal keys on both sides of a separator.
`bindex_order` is checked under `OrderlySpec`, with one record id, since a key is inserted
once.  Six keys split leaves under a root that is a non-leaf; without `Orderly` its
properties fail (section 5).

In `recordfile` two slots and three pages give a page that is empty, partly filled and full,
as first, middle and last one.  In `sql` three commands are two loads and a select of
what they left: plain then indexed, indexed then killed or failing, twice the same index.
The first load file fills a leaf and splits it, with a gap before the separator, so that a
locate may end behind a leaf's last entry and the first read is repeated; the second repeats a key and has one
below 0, the third fails in its second line after a key that is no number.  With three
descriptors, one of them the load file's during a load, the leaks of two commands are felt by the third.  The queries reach each
comparison, both paths for each kind of output, a conflict, an overflowing `key > 7` and
an empty range.

**Deadlock** is checked everywhere, and never found: a program can always be ended.

**Fairness.**  `FairSpec` has weak fairness of `InsertStep` only: once `insert` is called
the program executes its steps and waits for nothing.  Nothing is assumed of opens,
closes, calls or failures.  `FairEngineSpec` has weak fairness of
`LoadStep \/ SelectStep`, the steps of the command in progress: commands wait for
nothing either, and nothing is assumed of their being called or killed.

## 5. What the code does not do

Three runs state what a comment in the code says and find it violated:

* `bindex_split`: when a full non-leaf is split, the entry for the new child is
  lost (`BTreeNode.cc:395`).  The compiled program shows it: after a sorted load of 6000
  keys with index, 43 keys are not found by `locate`; after 12000, 129.  The scan
  of the leaves still meets them (`SavedOnChain` holds in `bindex_deep`).
* `bindex_header`: the header is written by `close` only, and `load` returns early on
  an error.  A later session starts from the old root; the entries that moved
  to the root's sibling are not located.
* `pagefile_poison`: a failing `::read` leaves its slot labelled; the next read
  of the page answers 0 with something else.

More was seen while modelling and has no run of its own.

* With several objects on one file (`test_bindex.cc` has three) a write does not
  invalidate what was cached through another; the engine never shares a file.
* `close` of an index opened for reading fails on the header write
  (`BTreeIndex.cc:110`), so each indexed `SELECT` leaves a descriptor open (the compiled
  program does); a load that fails leaves up to two, and an index file that is
  empty leaves one behind each select that falls back to the scan.
* Equal keys: an equal separator goes in *before* the old one, so that the next leaf of the
  chain is not the next child, and `locate` misses entries.  They stay on the chain, once.
* Equal keys again: when the upper half of a split non-leaf has two equal separators, the
  loop of the split turns them around.  A larger key stored under the second is then sent to
  the first, and if that is the last leaf and has no key as large, `locate` leaves the cursor behind its
  last entry.  `readForward` answers `RC_INVALID_CURSOR` with the key of an unused slot, and
  `select` takes it for a key it has read.  So `ReadsAreSet` is stated for sound indexes only, and this one
  is not: it has a key twice.  The compiled
  program shows it after some 5100 sorted keys, one of them 130 times, and
  a split elsewhere: `locate` answers -1012, `readForward` -1011 with key 0.
* On the index path `value > 'x'` drops the values above `x` (`SqlEngine.cc:264`): the
  same query answers differently by the scan.  Rows with keys below 0 are missing from the answer (`:59`), a `<>`
  is forgotten after its first match (`:236`), and `key > 2147483647 AND key < 5`
  is answered like `key < 5`, since `atoi(...)+1` overflows (`:93`).
* No key is compared with `start_key` (`:229`).  From a header that is older than the
  leaves, `locate` may stop too early, and `key = 7` then prints smaller keys.
* The scan compares keys by their difference, which overflows (`:140`).
* `key = 3 AND key = 4` prints nothing, not even the 0 of `count(*)`, and returns an `rc`
  that was never set (`:82`).
* `load` does not look at the result of `btree.close` (`:366`), and returns 0 with the header
  unwritten.
* A first load WITH INDEX after one without makes an index of the later rows only,
  and selects that use it answer without the others (`:369`).

## 6. Proofs

`PageFileProofs` proves, for every number of files, objects, descriptors, slots and
pages, every set of contents and every clock width:

* `TypeCorrect`: `Spec => []TypeOK`, and `OneSlotSuffices`: `Spec => []OneSlotPerPage`,
  with no assumption on failures or sharing;
* under `Disciplined` (one live object per file, `::read` and `::close` do not fail;
  `::write` may): `CacheIsCoherent`, `NoStaleDescriptor`, `EndPidCorrect` and
  `ImplementsPageStore`;
* `ImplementsLruCache` (`IsLruCache`): until the clock wraps (`SpecBeforeWrap`) and if `::read` does
  not fail, with any sharing, the slots are the cache of `LruCache`.

The four under `Disciplined` rest on one inductive invariant, `Coherence`.  That the cache agrees with the disk
is not inductive alone: `write` clears one slot and stops, so a page must have at most
one (`OneSlotPerPage`); `open` gets a number that entries may not be left under
(`CachedAreOpen`); a write through one object may not be to the file of another
(`OwnFile`); and an object without descriptor must have no pages, or `read` would be
let through (`IdleIsFresh`).  The refinement maps an object to the file and mode behind
its descriptor, and each action to one of `PageStore`.

`Disciplined` is what `load` and `select` do: each opens a table and an index, different
files, through one object each.  Without it they are false: `pagefile_poison` shows it for a failing `::read`.

`ImplementsLruCache` rests on `OneSlotPerPage`, by which the live slots count the pages held (`HeldCount`), and on
`Aged`: the clock is ahead of every access and no two live slots have the same one, so that the smallest
`lastAccessed` is that of one slot, an empty one before any other.  The step that needs it is the
choice of the victim: the slots that are not evicted keep their order, and the new page is last in it
(`UsedLast`).  A wrapped clock breaks `Aged`; a failing `::read` evicts a page and returns none.

`BTreeIndexProofs` proves, for every set of keys and record ids, all even capacities
(`LeafMaxAssumption`, `NonLeafMaxAssumption`) and whether or not writes fail and
writers die (`MaxFaults` and `MaxCalls` are any numbers):

* `TypeCorrect`, `PointersLeadToPages` (`NoDangling`), `DescentsAreTyped`
  (`DescentIsTyped`) and `HeaderCoversSaved` (`HeaderCovers`).

A pointer is right because of what the page behind it is, and a page does not say
at which level it stands.  So the inductive invariant `IInv` says that levels *can* be
given: there is a function `lvl` from pages to levels under which each page holds a node of
its level (`NodeAt`: the next of a leaf is a leaf, the children of a node of level l are
of level l - 1), the header's and the object's root is of the level of their
height, and the nodes an insert holds, the half it is about to write and its overflow
entry are of the levels they are meant for (`Operation`).  A page keeps its level
for ever, so a step either writes a node over one of its own level (`Overwritten`) or adds
a page and extends `lvl` (`Appended`, with `Grown`).  An old header, or the remains of a split that
was cut short, are no exception: their pages are of their levels too.  `Books` carries
the key range: an object covers all that was inserted through it, the header all
that was saved.  From `BTNodeProofs` come the facts that a search stops inside its
node (`LocateRange`), that a descent follows a pointer of the node (`ChildPtrType`), and that splits
give nodes of the same kind of entries (`LeafSplitType`, `NonLeafSplitType`); the sibling's
entries are a permutation because ranks are distinct (`RankIsStrict`, `EveryRank`).

`MCBTNodeProofs` proves, for every capacity the code may have, any set of int keys and any
record ids, what the run `btnode` checks for capacity four: `LeafSplitsHalve`, `InsertsKeepOrder`,
`InsertsRoute` and `SplitsRoute`.  The specification of `MCBTNode` grows a node by the operations
themselves, so the invariant `NodeInv` says that it is sorted and within its capacity, and `DidInv` that
what was done to it was asked of such a node.  A non-leaf never holds a key twice in it,
which its guards say; with equal separators `InsertRoutes` is false.

`ReinsertsOneByOne` (`ReinsertedIsInserted`) says that the closed form of the splits' loop is the loop.  What one
more turn does is a lemma on sorting with ranks (`ReinsertedAppend`); the loop is a recursive
function, and the least turn after which the two differed would have an equal one before it.

`BTreeChainProofs` proves, under the assumptions of `BTreeIndexProofs`, `ChainsEnd` (`ChainEnds`) and
`SavedStaysOnChain` (`SavedOnChain`).  Both are about a recursive function, `Chain`, and an induction over
it is out of reach.  The invariant `CInv` therefore says that three things exist: `rank`, a function that
counts, for each leaf on the chain, the leaves after it, so that `next` takes one off and only the
last has none (`Strung`); `live`, a set of pages closed under children, whose leaves are all on the
chain; and `spine`, the pages from which the way down the first children leads to the leaf of the
largest rank (`Woven`).  Roots, old headers too, are in `spine`, and an insert in progress
holds pages of `live` only (`Going`).  A leaf split is two writes.  After the first one the sibling is
in the file and on no chain (`Unlinked`: its entries and those of the half about to be written are those of
the leaf and the new one), and if the writer ends there it is garbage; the second one links it and takes the
moved entries out, at once, and every rank before it goes up by one.  A non-leaf that is split moves pages of
`live` between nodes of `live`; it may lose the way to a leaf but not the leaf.  From `rank` the value of `Chain`
is found without induction: the least rank at which it were wrong has a right one
below it.

It also has `Once`: no entry stands at two places of the chain.  It is kept by every step of
the index provided that an inserted entry is not there yet, and is false otherwise, as an
insert of the same pair twice shows.

`BTreeOrderProofs` proves, under the assumptions of `BTreeIndexProofs` and for `OrderlySpec`,
`TreeIsIndex` (`IsIndex`: the refinement of `Index`) and `OrderedTreeFinds` (`LocateFindsStored`).  None of the exclusions of `Orderly` can be had for less:
`bindex_split` shows what a non-leaf split loses, `bindex_header` a writer that does not close; a failing
insert may leave a leaf that no separator leads to, and equal keys one that it
does not lead to in time (section 5).  The inductive invariant `SInv` adds to `IInv` that there are
leaves `C` and a function `low`, the least key that may be sent to each, such that

* `InOrder`: `low` orders the leaves as the chain does, each leaf's keys ascend from its `low` on and stay
  below that of its next (`Covers`), and no two leaves have the same;
* `Content`: the leaves hold what was inserted, and nothing else;
* `LeadsTo`: the root is the one leaf, or a non-leaf whose separators are the `low`s of its
  children (`Fits`), so that every key is sent to the leaf that covers it (`FitsRoutes`);
* `Stage`: an insert or locate on its way stands at the leaf that covers its key.  Between the two writes of a
  leaf split the sibling is not in `C` (`Severed`); the second write puts it there, with the
  reported key as its `low`, and until the separator is above it the node leads to all leaves but it (`Led`);
* `Session`, `CursorFits`: the header of a reader is the tree, and a cursor stands at an entry of a leaf of `C`,
  or behind the last one after a `locate` that missed.

That keys are found is not inductive alone: it needs every leaf to cover its keys, and the root to
lead to the leaf just split before `insert` returns.  The refinement maps the cursor to the entries ahead of it on the chain, and the descent in progress to the question asked.
`AheadRemains` says what they are without the recursion of `Chain`: the rest of the cursor's leaf, and the
leaves of larger `low`.

A select has to answer from an index that was not only used as `OrderlySpec` allows.  For `Spec`
itself, with killed writers, failing writes, equal keys and split non-leaves, the second half of the module proves that
`Order` is kept: the tree of the header is sorted in the sense above (`IsSorted`), or a key
is about to be put in a second time (`Doubling`), or it is `Spoiled`: its leaves hold a key
twice, or an entry that no close has saved, or the tree does not lead to a leaf of the chain.
A spoiled tree stays spoiled (`SpoiledStays`), and an index that is as its last close left it, in
which every key is found and none is there twice, is not spoiled (`SpoiledIsUnsound`).  `Sitting` carries what
a session knows of the header beside `acked` and `saved`, and `Paired`, for leaves of more than two entries, that a leaf
another one leads to has two entries at least, since a split gives both halves two.

`RecordFileProofs` proves, for every number of slots of a page, every set of keys and values
and every number of pages: `TypeCorrect`, `EndIsFoundAgain` (`EndIsKept`) and
`ImplementsRecordLog` (`IsRecordLog`).  The invariant is `TypeOK` with `EndIsKept`: the pages
before the last are full and the last holds a record, without which the length of the file
and one count would not say where the end is.  The refinement reads the n-th record in
slot n % 9 of page n \div 9; `NextRidIsNextPlace` and `BeforeIsSmallerPlace` say
that `operator++` and `operator<` are + 1 and < on these places.

`SqlEngineProofs` proves, for every set of load files and queries, every width of int and
all capacities, whatever fails and whenever the process is killed:

* `EngineUsesIndex`: `EngineSpec => Spec` of `BTreeIndex`.  So all its theorems hold of the
  engine's index; `EngineKeepsIndex` draws the conclusion;
* `EngineTypeCorrect` (`EngineTypeOK`): the invariant `Counted` adds that an index with pages has
  its file, and that no range of keys leaves the ints, for which the key range of
  a header has to be made of keys or of the two ends of int (`Bound` in `BTreeIndexProofs`);
* `IndexedRowsExist` (`IndexedAreRows`): the invariant `LeavesOf(Rows)` says of every leaf on
  disk, every entry of an insert in progress and every half about to be written that
  its entries are rows.  Rows only grow, so only the steps of an insert count, and
  the split neither invents an entry nor changes one;
* `IndexedLoadsAreComplete` (`IndexIsComplete`): the invariant `Complete` gives, for each place of
  a load, the rows that `acked` is ahead of or behind;
* `TablesAreClosed` (`TableIsClosed`), from where the table is open (`Closing`);
* `ScansAnswer` (`ScanIsAnswer`): the invariant `Scanned` says that what has been printed are
  the lines of the rows passed so far that meet the conditions, in order.  Where no difference
  overflows, `Wrap` changes nothing and the conditions mean what they say.

* `EngineKeepsChain`: what `BTreeChainProofs` says holds of the engine's index;
* `NoRowIsPrintedTwice` (`NoRowTwice`), which is about any state of the index that failures and kills
  leave.  `load` inserts the place of the row just appended, and every entry of a leaf is
  a row that was there before (`IndexedRowsExist`), so it is new (`InsertedIsNew`) and `Once` holds.  The invariant
  `Reading` relates the command to the cursor: the entries of what has been printed are
  behind the cursor (`Past`: in a leaf of larger rank, or earlier in the same one), and the entry
  just read is not one of them (`ReadIsNew`).  It holds although the first
  read may find no entry and be repeated.  On the scan `Scanned` gives an increasing order;
* `SoundIndexAnswers` (`IndexIsAnswer`).  The index is as `Order` says, and where it is sorted the invariant
  `Progress` says how far a select has come: until it has read an entry, those ahead of the cursor are the
  saved ones from the start of the range on (`Searching`); from then on (`Listing`, `Passing`) what is printed are the lines of the
  entries passed that meet the conditions, in key order, and a `<>` that was dropped
  is of a key passed.  `Seated` says at which places of a command the index is open, and `InReach` that cutting the
  range to the header's keys has cut off no saved entry.
  What is printed are then the rows of the saved entries from key 0 up that are wanted, and with `Reachable`
  those are all the rows wanted;
* `SoundIndexReads` (`ReadsAreSet`).  The invariant `Looking` says that until a select has read an entry one is ahead of the
  cursor.  The second read, whose status is ignored, is of a leaf that another one leads to, which has two
  entries at least (`Paired`), so that the first of them is not the last.  For that the theorem
  assumes `LeafMax > 2`, and `IntMin < 0` for the start of a range; the code has 84 and `int`.

They rest on `EInv`, which adds to the index's `IInv` the shape of a command at each of
its places.  What is assumed: the constants' assumptions in `SqlEngine.tla`, that keys are all
the ints, queries have int conditions on keys, and load files are sequences of lines.

Only model-checked is liveness (`InsertReturns`, `CommandReturns`), which is out of the prover's
reach, and `LocateIsNotLate`: it is about the order of trees from which splits have lost separators,
for which `SInv` has no invariant.

## 7. Not modelled

The bytes of pages and records, the counters `readCount` and `writeCount` (a read's answer
records whether it went to disk), print routines, the mode characters other than
`r` and `w`, `fstat` failing, short writes, pages beyond the 2 GB that `seek` can reach,
failing reads below an open index, a load file that cannot be opened (nothing changes), a read
at a cursor that was never set (`readForward` would take the header for a leaf; that none is
made on a sound index is `ReadsAreSet`),
the characters of a load line, `RecordFile`'s constructor that opens (unused).
`SqlParser` has no state: it calls `load` or `select` once per command and drops the
result.  `main` and the tests are callers.
