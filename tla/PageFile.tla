------------------------------ MODULE PageFile ------------------------------
(***************************************************************************)
(* PageFile (PageFile.h, PageFile.cc): a unix file read and written in     *)
(* pages, behind a read cache that every PageFile object of the process    *)
(* shares (the static array readCache).  The cache is keyed by file        *)
(* descriptor, filled by read, invalidated by write and by close, and      *)
(* evicts its least recently used slot.                                    *)
(*                                                                         *)
(* What is under the code, the unix file system and descriptor table, is   *)
(* modelled from the system calls PageFile.cc makes: disk, size, present   *)
(* and fdTable.  A handle is a variable of type PageFile in a caller.      *)
(***************************************************************************)
EXTENDS Integers, FiniteSets

CONSTANTS
  File,        \* names of unix files
  NoFile,      \* not a file: what a closed descriptor refers to
  Handle,      \* PageFile objects
  Fds,         \* descriptors the process may hold
  CACHE_COUNT, \* slots of the read cache
  MaxPages,    \* bound: pages of a file
  Content,     \* contents of a page
  Zero,        \* the page of zeros a sparse write leaves behind
  ClockMax,    \* the largest value of the int cacheClock
  Faults,      \* the system calls that may fail: subset of {"read", "write", "close"}
  Sharing      \* TRUE: a file may be open through several live handles

ASSUME FileAssumption    == NoFile \notin File
ASSUME FdsAssumption     == Fds \subseteq Nat \ {0}
ASSUME CacheAssumption   == CACHE_COUNT \in Nat \ {0}
ASSUME PagesAssumption   == MaxPages \in Nat \ {0}
ASSUME ContentAssumption == Zero \in Content
ASSUME ClockAssumption   == ClockMax \in Nat \ {0}

VARIABLES
  disk,    \* disk[f][p]: what page p of file f holds
  size,    \* size[f]: the length of f in pages
  present, \* the files that exist
  fdTable, \* the process's descriptor table
  pf,      \* pf[h]: the members fd and epid of the object h
  cache,   \* readCache
  clock,   \* cacheClock
  out      \* what the last call returned

vars == <<disk, size, present, fdTable, pf, cache, clock, out>>

-----------------------------------------------------------------------------
Pid  == 0..(MaxPages - 1)
Slot == 0..(CACHE_COUNT - 1)
Clock == (-ClockMax - 1)..ClockMax

OpenFile == [file : File, mode : {"r", "w"}]
Closed   == [file |-> NoFile, mode |-> "r"]

Fresh == [fd |-> -1, epid |-> 0]                       \* PageFile::PageFile()
CacheEntry == [fd : Fds \cup {0}, pid : Pid, last : Clock, data : Content]
EmptySlot == [fd |-> 0, pid |-> 0, last |-> 0, data |-> Zero]

Codes == {"OK", "RC_FILE_OPEN_FAILED", "RC_FILE_CLOSE_FAILED",
          "RC_FILE_SEEK_FAILED", "RC_FILE_READ_FAILED",
          "RC_FILE_WRITE_FAILED", "RC_INVALID_PID"}

Answer == [call : {"none", "open", "close", "read", "write"}, handle : Handle,
           rc : Codes, pid : Pid \cup {-1}, data : Content, miss : BOOLEAN]

\* A call's return: data is the caller's buffer, miss tells that readCount grew.
ReplyOn(call, h, p, rc) ==
  [call |-> call, handle |-> h, rc |-> rc, pid |-> p, data |-> Zero, miss |-> FALSE]
Reply(call, h, rc) == ReplyOn(call, h, 0, rc)
Got(h, p, v, miss) ==
  [call |-> "read", handle |-> h, rc |-> "OK", pid |-> p, data |-> v, miss |-> miss]

Init ==
  /\ disk    = [f \in File |-> [p \in Pid |-> Zero]]
  /\ size    = [f \in File |-> 0]
  /\ present = {}
  /\ fdTable = [n \in Fds |-> Closed]
  /\ pf      = [h \in Handle |-> Fresh]
  /\ cache   = [s \in Slot |-> EmptySlot]
  /\ clock   = 1
  /\ out     \in {Reply("none", h, "OK") : h \in Handle}

-----------------------------------------------------------------------------
(* Opening and closing.                                                    *)

\* ::open takes the lowest free descriptor.
LowestFree(n) ==
  /\ fdTable[n] = Closed
  /\ \A m \in Fds : fdTable[m] = Closed => n <= m

Open(h, f, mode) ==
  /\ pf[h].fd = -1
  /\ mode = "w" \/ f \in present
  /\ \E n \in Fds :
       /\ LowestFree(n)
       /\ fdTable' = [fdTable EXCEPT ![n] = [file |-> f, mode |-> mode]]
       /\ pf' = [pf EXCEPT ![h] = [fd |-> n, epid |-> size[f]]]
  /\ present' = present \cup {f}
  /\ out' = Reply("open", h, "OK")
  /\ UNCHANGED <<disk, size, cache, clock>>

\* The object is already open, the file does not exist, or no descriptor is free.
OpenFails(h, f, mode) ==
  /\ \/ pf[h].fd > 0
     \/ mode = "r" /\ f \notin present
     \/ \A n \in Fds : fdTable[n] # Closed
  /\ out' = Reply("open", h, "RC_FILE_OPEN_FAILED")
  /\ UNCHANGED <<disk, size, present, fdTable, pf, cache, clock>>

Cleared(c) == [c EXCEPT !.fd = 0, !.pid = 0, !.last = 0]

\* close forgets the cache.
MutEvictAll(n) == cache

\* The live entries of descriptor n are dropped from the cache.
EvictAll(n) ==
  [s \in Slot |-> IF cache[s].fd = n /\ cache[s].last # 0
                  THEN Cleared(cache[s]) ELSE cache[s]]

Close(h) ==
  /\ pf[h].fd > 0
  /\ fdTable[pf[h].fd] # Closed
  /\ fdTable' = [fdTable EXCEPT ![pf[h].fd] = Closed]
  /\ cache' = EvictAll(pf[h].fd)
  /\ pf' = [pf EXCEPT ![h] = Fresh]
  /\ out' = Reply("close", h, "OK")
  /\ UNCHANGED <<disk, size, present, clock>>

\* Nothing is open, or ::close reports an error: Linux has released the
\* descriptor by then, and PageFile returns before it evicts anything.
CloseFails(h) ==
  /\ \/ /\ pf[h].fd > 0 => fdTable[pf[h].fd] = Closed
        /\ UNCHANGED fdTable
     \/ /\ "close" \in Faults
        /\ pf[h].fd > 0
        /\ fdTable' = [fdTable EXCEPT ![pf[h].fd] = Closed]
  /\ out' = Reply("close", h, "RC_FILE_CLOSE_FAILED")
  /\ UNCHANGED <<disk, size, present, pf, cache, clock>>

\* The object goes out of scope without a close: PageFile has no destructor,
\* so the descriptor stays open, and the next object in its place is new.
Drop(h) ==
  /\ pf[h] # Fresh
  /\ pf' = [pf EXCEPT ![h] = Fresh]
  /\ out' = Reply("none", h, "OK")
  /\ UNCHANGED <<disk, size, present, fdTable, cache, clock>>

\* The process ends, at any moment, and is started again.
Restart ==
  /\ fdTable' = [n \in Fds |-> Closed]
  /\ pf'      = [h \in Handle |-> Fresh]
  /\ cache'   = [s \in Slot |-> EmptySlot]
  /\ clock'   = 1
  /\ out'     \in {Reply("none", h, "OK") : h \in Handle}
  /\ UNCHANGED <<disk, size, present>>

-----------------------------------------------------------------------------
(* Reading and writing.                                                    *)

\* A live entry is taken to have a positive age.
MutHolds(s, n, p) == cache[s].fd = n /\ cache[s].pid = p /\ cache[s].last > 0

\* Slot s is the first whose live entry is page p of descriptor n.
Holds(s, n, p) == cache[s].fd = n /\ cache[s].pid = p /\ cache[s].last # 0
Serves(s, n, p) == Holds(s, n, p) /\ \A t \in Slot : t < s => ~Holds(t, n, p)

\* ::lseek fails on a descriptor that is not open.
CanSeek(n) == n > 0 /\ fdTable[n] # Closed

\* write forgets the cache.
MutInvalidated(n, p) == cache
Invalidated(n, p) ==
  [s \in Slot |-> IF Serves(s, n, p) THEN Cleared(cache[s]) ELSE cache[s]]

\* endPid is raised only by a write past it.
MutEndAfter(end, p) == IF p > end THEN p + 1 ELSE end
EndAfter(end, p) == IF p >= end THEN p + 1 ELSE end

Write(h, p, v) ==
  LET n == pf[h].fd IN
  /\ p >= 0
  /\ CanSeek(n)
  /\ fdTable[n].mode = "w"
  /\ LET f == fdTable[n].file IN
       /\ disk' = [disk EXCEPT ![f][p] = v]
       /\ size' = [size EXCEPT ![f] = IF p >= @ THEN p + 1 ELSE @]
  /\ cache' = Invalidated(n, p)
  /\ pf' = [pf EXCEPT ![h].epid = EndAfter(@, p)]
  /\ out' = ReplyOn("write", h, p, "OK")
  /\ UNCHANGED <<present, fdTable, clock>>

WriteFails(h, p) ==
  LET n == pf[h].fd IN
  /\ \/ p < 0 /\ out' = ReplyOn("write", h, p, "RC_INVALID_PID")
     \/ p >= 0 /\ ~CanSeek(n) /\ out' = ReplyOn("write", h, p, "RC_FILE_SEEK_FAILED")
     \/ /\ p >= 0
        /\ CanSeek(n)
        /\ fdTable[n].mode = "r" \/ "write" \in Faults
        /\ out' = ReplyOn("write", h, p, "RC_FILE_WRITE_FAILED")
  /\ UNCHANGED <<disk, size, present, fdTable, pf, cache, clock>>

\* The clock is wider than an int.
MutTick == clock + 1

\* ++cacheClock: an int; past ClockMax the build wraps it around.
Tick == IF clock = ClockMax THEN -ClockMax - 1 ELSE clock + 1

\* The page at the end is taken for one of the file.
MutValid(h, p) == p >= 0 /\ p <= pf[h].epid
Valid(h, p) == p >= 0 /\ p < pf[h].epid

ReadHit(h, p) ==
  /\ Valid(h, p)
  /\ \E s \in Slot :
       /\ Serves(s, pf[h].fd, p)
       /\ clock' = Tick
       /\ cache' = [cache EXCEPT ![s].last = Tick]
       /\ out' = Got(h, p, cache[s].data, FALSE)
  /\ UNCHANGED <<disk, size, present, fdTable, pf>>

\* The latest access is evicted.
MutIsVictim(s) ==
  \/ cache[s].last = 0
  \/ \A t \in Slot : cache[t].last # 0 /\ cache[t].last <= cache[s].last

\* The slot to evict: the first empty one, else the first with the oldest access.
IsVictim(s) ==
  \/ cache[s].last = 0 /\ \A t \in Slot : t < s => cache[t].last # 0
  \/ \A t \in Slot : /\ cache[t].last # 0
                     /\ cache[s].last <= cache[t].last
                     /\ t < s => cache[s].last < cache[t].last

Missing(h, p) == Valid(h, p) /\ \A s \in Slot : ~Holds(s, pf[h].fd, p)

ReadMiss(h, p) ==
  LET n == pf[h].fd IN
  /\ Missing(h, p)
  /\ CanSeek(n)
  /\ \E s \in Slot :
       /\ IsVictim(s)
       /\ LET page == disk[fdTable[n].file][p] IN
            /\ cache' = [cache EXCEPT ![s] =
                           [fd |-> n, pid |-> p, last |-> Tick, data |-> page]]
            /\ out' = Got(h, p, page, TRUE)
  /\ clock' = Tick
  /\ UNCHANGED <<disk, size, present, fdTable, pf>>

\* ::read fails after the slot was labelled: the label stays, over old data.
ReadMissFails(h, p) ==
  /\ "read" \in Faults
  /\ Missing(h, p)
  /\ CanSeek(pf[h].fd)
  /\ \E s \in Slot :
       /\ IsVictim(s)
       /\ cache' = [cache EXCEPT ![s] =
                      [fd |-> pf[h].fd, pid |-> p, last |-> Tick, data |-> @.data]]
  /\ clock' = Tick
  /\ out' = ReplyOn("read", h, p, "RC_FILE_READ_FAILED")
  /\ UNCHANGED <<disk, size, present, fdTable, pf>>

ReadFails(h, p) ==
  /\ \/ ~Valid(h, p) /\ out' = ReplyOn("read", h, p, "RC_INVALID_PID")
     \/ /\ Missing(h, p)
        /\ ~CanSeek(pf[h].fd)
        /\ out' = ReplyOn("read", h, p, "RC_FILE_SEEK_FAILED")
  /\ UNCHANGED <<disk, size, present, fdTable, pf, cache, clock>>

-----------------------------------------------------------------------------
(* A handle is live while its object is open.  SqlEngine::select and       *)
(* SqlEngine::load open each file through one live handle at a time (the   *)
(* table and its index are different files); test_bindex.cc opens one file *)
(* through three.                                                          *)
Live(h) == pf[h].fd > 0
CallerMayOpen(h, f) ==
  Sharing \/ \A g \in Handle \ {h} : Live(g) => fdTable[pf[g].fd].file # f

Next ==
  \/ \E h \in Handle, f \in File, mode \in {"r", "w"} :
       /\ CallerMayOpen(h, f)
       /\ Open(h, f, mode) \/ OpenFails(h, f, mode)
  \/ \E h \in Handle : Close(h) \/ CloseFails(h) \/ Drop(h)
  \/ \E h \in Handle, p \in Pid, v \in Content : Write(h, p, v)
  \/ \E h \in Handle, p \in Pid \cup {-1} :
       WriteFails(h, p) \/ ReadHit(h, p) \/ ReadMiss(h, p)
         \/ ReadMissFails(h, p) \/ ReadFails(h, p)
  \/ Restart

Spec == Init /\ [][Next]_vars

\* The behaviours before cacheClock wraps, the only ones in which the age of a
\* slot means anything.
SpecBeforeWrap == Init /\ [][Next /\ (clock' < clock => clock' = 1)]_vars

-----------------------------------------------------------------------------
TypeOK ==
  /\ disk \in [File -> [Pid -> Content]]
  /\ size \in [File -> 0..MaxPages]
  /\ present \in SUBSET File
  /\ fdTable \in [Fds -> OpenFile \cup {Closed}]
  /\ pf \in [Handle -> [fd : Fds \cup {-1}, epid : 0..MaxPages]]
  /\ cache \in [Slot -> CacheEntry]
  /\ clock \in Clock
  /\ out \in Answer

-----------------------------------------------------------------------------
(* Safety.                                                                 *)

\* What the cache is for: a live entry of a live handle's file is that page as
\* it is on disk, whatever was written, evicted, closed or reopened since.
\* (PageFile.cc:114-123 invalidates on write, :78-85 evicts on close.)
CacheCoherent ==
  \A h \in Handle, s \in Slot :
    Live(h) /\ cache[s].fd = pf[h].fd /\ cache[s].last # 0
      => cache[s].data = disk[fdTable[pf[h].fd].file][cache[s].pid]

\* Descriptor numbers are reused by the system, so no entry may outlive the
\* descriptor it was read through: the next file to get the number would be
\* served another file's page.
CachedAreOpen ==
  \A s \in Slot : cache[s].last # 0 => cache[s].fd > 0 /\ fdTable[cache[s].fd] # Closed

\* write invalidates one slot and stops (the break at PageFile.cc:121), which
\* is enough only because a page never has two live slots.
OneSlotPerPage ==
  \A s, t \in Slot :
    s # t /\ cache[s].last # 0 /\ cache[t].last # 0
      => <<cache[s].fd, cache[s].pid>> # <<cache[t].fd, cache[t].pid>>

\* endPid, by which BTreeIndex and RecordFile choose where the next page goes,
\* is the length of the file, also after a reopen.
EndPidIsLength ==
  \A h \in Handle : Live(h) => pf[h].epid = size[fdTable[pf[h].fd].file]

\* A read that reports success returns the page ("read a disk page into memory
\* buffer", PageFile.h:45).
ReadIsFaithful ==
  out.call = "read" /\ out.rc = "OK" /\ Live(out.handle)
    => out.data = disk[fdTable[pf[out.handle].fd].file][out.pid]

-----------------------------------------------------------------------------
(* Refinements.                                                            *)

\* What an object is attached to, its descriptor forgotten.
Attached == [h \in Handle |-> IF Live(h) THEN fdTable[pf[h].fd] ELSE Closed]

\* The cache, the descriptors and epid are invisible: a PageFile behaves as a
\* store of pages (PageStore.tla) that reads and writes the disk.
Store == INSTANCE PageStore WITH att <- Attached
IsPageStore == Store!Spec

\* The pages of the live slots, and the order of their last accesses.
PageOf(s) == <<cache[s].fd, cache[s].pid>>
Used == {s \in Slot : cache[s].last # 0}
Held == {PageOf(s) : s \in Used}
Later == {<<PageOf(d[1]), PageOf(d[2])>> :
            d \in {e \in Used \X Used : cache[e[1]].last > cache[e[2]].last}}

\* Until the clock wraps, the slots are a least-recently-used cache
\* (LruCache.tla): a page goes to disk only if CACHE_COUNT others were used
\* since, it was written, or its descriptor was closed.  The page counts that
\* readme.txt and runSelect report depend on it.
Accessed ==
  LET done == out.rc = "OK" IN
  [call |-> IF done THEN out.call ELSE "failed",
   page |-> IF done /\ out.call \in {"read", "write"} THEN <<pf[out.handle].fd, out.pid>>
            ELSE <<0, 0>>,
   miss |-> out.miss]
Lru == INSTANCE LruCache WITH held <- Held, later <- Later, accessed <- Accessed,
                              Page <- (Fds \X Pid), None <- <<0, 0>>
IsLruCache == Lru!Spec

=============================================================================
