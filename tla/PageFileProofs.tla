--------------------------- MODULE PageFileProofs ---------------------------
(***************************************************************************)
(* What is proved of PageFile for every number of files, objects,          *)
(* descriptors, cache slots and pages, and every clock width.              *)
(***************************************************************************)
EXTENDS PageFile, FiniteSetTheorems, TLAPS

USE FileAssumption, FdsAssumption, CacheAssumption, PagesAssumption,
    ContentAssumption, ClockAssumption

\* How load and select use the class: a file has one live handle, and neither
\* ::read nor ::close reports an error (both leave the cache wrong: the run
\* pagefile_poison shows the first).
Disciplined == ~Sharing /\ "read" \notin Faults /\ "close" \notin Faults

-----------------------------------------------------------------------------
(* Type correctness.                                                       *)

LEMMA TickType == clock \in Clock => Tick \in Clock
BY DEF Tick, Clock

LEMMA ReplyType ==
  ASSUME NEW call \in {"none", "open", "close", "read", "write"},
         NEW h \in Handle, NEW rc \in Codes
  PROVE  /\ Reply(call, h, rc) \in Answer
         /\ \A p \in Pid \cup {-1} : ReplyOn(call, h, p, rc) \in Answer
<1>1. 0 \in Pid
  BY DEF Pid
<1>2. \A p \in Pid \cup {-1} : ReplyOn(call, h, p, rc) \in Answer
  BY DEF ReplyOn, Answer
<1> QED BY <1>1, <1>2 DEF Reply

LEMMA GotType ==
  ASSUME NEW h \in Handle, NEW p \in Pid, NEW v \in Content, NEW m \in BOOLEAN
  PROVE  Got(h, p, v, m) \in Answer
<1>1. "OK" \in Codes
  BY DEF Codes
<1> QED BY <1>1 DEF Got, Answer

LEMMA SlotTypes ==
  ASSUME TypeOK, NEW s \in Slot
  PROVE  /\ cache[s] \in CacheEntry
         /\ Cleared(cache[s]) \in CacheEntry
         /\ Cleared(cache[s]).fd = 0
         /\ Cleared(cache[s]).last = 0
<1>1. cache[s] \in CacheEntry
  BY DEF TypeOK, CacheEntry
<1>2. 0 \in Pid /\ 0 \in Clock
  BY DEF Pid, Clock
<1> QED BY <1>1, <1>2 DEF CacheEntry, Cleared

LEMMA HandleTypes ==
  ASSUME TypeOK, NEW h \in Handle
  PROVE  /\ pf[h] \in [fd : Fds \cup {-1}, epid : 0..MaxPages]
         /\ pf[h].fd > 0 => pf[h].fd \in Fds
         /\ CanSeek(pf[h].fd) => /\ pf[h].fd \in Fds
                                 /\ fdTable[pf[h].fd] \in OpenFile
<1>1. pf[h] \in [fd : Fds \cup {-1}, epid : 0..MaxPages]
  BY DEF TypeOK
<1>2. pf[h].fd > 0 => pf[h].fd \in Fds
  BY <1>1
<1> QED BY <1>1, <1>2 DEF CanSeek, TypeOK

LEMMA ValidPid ==
  ASSUME NEW h \in Handle, NEW p \in Pid \cup {-1}, Valid(h, p)
  PROVE  p \in Pid
BY DEF Valid, Pid

LEMMA InitType == Init => TypeOK
<1>0. 0 \in Pid /\ 0 \in Clock /\ Zero \in Content
  BY DEF Pid, Clock
<1> QED BY <1>0, ReplyType DEF Init, TypeOK, CacheEntry, Fresh, EmptySlot, Closed, Clock, Codes

LEMMA NextType == TypeOK /\ [Next]_vars => TypeOK'
<1> USE ReplyType, GotType DEF Codes
<1>0. 0 \in Pid /\ 0 \in Clock /\ Zero \in Content
  BY DEF Pid, Clock
<1> SUFFICES ASSUME TypeOK, [Next]_vars PROVE TypeOK'
  OBVIOUS
<1>1. CASE UNCHANGED vars
  BY <1>1 DEF TypeOK, vars
<1>2. ASSUME NEW h \in Handle, NEW f \in File, NEW mode \in {"r", "w"},
             Open(h, f, mode)
      PROVE  TypeOK'
  <2>1. [file |-> f, mode |-> mode] \in OpenFile
    BY DEF OpenFile
  <2>2. PICK n \in Fds : /\ fdTable' = [fdTable EXCEPT ![n] = [file |-> f, mode |-> mode]]
                         /\ pf' = [pf EXCEPT ![h] = [fd |-> n, epid |-> size[f]]]
    BY <1>2 DEF Open
  <2>3. size[f] \in 0..MaxPages
    BY DEF TypeOK
  <2>4. fdTable' \in [Fds -> OpenFile \cup {Closed}]
    BY <2>1, <2>2 DEF TypeOK
  <2>5. pf' \in [Handle -> [fd : Fds \cup {-1}, epid : 0..MaxPages]]
    BY <2>2, <2>3 DEF TypeOK
  <2> QED BY <1>2, <2>4, <2>5 DEF TypeOK, Open
<1>3. ASSUME NEW h \in Handle, NEW f \in File, NEW mode \in {"r", "w"},
             OpenFails(h, f, mode)
      PROVE  TypeOK'
  BY <1>3 DEF TypeOK, OpenFails
<1>4. ASSUME NEW h \in Handle, Close(h) PROVE TypeOK'
  <2>1. EvictAll(pf[h].fd) \in [Slot -> CacheEntry]
    BY SlotTypes DEF TypeOK, EvictAll
  <2> QED BY <1>4, <2>1, <1>0 DEF TypeOK, Close, Fresh
<1>5. ASSUME NEW h \in Handle, CloseFails(h) PROVE TypeOK'
  <2>1. fdTable' \in [Fds -> OpenFile \cup {Closed}]
    BY <1>5 DEF CloseFails, TypeOK
  <2> QED BY <1>5, <2>1 DEF TypeOK, CloseFails
<1>6. ASSUME NEW h \in Handle, Drop(h) PROVE TypeOK'
  BY <1>6 DEF TypeOK, Drop, Fresh
<1>7. ASSUME NEW h \in Handle, NEW p \in Pid, NEW v \in Content, Write(h, p, v)
      PROVE  TypeOK'
  <2>1. cache' \in [Slot -> CacheEntry]
    BY <1>7, SlotTypes DEF Write, Invalidated, TypeOK
  <2>2. fdTable[pf[h].fd] \in OpenFile
    BY <1>7, HandleTypes DEF Write
  <2>3. size' \in [File -> 0..MaxPages] /\ disk' \in [File -> [Pid -> Content]]
    BY <1>7, <2>2, SMTT(30) DEF Write, TypeOK, OpenFile, Pid
  <2> DEFINE end == IF p >= pf[h].epid THEN p + 1 ELSE pf[h].epid
  <2>5. end \in 0..MaxPages /\ pf' = [pf EXCEPT ![h].epid = end]
    BY <1>7, HandleTypes DEF Write, EndAfter, Pid
  <2> HIDE DEF end
  <2>4. pf' \in [Handle -> [fd : Fds \cup {-1}, epid : 0..MaxPages]]
    BY <2>5 DEF TypeOK
  <2> QED BY <1>7, <2>1, <2>3, <2>4 DEF TypeOK, Write
<1>8. ASSUME NEW h \in Handle, NEW p \in Pid \cup {-1}, ReadHit(h, p) PROVE TypeOK'
  <2>1. p \in Pid
    BY <1>8, ValidPid DEF ReadHit
  <2>2. PICK s \in Slot : /\ cache' = [cache EXCEPT ![s].last = Tick]
                          /\ out' = Got(h, p, cache[s].data, FALSE)
    BY <1>8 DEF ReadHit
  <2>3. cache[s] \in CacheEntry /\ Tick \in Clock
    BY SlotTypes, TickType DEF TypeOK
  <2>4. cache' \in [Slot -> CacheEntry]
    BY <2>2, <2>3 DEF TypeOK, CacheEntry
  <2>5. out' \in Answer
    BY <2>1, <2>2, <2>3 DEF CacheEntry
  <2> QED BY <1>8, <2>3, <2>4, <2>5 DEF TypeOK, ReadHit
<1>9. ASSUME NEW h \in Handle, NEW p \in Pid \cup {-1}, ReadMiss(h, p) PROVE TypeOK'
  <2> DEFINE page == disk[fdTable[pf[h].fd].file][p]
  <2>1. p \in Pid /\ pf[h].fd \in Fds /\ fdTable[pf[h].fd] \in OpenFile
    BY <1>9, ValidPid, HandleTypes DEF ReadMiss, Missing
  <2>2. page \in Content
    BY <2>1 DEF TypeOK, OpenFile
  <2>3. PICK s \in Slot :
          /\ cache' = [cache EXCEPT ![s] =
                         [fd |-> pf[h].fd, pid |-> p, last |-> Tick, data |-> page]]
          /\ out' = Got(h, p, page, TRUE)
    BY <1>9 DEF ReadMiss
  <2>4. Tick \in Clock
    BY TickType DEF TypeOK
  <2>5. [fd |-> pf[h].fd, pid |-> p, last |-> Tick, data |-> page] \in CacheEntry
    BY <2>1, <2>2, <2>4 DEF CacheEntry
  <2> HIDE DEF page
  <2>6. cache' \in [Slot -> CacheEntry]
    BY <2>3, <2>5 DEF TypeOK
  <2>7. out' \in Answer
    BY <2>1, <2>2, <2>3
  <2> QED BY <1>9, <2>4, <2>6, <2>7 DEF TypeOK, ReadMiss
<1>10. ASSUME NEW h \in Handle, NEW p \in Pid \cup {-1}, ReadMissFails(h, p)
       PROVE  TypeOK'
  <2>1. p \in Pid /\ pf[h].fd \in Fds
    BY <1>10, ValidPid, HandleTypes DEF ReadMissFails, Missing
  <2>2. PICK s \in Slot : cache' = [cache EXCEPT ![s] =
                 [fd |-> pf[h].fd, pid |-> p, last |-> Tick, data |-> cache[s].data]]
    BY <1>10 DEF ReadMissFails, TypeOK
  <2>3. cache[s] \in CacheEntry /\ Tick \in Clock
    BY SlotTypes, TickType DEF TypeOK
  <2>4. cache' \in [Slot -> CacheEntry]
    BY <2>1, <2>2, <2>3 DEF TypeOK, CacheEntry
  <2> QED BY <1>10, <2>3, <2>4 DEF TypeOK, ReadMissFails
<1>11. ASSUME NEW h \in Handle, NEW p \in Pid \cup {-1},
              WriteFails(h, p) \/ ReadFails(h, p)
       PROVE  TypeOK'
  <2>1. out' \in Answer
    BY <1>11 DEF WriteFails, ReadFails
  <2> QED BY <1>11, <2>1 DEF TypeOK, WriteFails, ReadFails
<1>12. CASE Restart
  <2>1. out' \in Answer
    BY <1>12 DEF Restart
  <2> QED BY <1>12, <2>1, <1>0 DEF TypeOK, Restart, Fresh, EmptySlot, CacheEntry, Clock
<1> QED BY <1>1, <1>2, <1>3, <1>4, <1>5, <1>6, <1>7, <1>8, <1>9, <1>10, <1>11, <1>12
        DEF Next

\* The variables have their types in every state, whatever fails.
THEOREM TypeCorrect == Spec => []TypeOK
BY InitType, NextType, PTL DEF Spec

-----------------------------------------------------------------------------
(* Coherence of the cache.                                                 *)

\* A live handle's descriptor is open.
LiveIsOpen == \A h \in Handle : Live(h) => fdTable[pf[h].fd] # Closed

\* An object with no descriptor has no pages.
IdleIsFresh == \A h \in Handle : ~Live(h) => pf[h] = Fresh

\* Two live handles are on two files, hence on two descriptors.
OwnFile ==
  \A g, h \in Handle :
    g # h /\ Live(g) /\ Live(h) => fdTable[pf[g].fd].file # fdTable[pf[h].fd].file

\* Coherence is not inductive alone: Write clears a single slot (OneSlotPerPage),
\* Open may not meet entries left under its number (CachedAreOpen), and a write
\* through one handle may not be to another's file (OwnFile).
Coherence ==
  /\ TypeOK
  /\ LiveIsOpen
  /\ IdleIsFresh
  /\ OwnFile
  /\ CachedAreOpen
  /\ OneSlotPerPage
  /\ CacheCoherent
  /\ EndPidIsLength

LEMMA CoherenceInit == Init => Coherence
<1> SUFFICES ASSUME Init PROVE Coherence
  OBVIOUS
<1>1. /\ \A h \in Handle : ~Live(h) /\ pf[h] = Fresh
      /\ \A s \in Slot : cache[s].last = 0
  BY DEF Init, Live, Fresh, EmptySlot
<1>2. TypeOK
  BY InitType
<1> QED BY <1>1, <1>2 DEF Coherence, LiveIsOpen, IdleIsFresh, OwnFile, CachedAreOpen,
                          OneSlotPerPage, CacheCoherent, EndPidIsLength

\* A call that leaves everything but its answer alone preserves it.
LEMMA CoherenceFrame ==
  ASSUME Coherence, TypeOK', UNCHANGED <<disk, size, fdTable, pf, cache>>
  PROVE  Coherence'
BY DEF Coherence, LiveIsOpen, IdleIsFresh, OwnFile, CachedAreOpen, OneSlotPerPage,
       CacheCoherent, EndPidIsLength, Live

LEMMA CoherenceOpen ==
  ASSUME Coherence, TypeOK', NEW h \in Handle, NEW f \in File, NEW mode \in {"r", "w"},
         ~Sharing, CallerMayOpen(h, f), Open(h, f, mode)
  PROVE  Coherence'
<1> USE DEF Coherence
<1>1. PICK n \in Fds : /\ fdTable[n] = Closed
                       /\ fdTable' = [fdTable EXCEPT ![n] = [file |-> f, mode |-> mode]]
                       /\ pf' = [pf EXCEPT ![h] = [fd |-> n, epid |-> size[f]]]
  BY DEF Open, LowestFree
<1>2. /\ fdTable'[n].file = f
      /\ fdTable'[n] # Closed
      /\ \A m \in Fds \ {n} : fdTable'[m] = fdTable[m]
  BY <1>1 DEF TypeOK, Closed
<1>3. pf'[h].fd = n /\ pf'[h].epid = size[f] /\ Live(h)'
  BY <1>1 DEF TypeOK, Live
<1>4. \A g \in Handle \ {h} :
         /\ pf'[g] = pf[g] /\ Live(g)' = Live(g)
         /\ Live(g) => /\ pf[g].fd \in Fds /\ pf[g].fd # n
                       /\ fdTable'[pf[g].fd] = fdTable[pf[g].fd]
                       /\ fdTable[pf[g].fd].file # f
  BY <1>1, <1>2, HandleTypes DEF TypeOK, Live, LiveIsOpen, CallerMayOpen
<1>5. UNCHANGED <<disk, size, cache>>
  BY DEF Open
<1>6. \A s \in Slot : cache[s].last # 0 =>
         cache[s].fd \in Fds /\ cache[s].fd # n /\ fdTable'[cache[s].fd] = fdTable[cache[s].fd]
  BY <1>1, <1>2, SlotTypes DEF CachedAreOpen, CacheEntry
<1>7. LiveIsOpen'
  BY <1>2, <1>3, <1>4 DEF LiveIsOpen
<1>8. OwnFile'
  BY <1>2, <1>3, <1>4 DEF OwnFile
<1>9. CachedAreOpen'
  BY <1>5, <1>6 DEF CachedAreOpen
<1>10. OneSlotPerPage'
  BY <1>5 DEF OneSlotPerPage
<1>11. CacheCoherent'
  BY <1>3, <1>4, <1>5, <1>6 DEF CacheCoherent
<1>12. EndPidIsLength'
  BY <1>2, <1>3, <1>4, <1>5 DEF EndPidIsLength
<1>13. IdleIsFresh'
  BY <1>3, <1>4 DEF IdleIsFresh
<1> QED BY <1>7, <1>8, <1>9, <1>10, <1>11, <1>12, <1>13

LEMMA CoherenceClose ==
  ASSUME Coherence, TypeOK', NEW h \in Handle, Close(h)
  PROVE  Coherence'
<1> USE DEF Coherence
<1> DEFINE n == pf[h].fd
<1>1. n \in Fds /\ n > 0 /\ Live(h)
  BY HandleTypes DEF Close, Live
<1>2. \A s \in Slot :
         \/ cache[s].last # 0 /\ cache[s].fd = n /\ cache'[s].last = 0 /\ cache'[s].fd = 0
         \/ cache'[s] = cache[s] /\ (cache[s].last # 0 => cache[s].fd # n)
  BY SlotTypes DEF Close, EvictAll
<1>3. ~Live(h)' /\ pf'[h] = Fresh /\ \A g \in Handle \ {h} : pf'[g] = pf[g] /\ Live(g)' = Live(g)
  BY DEF Close, TypeOK, Fresh, Live
<1>4. \A m \in Fds \ {n} : fdTable'[m] = fdTable[m]
  BY DEF Close, TypeOK
<1>5. \A g \in Handle \ {h} : Live(g) =>
         pf[g].fd \in Fds /\ pf[g].fd # n /\ fdTable'[pf[g].fd] = fdTable[pf[g].fd]
  BY <1>1, <1>4, HandleTypes DEF OwnFile, Live
<1>6. UNCHANGED <<disk, size>>
  BY DEF Close
<1> HIDE DEF n
<1>7. LiveIsOpen'
  BY <1>3, <1>5 DEF LiveIsOpen
<1>8. OwnFile'
  BY <1>3, <1>5 DEF OwnFile
<1>9. CachedAreOpen'
  <2>1. \A s \in Slot : cache[s].last # 0 => cache[s].fd \in Fds /\ fdTable[cache[s].fd] # Closed
    BY SlotTypes DEF CachedAreOpen, CacheEntry
  <2> QED BY <1>2, <1>4, <2>1 DEF CachedAreOpen
<1>10. OneSlotPerPage'
  BY <1>2 DEF OneSlotPerPage
<1>11. CacheCoherent'
  BY <1>2, <1>3, <1>5, <1>6 DEF CacheCoherent, Live
<1>12. EndPidIsLength'
  BY <1>3, <1>5, <1>6 DEF EndPidIsLength
<1>13. IdleIsFresh'
  BY <1>3 DEF IdleIsFresh
<1> QED BY <1>7, <1>8, <1>9, <1>10, <1>11, <1>12, <1>13

LEMMA CoherenceDrop ==
  ASSUME Coherence, TypeOK', NEW h \in Handle, Drop(h)
  PROVE  Coherence'
<1> USE DEF Coherence
<1>1. ~Live(h)' /\ pf'[h] = Fresh /\ \A g \in Handle \ {h} : pf'[g] = pf[g] /\ Live(g)' = Live(g)
  BY DEF Drop, TypeOK, Fresh, Live
<1>2. UNCHANGED <<disk, size, fdTable, cache>>
  BY DEF Drop
<1> QED BY <1>1, <1>2 DEF LiveIsOpen, IdleIsFresh, OwnFile, CachedAreOpen, OneSlotPerPage,
                          CacheCoherent, EndPidIsLength

LEMMA CoherenceRestart ==
  ASSUME Coherence, TypeOK', Restart
  PROVE  Coherence'
<1>1. /\ \A h \in Handle : ~Live(h)' /\ pf'[h] = Fresh
      /\ \A s \in Slot : cache'[s].last = 0
  BY DEF Restart, Live, Fresh, EmptySlot
<1> QED BY <1>1 DEF Coherence, LiveIsOpen, IdleIsFresh, OwnFile, CachedAreOpen,
                    OneSlotPerPage, CacheCoherent, EndPidIsLength

LEMMA CoherenceWrite ==
  ASSUME Coherence, TypeOK', NEW h \in Handle, NEW p \in Pid, NEW v \in Content,
         Write(h, p, v)
  PROVE  Coherence'
<1> USE DEF Coherence
<1> DEFINE n == pf[h].fd
           f == fdTable[n].file
<1>1. n \in Fds /\ n > 0 /\ Live(h) /\ f \in File
  BY HandleTypes DEF Write, CanSeek, Live, OpenFile
<1>2. /\ disk'[f] = [disk[f] EXCEPT ![p] = v]
      /\ size'[f] = IF p >= size[f] THEN p + 1 ELSE size[f]
      /\ \A g \in File \ {f} : disk'[g] = disk[g] /\ size'[g] = size[g]
  BY <1>1 DEF Write, TypeOK
<1>3. /\ pf'[h].fd = n
      /\ pf'[h].epid = IF p >= pf[h].epid THEN p + 1 ELSE pf[h].epid
      /\ \A g \in Handle \ {h} : pf'[g] = pf[g]
  <2>1. pf' = [pf EXCEPT ![h].epid = EndAfter(pf[h].epid, p)]
    BY <1>1 DEF Write
  <2>2. pf \in [Handle -> [fd : Fds \cup {-1}, epid : 0..MaxPages]]
    BY DEF TypeOK
  <2>3. pf'[h] = [pf[h] EXCEPT !.epid = EndAfter(pf[h].epid, p)] /\ \A g \in Handle \ {h} : pf'[g] = pf[g]
    BY <2>1, <2>2
  <2>4. pf[h] \in [fd : Fds \cup {-1}, epid : 0..MaxPages]
    BY <2>2
  <2>5. pf'[h].fd = pf[h].fd /\ pf'[h].epid = EndAfter(pf[h].epid, p)
    BY <2>3, <2>4
  <2> QED BY <1>1, <2>3, <2>5 DEF EndAfter
<1>4. UNCHANGED fdTable /\ \A g \in Handle : pf'[g].fd = pf[g].fd /\ Live(g)' = Live(g)
  BY <1>3 DEF Write, Live
\* the written page has no slot left
<1>5. \A s \in Slot :
         \/ Holds(s, n, p) /\ cache'[s].last = 0
         \/ ~Holds(s, n, p) /\ cache'[s] = cache[s]
  <2> TAKE s \in Slot
  <2>1. Holds(s, n, p) => Serves(s, n, p)
    BY DEF OneSlotPerPage, Holds, Serves, Slot
  <2>2. Serves(s, n, p) => Holds(s, n, p)
    BY DEF Serves
  <2>3. cache'[s] = IF Serves(s, n, p) THEN Cleared(cache[s]) ELSE cache[s]
    BY DEF Write, Invalidated
  <2> QED BY <2>1, <2>2, <2>3, SlotTypes
<1>6. \A g \in Handle : Live(g) => pf[g].fd \in Fds /\ fdTable[pf[g].fd].file \in File
  BY HandleTypes DEF LiveIsOpen, Live, TypeOK, OpenFile
<1>7. \A g \in Handle \ {h} : Live(g) => pf[g].fd # n /\ fdTable[pf[g].fd].file # f
  BY <1>1 DEF OwnFile
<1>8. LiveIsOpen' /\ IdleIsFresh' /\ OwnFile'
  BY <1>1, <1>3, <1>4 DEF LiveIsOpen, IdleIsFresh, OwnFile
<1>9. CachedAreOpen'
  BY <1>4, <1>5 DEF CachedAreOpen
<1>10. OneSlotPerPage'
  BY <1>5 DEF OneSlotPerPage
<1>11. CacheCoherent'
  <2> SUFFICES ASSUME NEW g \in Handle, NEW s \in Slot,
                      Live(g), cache[s].fd = pf[g].fd, cache[s].last # 0,
                      ~Holds(s, n, p), cache'[s] = cache[s]
               PROVE  cache[s].data = disk'[fdTable[pf[g].fd].file][cache[s].pid]
    BY <1>4, <1>5 DEF CacheCoherent
  <2>1. cache[s].data = disk[fdTable[pf[g].fd].file][cache[s].pid]
    BY DEF CacheCoherent
  <2>2. CASE g = h
    <3>1. cache[s].pid # p
      BY <2>2 DEF Holds
    <3>2. cache[s].pid \in Pid /\ disk[f] \in [Pid -> Content]
      BY SlotTypes, <1>1 DEF CacheEntry, TypeOK
    <3> QED BY <1>2, <2>1, <2>2, <3>1, <3>2
  <2>3. CASE g # h
    BY <1>2, <1>6, <1>7, <2>1, <2>3
  <2> QED BY <2>2, <2>3
<1>12. EndPidIsLength'
  <2> SUFFICES ASSUME NEW g \in Handle, Live(g)
               PROVE  pf'[g].epid = size'[fdTable[pf[g].fd].file]
    BY <1>4 DEF EndPidIsLength
  <2>1. pf[g].epid = size[fdTable[pf[g].fd].file]
    BY DEF EndPidIsLength
  <2>2. CASE g = h
    BY <1>2, <1>3, <2>1, <2>2
  <2>3. CASE g # h
    <3>1. pf'[g] = pf[g] /\ fdTable' = fdTable
      BY <1>3, <1>4, <2>3
    <3>2. fdTable[pf[g].fd].file \in File \ {f}
      BY <1>6, <1>7, <2>3
    <3>3. size'[fdTable[pf[g].fd].file] = size[fdTable[pf[g].fd].file]
      BY <1>2, <3>2
    <3> QED BY <2>1, <3>1, <3>3
  <2> QED BY <2>2, <2>3
<1> QED BY <1>8, <1>9, <1>10, <1>11, <1>12

LEMMA CoherenceReadHit ==
  ASSUME Coherence, TypeOK', NEW h \in Handle, NEW p \in Pid \cup {-1}, ReadHit(h, p)
  PROVE  Coherence'
<1> USE DEF Coherence
<1>1. PICK t \in Slot : cache[t].last # 0 /\ cache' = [cache EXCEPT ![t].last = Tick]
  BY DEF ReadHit, Serves, Holds
<1>2. \A s \in Slot : /\ cache'[s].fd = cache[s].fd
                      /\ cache'[s].pid = cache[s].pid
                      /\ cache'[s].data = cache[s].data
                      /\ cache'[s].last # 0 => cache[s].last # 0
  BY <1>1, SlotTypes DEF TypeOK, CacheEntry
<1>3. UNCHANGED <<disk, size, fdTable, pf>> /\ \A g \in Handle : Live(g)' = Live(g)
  BY DEF ReadHit, Live
<1> QED BY <1>2, <1>3 DEF LiveIsOpen, IdleIsFresh, OwnFile, CachedAreOpen, OneSlotPerPage,
                          CacheCoherent, EndPidIsLength

LEMMA CoherenceReadMiss ==
  ASSUME Coherence, TypeOK', NEW h \in Handle, NEW p \in Pid \cup {-1}, ReadMiss(h, p)
  PROVE  Coherence'
<1> USE DEF Coherence
<1> DEFINE n == pf[h].fd
           page == disk[fdTable[n].file][p]
<1>1. n \in Fds /\ n > 0 /\ fdTable[n] # Closed /\ Live(h)
  BY HandleTypes DEF ReadMiss, CanSeek, Live
<1>2. PICK t \in Slot :
        cache' = [cache EXCEPT ![t] = [fd |-> n, pid |-> p, last |-> Tick, data |-> page]]
  BY DEF ReadMiss
<1>3. /\ cache'[t].fd = n /\ cache'[t].pid = p /\ cache'[t].data = page
      /\ \A s \in Slot \ {t} : cache'[s] = cache[s]
  BY <1>2 DEF TypeOK
<1>4. \A s \in Slot : cache[s].last # 0 => ~(cache[s].fd = n /\ cache[s].pid = p)
  BY DEF ReadMiss, Missing, Holds
<1>5. UNCHANGED <<disk, size, fdTable, pf>> /\ \A g \in Handle : Live(g)' = Live(g)
  BY DEF ReadMiss, Live
<1>6. LiveIsOpen' /\ IdleIsFresh' /\ OwnFile' /\ EndPidIsLength'
  BY <1>5 DEF LiveIsOpen, IdleIsFresh, OwnFile, EndPidIsLength
<1>7. CachedAreOpen'
  BY <1>1, <1>3, <1>5 DEF CachedAreOpen
<1>8. OneSlotPerPage'
  BY <1>3, <1>4 DEF OneSlotPerPage
<1>9. CacheCoherent'
  BY <1>3, <1>5 DEF CacheCoherent
<1> QED BY <1>6, <1>7, <1>8, <1>9

LEMMA CoherenceNext ==
  ASSUME Disciplined, Coherence, [Next]_vars
  PROVE  Coherence'
<1>0. TypeOK /\ TypeOK'
  BY NextType DEF Coherence
<1>1. CASE UNCHANGED vars
  BY <1>0, <1>1, CoherenceFrame DEF vars
<1>2. ASSUME NEW h \in Handle, NEW f \in File, NEW mode \in {"r", "w"},
             CallerMayOpen(h, f), Open(h, f, mode)
      PROVE  Coherence'
  BY <1>0, <1>2, CoherenceOpen DEF Disciplined
<1>3. ASSUME NEW h \in Handle, NEW f \in File, NEW mode \in {"r", "w"},
             OpenFails(h, f, mode)
      PROVE  Coherence'
  BY <1>0, <1>3, CoherenceFrame DEF OpenFails
<1>4. ASSUME NEW h \in Handle, CloseFails(h) PROVE Coherence'
  BY <1>0, <1>4, CoherenceFrame DEF CloseFails, Disciplined
<1>5. ASSUME NEW h \in Handle, NEW p \in Pid \cup {-1},
             WriteFails(h, p) \/ ReadFails(h, p)
      PROVE  Coherence'
  <2>1. UNCHANGED <<disk, size, fdTable, pf, cache>>
    BY <1>5 DEF WriteFails, ReadFails
  <2> QED BY <1>0, <2>1, CoherenceFrame
<1>6. ASSUME NEW h \in Handle, NEW p \in Pid \cup {-1}, ReadMissFails(h, p)
      PROVE  FALSE
  BY <1>6 DEF ReadMissFails, Disciplined
<1> QED BY <1>0, <1>1, <1>2, <1>3, <1>4, <1>5, <1>6, CoherenceClose, CoherenceDrop,
           CoherenceRestart, CoherenceWrite, CoherenceReadHit, CoherenceReadMiss
        DEF Next

THEOREM CoherenceInvariant == ASSUME Disciplined PROVE Spec => []Coherence
<1>1. Coherence /\ [Next]_vars => Coherence'
  BY CoherenceNext
<1> QED BY <1>1, CoherenceInit, PTL DEF Spec

\* A live entry of the cache is its page as it is on disk: read answers from
\* memory what it would have answered from disk (PageFile.cc:143-150).
THEOREM CacheIsCoherent == ASSUME Disciplined PROVE Spec => []CacheCoherent
<1>1. Coherence => CacheCoherent
  BY DEF Coherence
<1> QED BY <1>1, CoherenceInvariant, PTL

\* No slot outlives the descriptor it was read through (PageFile.cc:78-85), so
\* the file that gets the number next starts without a cached page.
THEOREM NoStaleDescriptor == ASSUME Disciplined PROVE Spec => []CachedAreOpen
<1>1. Coherence => CachedAreOpen
  BY DEF Coherence
<1> QED BY <1>1, CoherenceInvariant, PTL

\* endPid is the length of the file (PageFile.cc:66, :126).
THEOREM EndPidCorrect == ASSUME Disciplined PROVE Spec => []EndPidIsLength
<1>1. Coherence => EndPidIsLength
  BY DEF Coherence
<1> QED BY <1>1, CoherenceInvariant, PTL

-----------------------------------------------------------------------------
(* One slot per page, whatever fails and however files are shared.         *)

\* A step that labels no slot anew leaves at most one per page.
LEMMA OneSlotFrame ==
  ASSUME OneSlotPerPage,
         \A s \in Slot : cache'[s].last # 0 =>
           cache[s].last # 0 /\ cache'[s].fd = cache[s].fd /\ cache'[s].pid = cache[s].pid
  PROVE  OneSlotPerPage'
BY DEF OneSlotPerPage

\* A step that labels one slot with a page that had none, neither.
LEMMA OneSlotFill ==
  ASSUME TypeOK, OneSlotPerPage, NEW h \in Handle, NEW p \in Pid \cup {-1}, Missing(h, p),
         NEW t \in Slot, NEW e, e.fd = pf[h].fd, e.pid = p,
         cache' = [cache EXCEPT ![t] = e]
  PROVE  OneSlotPerPage'
<1>1. cache'[t] = e /\ \A s \in Slot \ {t} : cache'[s] = cache[s]
  BY DEF TypeOK
<1>2. \A s \in Slot : cache[s].last # 0 => ~(cache[s].fd = pf[h].fd /\ cache[s].pid = p)
  BY DEF Missing, Holds
<1> QED BY <1>1, <1>2 DEF OneSlotPerPage

LEMMA OneSlotNext ==
  ASSUME TypeOK, OneSlotPerPage, [Next]_vars
  PROVE  OneSlotPerPage'
<1>1. CASE UNCHANGED cache
  BY <1>1, OneSlotFrame
<1>2. ASSUME NEW h \in Handle, Close(h) PROVE OneSlotPerPage'
  <2>1. \A s \in Slot : cache'[s] = cache[s] \/ cache'[s].last = 0
    BY <1>2, SlotTypes DEF Close, EvictAll
  <2> QED BY <2>1, OneSlotFrame
<1>3. ASSUME NEW h \in Handle, NEW p \in Pid, NEW v \in Content, Write(h, p, v)
      PROVE  OneSlotPerPage'
  <2>1. \A s \in Slot : cache'[s] = cache[s] \/ cache'[s].last = 0
    BY <1>3, SlotTypes DEF Write, Invalidated
  <2> QED BY <2>1, OneSlotFrame
<1>4. ASSUME NEW h \in Handle, NEW p \in Pid \cup {-1}, ReadHit(h, p)
      PROVE  OneSlotPerPage'
  <2>1. PICK t \in Slot : cache[t].last # 0 /\ cache' = [cache EXCEPT ![t].last = Tick]
    BY <1>4 DEF ReadHit, Serves, Holds
  <2>2. \A s \in Slot : /\ cache'[s].fd = cache[s].fd
                        /\ cache'[s].pid = cache[s].pid
                        /\ cache'[s].last # 0 => cache[s].last # 0
    BY <2>1, SlotTypes DEF TypeOK, CacheEntry
  <2> QED BY <2>2, OneSlotFrame
<1>5. ASSUME NEW h \in Handle, NEW p \in Pid \cup {-1}, ReadMiss(h, p) \/ ReadMissFails(h, p)
      PROVE  OneSlotPerPage'
  <2>1. PICK t \in Slot : \E v : cache' = [cache EXCEPT ![t] =
                [fd |-> pf[h].fd, pid |-> p, last |-> Tick, data |-> v]]
    BY <1>5 DEF ReadMiss, ReadMissFails
  <2>2. PICK v : cache' = [cache EXCEPT ![t] =
                [fd |-> pf[h].fd, pid |-> p, last |-> Tick, data |-> v]]
    BY <2>1
  <2> DEFINE e == [fd |-> pf[h].fd, pid |-> p, last |-> Tick, data |-> v]
  <2>3. Missing(h, p)
    BY <1>5 DEF ReadMiss, ReadMissFails
  <2>4. e.fd = pf[h].fd /\ e.pid = p /\ cache' = [cache EXCEPT ![t] = e]
    BY <2>2
  <2> HIDE DEF e
  <2> QED BY <2>3, <2>4, OneSlotFill
<1>6. CASE Restart
  <2>1. \A s \in Slot : cache'[s].last = 0
    BY <1>6 DEF Restart, EmptySlot
  <2> QED BY <2>1, OneSlotFrame
<1>7. ASSUME NEW h \in Handle,
             \/ \E f \in File, mode \in {"r", "w"} : Open(h, f, mode) \/ OpenFails(h, f, mode)
             \/ CloseFails(h) \/ Drop(h)
             \/ \E p \in Pid \cup {-1} : WriteFails(h, p) \/ ReadFails(h, p)
      PROVE  UNCHANGED cache
  BY <1>7 DEF Open, OpenFails, CloseFails, Drop, WriteFails, ReadFails
<1> QED BY <1>1, <1>2, <1>3, <1>4, <1>5, <1>6, <1>7 DEF Next, vars

\* A page has one live slot at most: the break after the first invalidation of a
\* write (PageFile.cc:121) leaves no second copy, even after failed reads and
\* closes and with several objects on a file.
THEOREM OneSlotSuffices == Spec => []OneSlotPerPage
<1>1. Init => OneSlotPerPage
  BY DEF Init, OneSlotPerPage, EmptySlot
<1>2. TypeOK /\ OneSlotPerPage /\ [Next]_vars => OneSlotPerPage'
  BY OneSlotNext
<1> QED BY <1>1, <1>2, TypeCorrect, PTL DEF Spec

-----------------------------------------------------------------------------
(* A PageFile is a store of pages.                                         *)

LEMMA StoreInit == Init => Store!Init
<1> SUFFICES ASSUME Init PROVE Store!Init
  OBVIOUS
<1>1. Attached = [h \in Handle |-> Store!Nothing]
  BY DEF Init, Attached, Live, Fresh, Closed, Store!Nothing
<1>2. out.rc = "OK"
  BY DEF Init, Reply, ReplyOn
<1> QED BY <1>1, <1>2 DEF Init, Store!Init, Store!Pid, Pid

LEMMA AttachedTypes ==
  ASSUME Coherence, NEW h \in Handle
  PROVE  /\ Live(h) => /\ Attached[h] = fdTable[pf[h].fd]
                       /\ Attached[h] # Store!Nothing
                       /\ Attached[h].file \in File
                       /\ pf[h].fd \in Fds
         /\ ~Live(h) => Attached[h] = Store!Nothing
BY HandleTypes DEF Coherence, Attached, Live, LiveIsOpen, Closed, Store!Nothing,
                   OpenFile, TypeOK

LEMMA ValidIsLive ==
  ASSUME Coherence, NEW h \in Handle, NEW p \in Pid \cup {-1}, Valid(h, p)
  PROVE  p \in Pid /\ Live(h) /\ CanSeek(pf[h].fd)
<1>1. p \in Pid
  BY ValidPid
<1>2. pf[h].epid # 0
  BY <1>1 DEF Valid, Pid
<1>3. Live(h)
  BY <1>2 DEF Coherence, IdleIsFresh, Fresh
<1> QED BY <1>1, <1>3 DEF Live, CanSeek, Coherence, LiveIsOpen

LEMMA StoreOpen ==
  ASSUME Coherence, NEW h \in Handle, NEW f \in File, NEW mode \in {"r", "w"},
         Open(h, f, mode)
  PROVE  Store!Attach(h, f, mode)
<1>1. PICK n \in Fds : /\ fdTable[n] = Closed
                       /\ fdTable' = [fdTable EXCEPT ![n] = [file |-> f, mode |-> mode]]
                       /\ pf' = [pf EXCEPT ![h] = [fd |-> n, epid |-> size[f]]]
  BY DEF Open, LowestFree
<1>2. pf'[h].fd = n /\ n > 0 /\ Live(h)' /\ ~Live(h)
  BY <1>1 DEF Open, Coherence, TypeOK, Live
<1>3. Attached'[h] = [file |-> f, mode |-> mode]
  BY <1>1, <1>2 DEF Attached, Coherence, TypeOK
<1>4. \A g \in Handle \ {h} : Attached'[g] = Attached[g]
  BY <1>1, AttachedTypes DEF Attached, Coherence, LiveIsOpen, Live, TypeOK
<1>5. Attached' = [Attached EXCEPT ![h] = [file |-> f, mode |-> mode]]
  BY <1>3, <1>4 DEF Attached
<1> QED BY <1>2, <1>5, AttachedTypes DEF Open, Store!Attach, Store!Answers, Reply, ReplyOn

LEMMA StoreClose ==
  ASSUME Coherence, NEW h \in Handle, Close(h) \/ Drop(h)
  PROVE  Store!Detach(h)
<1>1. Live(h) /\ pf' = [pf EXCEPT ![h] = Fresh]
  BY DEF Close, Drop, Live, Coherence, IdleIsFresh
<1>2. Attached'[h] = Store!Nothing
  BY <1>1 DEF Attached, Live, Fresh, Closed, Store!Nothing, Coherence, TypeOK
<1>3. ASSUME NEW g \in Handle \ {h} PROVE Attached'[g] = Attached[g]
  <2>1. Live(g)' = Live(g) /\ pf'[g] = pf[g]
    BY <1>1 DEF Live, Coherence, TypeOK
  <2>2. Live(g) => pf[g].fd \in Fds /\ pf[g].fd # pf[h].fd
    BY <1>1, AttachedTypes DEF Coherence, OwnFile
  <2>3. Live(g) => fdTable'[pf[g].fd] = fdTable[pf[g].fd]
    BY <2>2, <1>1, AttachedTypes DEF Close, Drop, Coherence, TypeOK
  <2> QED BY <2>1, <2>3 DEF Attached
<1>4. Attached' = [Attached EXCEPT ![h] = Store!Nothing]
  BY <1>2, <1>3 DEF Attached
<1> QED BY <1>1, <1>4, AttachedTypes DEF Close, Drop, Store!Detach, Reply, ReplyOn

LEMMA StoreWrite ==
  ASSUME Coherence, NEW h \in Handle, NEW p \in Pid, NEW v \in Content, Write(h, p, v)
  PROVE  Store!Put(h, p, v)
<1>1. Live(h) /\ Attached[h] = fdTable[pf[h].fd]
  BY AttachedTypes DEF Write, CanSeek, Live
<1>2. \A g \in Handle : pf'[g].fd = pf[g].fd
  BY HandleTypes DEF Write, Coherence, TypeOK
<1>3. Attached' = Attached
  BY <1>2 DEF Attached, Live, Write
<1> QED BY <1>1, <1>3 DEF Write, Store!Put, Store!Answers, Reply, ReplyOn

LEMMA StoreRead ==
  ASSUME Coherence, NEW h \in Handle, NEW p \in Pid \cup {-1},
         ReadHit(h, p) \/ ReadMiss(h, p)
  PROVE  p \in Pid /\ Store!Get(h, p)
<1>1. Valid(h, p) /\ Live(h) /\ p \in Pid
  BY ValidIsLive DEF ReadHit, ReadMiss, Missing
<1>2. Attached[h] = fdTable[pf[h].fd] /\ Attached[h] # Store!Nothing
  BY <1>1, AttachedTypes
<1>3. Store!Readable(h, p)
  BY <1>1, <1>2 DEF Store!Readable, Valid, Coherence, EndPidIsLength
<1>4. out'.call = "read" /\ out'.handle = h /\ out'.rc = "OK" /\ out'.pid = p
  <2>1. \E v, m : out' = Got(h, p, v, m)
    <3>1. CASE ReadHit(h, p)
      BY <3>1 DEF ReadHit
    <3>2. CASE ReadMiss(h, p)
      BY <3>2, Zenon DEF ReadMiss
    <3> QED BY <3>1, <3>2
  <2> QED BY <2>1 DEF Got
<1>5. out'.data = disk[Attached[h].file][p]
  <2>1. CASE ReadHit(h, p)
    <3>1. PICK s \in Slot : /\ cache[s].fd = pf[h].fd /\ cache[s].pid = p
                            /\ cache[s].last # 0
                            /\ out' = Got(h, p, cache[s].data, FALSE)
      BY <2>1 DEF ReadHit, Serves, Holds
    <3>2. out'.data = cache[s].data
      BY <3>1 DEF Got
    <3> QED BY <3>1, <3>2, <1>1, <1>2 DEF Coherence, CacheCoherent
  <2>2. CASE ReadMiss(h, p)
    <3>1. out' = Got(h, p, disk[fdTable[pf[h].fd].file][p], TRUE)
      BY <2>2, Zenon DEF ReadMiss
    <3> QED BY <1>2, <3>1 DEF Got
  <2> QED BY <2>1, <2>2
<1>6. UNCHANGED <<disk, size, present, Attached>>
  BY DEF ReadHit, ReadMiss, Attached, Live
<1> QED BY <1>1, <1>3, <1>4, <1>5, <1>6 DEF Store!Get, Store!Answers

LEMMA StoreRefuse ==
  ASSUME Disciplined, Coherence, NEW h \in Handle,
         \/ \E f \in File, mode \in {"r", "w"} : OpenFails(h, f, mode)
         \/ CloseFails(h)
         \/ \E p \in Pid \cup {-1} : WriteFails(h, p) \/ ReadFails(h, p)
  PROVE  Store!Refuse(h)
<1>1. ASSUME UNCHANGED <<fdTable, pf>> PROVE UNCHANGED Attached
  BY <1>1 DEF Attached, Live
<1>2. CASE \E f \in File, mode \in {"r", "w"} : OpenFails(h, f, mode)
  BY <1>1, <1>2 DEF OpenFails, Reply, ReplyOn, Store!Refuse
<1>3. CASE CloseFails(h)
  <2>1. ~Live(h) /\ UNCHANGED fdTable
    BY <1>3 DEF CloseFails, Disciplined, Live, Coherence, LiveIsOpen
  <2> QED BY <1>1, <1>3, <2>1, AttachedTypes DEF CloseFails, Reply, ReplyOn, Store!Refuse
<1>4. ASSUME NEW p \in Pid \cup {-1}, WriteFails(h, p) PROVE Store!Refuse(h)
  <2>1. ~CanSeek(pf[h].fd) => ~Live(h)
    BY DEF CanSeek, Live, Coherence, LiveIsOpen
  <2>2. CanSeek(pf[h].fd) => Live(h)
    BY DEF CanSeek, Live
  <2>3. out'.pid < 0 \/ Attached[h].mode = "r" \/ "write" \in Faults
    BY <1>4, <2>1, <2>2, AttachedTypes DEF WriteFails, Reply, ReplyOn, Store!Nothing
  <2>4. out'.call = "write" /\ out'.handle = h /\ out'.rc # "OK"
    BY <1>4 DEF WriteFails, Reply, ReplyOn
  <2> QED BY <1>1, <1>4, <2>3, <2>4 DEF WriteFails, Store!Refuse
<1>5. ASSUME NEW p \in Pid \cup {-1}, ReadFails(h, p) PROVE Store!Refuse(h)
  <2>1. Valid(h, p) => CanSeek(pf[h].fd)
    BY ValidIsLive
  <2>2. ~Valid(h, p) /\ out' = ReplyOn("read", h, p, "RC_INVALID_PID")
    BY <1>5, <2>1 DEF ReadFails, Missing
  <2>3. out'.call = "read" /\ out'.handle = h /\ out'.rc = "RC_INVALID_PID" /\ out'.pid = p
    BY <2>2 DEF ReplyOn
  <2>4. ~Store!Readable(h, p)
    <3>1. Attached[h] # Store!Nothing => Live(h) /\ Attached[h] = fdTable[pf[h].fd]
      BY DEF Attached, Closed, Store!Nothing
    <3> QED BY <2>2, <3>1 DEF Store!Readable, Valid, Coherence, EndPidIsLength
  <2> QED BY <1>1, <1>5, <2>3, <2>4 DEF ReadFails, Store!Refuse
<1> QED BY <1>2, <1>3, <1>4, <1>5

LEMMA StoreRestart == ASSUME Restart PROVE Store!Reset
<1>1. Attached' = [h \in Handle |-> Store!Nothing]
  BY DEF Restart, Attached, Live, Fresh, Closed, Store!Nothing
<1>2. out'.rc = "OK"
  BY DEF Restart, Reply, ReplyOn
<1> QED BY <1>1, <1>2 DEF Restart, Store!Reset

LEMMA StoreNext ==
  ASSUME Disciplined, Coherence, [Next]_vars
  PROVE  [Store!Next]_(Store!vars)
<1>1. CASE UNCHANGED vars
  BY <1>1 DEF vars, Store!vars, Attached, Live
<1>2. ASSUME NEW h \in Handle, NEW p \in Pid \cup {-1}, ReadMissFails(h, p)
      PROVE  FALSE
  BY <1>2 DEF ReadMissFails, Disciplined
<1>3. ASSUME NEW h \in Handle, NEW p \in Pid, NEW v \in Content, Write(h, p, v)
      PROVE  Store!Next
  BY <1>3, StoreWrite DEF Store!Next, Store!Pid, Pid
<1>4. ASSUME NEW h \in Handle, NEW p \in Pid \cup {-1}, ReadHit(h, p) \/ ReadMiss(h, p)
      PROVE  Store!Next
  BY <1>4, StoreRead DEF Store!Next, Store!Pid, Pid
<1>5. ASSUME NEW h \in Handle, NEW f \in File, NEW mode \in {"r", "w"}, Open(h, f, mode)
      PROVE  Store!Next
  BY <1>5, StoreOpen DEF Store!Next
<1>6. ASSUME NEW h \in Handle, Close(h) \/ Drop(h)
      PROVE  Store!Next
  BY <1>6, StoreClose DEF Store!Next
<1>7. ASSUME NEW h \in Handle,
             \/ \E f \in File, mode \in {"r", "w"} : OpenFails(h, f, mode)
             \/ CloseFails(h)
             \/ \E p \in Pid \cup {-1} : WriteFails(h, p) \/ ReadFails(h, p)
      PROVE  Store!Next
  BY <1>7, StoreRefuse DEF Store!Next
<1>8. CASE Restart
  BY <1>8, StoreRestart DEF Store!Next
<1> QED BY <1>1, <1>2, <1>3, <1>4, <1>5, <1>6, <1>7, <1>8 DEF Next

\* Behind its cache and its descriptors a PageFile is the store of pages its
\* callers are written against: no sequence of opens, writes, hits, evictions,
\* closes and restarts shows them anything else.
THEOREM ImplementsPageStore == ASSUME Disciplined PROVE Spec => IsPageStore
<1>1. Coherence /\ [Next]_vars => [Store!Next]_(Store!vars)
  BY StoreNext
<1> QED BY <1>1, StoreInit, CoherenceInvariant, PTL DEF IsPageStore, Spec, Store!Spec

-----------------------------------------------------------------------------
(* The cache is a least-recently-used cache, until its clock wraps.        *)

\* The clock is ahead of every access, no two live slots were used at the same
\* time, and an object that is not open has no page to read.
Aged ==
  /\ clock > 0
  /\ \A s \in Slot : cache[s].last \in 0..clock /\ (cache[s].last # 0 => cache[s].fd > 0)
  /\ \A s, t \in Slot : s # t /\ cache[s].last # 0 => cache[s].last # cache[t].last
  /\ \A h \in Handle : pf[h].fd <= 0 => pf[h].epid = 0

Unwrapped == clock' < clock => clock' = 1

LEMMA TickAhead ==
  ASSUME TypeOK, Aged, Unwrapped, clock' = Tick
  PROVE  clock' = clock + 1 /\ \A s \in Slot : cache[s].last < clock'
BY DEF TypeOK, Aged, Unwrapped, Tick, Clock

LEMMA FdIsInt == \A n \in Fds \cup {-1} : n \in Int
<1>1. \A n \in Fds : n \in Int
  OBVIOUS
<1> QED BY <1>1

LEMMA AgedFrame ==
  ASSUME TypeOK, TypeOK', Aged, clock' = clock,
         \A s \in Slot : cache'[s] = cache[s] \/ cache'[s].last = 0,
         \A h \in Handle : pf'[h] = pf[h] \/ pf'[h].fd > 0 \/ pf'[h].epid = 0
  PROVE  Aged'
<1>1. clock \in Int /\ clock > 0
  BY DEF Aged, TypeOK, Clock
<1>2. \A s \in Slot : cache'[s].last \in 0..clock' /\ (cache'[s].last # 0 => cache'[s].fd > 0)
  BY <1>1 DEF Aged
<1>3. \A s \in Slot : cache'[s].last # 0 => cache'[s].last = cache[s].last
  OBVIOUS
<1>4. \A s, t \in Slot : s # t /\ cache'[s].last # 0 => cache'[s].last # cache'[t].last
  BY <1>3 DEF Aged
<1>5. ASSUME NEW h \in Handle, pf'[h].fd <= 0 PROVE pf'[h].epid = 0
  <2>1. pf'[h].fd \in Int
    <3>1. pf'[h] \in [fd : Fds \cup {-1}, epid : 0..MaxPages]
      BY DEF TypeOK
    <3>2. pf'[h].fd \in Fds \cup {-1}
      BY <3>1
    <3> QED BY <3>2, FdIsInt
  <2> QED BY <1>5, <2>1 DEF Aged
<1> QED BY <1>1, <1>2, <1>4, <1>5 DEF Aged

LEMMA AgedUse ==
  ASSUME TypeOK, Aged, Unwrapped, clock' = Tick, pf' = pf, NEW t \in Slot,
         cache'[t].last = Tick, cache'[t].fd > 0, \A s \in Slot \ {t} : cache'[s] = cache[s]
  PROVE  Aged'
<1>1. clock' = clock + 1 /\ cache'[t].last = clock' /\ \A s \in Slot : cache[s].last < clock'
  BY TickAhead
<1>2. \A s \in Slot \ {t} : cache'[s].last # clock'
  <2>1. clock \in Int /\ \A s \in Slot : cache[s].last \in Int
    BY DEF TypeOK, CacheEntry, Clock
  <2>2. \A s \in Slot : cache[s].last # clock'
    BY <1>1, <2>1
  <2> QED BY <2>2
<1>3. \A s \in Slot : cache'[s].last \in 0..clock'
  BY <1>1 DEF Aged
<1> QED BY <1>1, <1>2, <1>3 DEF Aged

\* A page that can be read is one of an open object.
LEMMA ReadFromOpen ==
  ASSUME TypeOK, Aged, NEW h \in Handle, NEW p \in Pid \cup {-1}, Valid(h, p)
  PROVE  pf[h].fd \in Fds /\ pf[h].fd > 0 /\ p \in Pid
<1>1. p \in Pid /\ pf[h] \in [fd : Fds \cup {-1}, epid : 0..MaxPages]
  BY ValidPid, HandleTypes
<1>2. pf[h].fd \in Fds \cup {-1} /\ pf[h].epid # 0
  BY <1>1 DEF Valid, Pid
<1>3. pf[h].fd > 0
  <2>1. pf[h].fd \in Int /\ ~(pf[h].fd <= 0)
    BY <1>2, FdIsInt DEF Aged
  <2> QED BY <2>1
<1> QED BY <1>1, <1>3, HandleTypes

\* Slot t was given page p of the open object h, or read again.
LEMMA ReadUses ==
  ASSUME TypeOK, Aged, NEW h \in Handle, NEW p \in Pid \cup {-1}, ReadHit(h, p) \/ ReadMiss(h, p)
  PROVE  \E t \in Slot :
           /\ cache'[t].last = Tick /\ PageOf(t)' = <<pf[h].fd, p>>
           /\ \A s \in Slot \ {t} : cache'[s] = cache[s]
           /\ ReadHit(h, p) => cache[t].last # 0 /\ PageOf(t) = <<pf[h].fd, p>>
           /\ ReadMiss(h, p) => IsVictim(t)
<1>1. cache \in [Slot -> CacheEntry]
  BY DEF TypeOK
<1>2. CASE ReadHit(h, p)
  <2>1. PICK t \in Slot : /\ cache[t].fd = pf[h].fd /\ cache[t].pid = p /\ cache[t].last # 0
                          /\ cache' = [cache EXCEPT ![t].last = Tick]
    BY <1>2 DEF ReadHit, Serves, Holds
  <2>2. cache'[t] = [cache[t] EXCEPT !.last = Tick] /\ \A s \in Slot \ {t} : cache'[s] = cache[s]
    BY <1>1, <2>1
  <2>3. cache'[t].last = Tick /\ cache'[t].fd = cache[t].fd /\ cache'[t].pid = cache[t].pid
    BY <1>1, <2>2 DEF CacheEntry
  <2>4. ~ReadMiss(h, p)
    BY <2>1 DEF ReadMiss, Missing, Holds
  <2> QED BY <2>1, <2>2, <2>3, <2>4 DEF PageOf
<1>3. CASE ReadMiss(h, p)
  <2>1. PICK t \in Slot : \E v : IsVictim(t) /\ cache' = [cache EXCEPT ![t] =
                            [fd |-> pf[h].fd, pid |-> p, last |-> Tick, data |-> v]]
    BY <1>3 DEF ReadMiss
  <2>2. PICK v : cache' = [cache EXCEPT ![t] = [fd |-> pf[h].fd, pid |-> p, last |-> Tick, data |-> v]]
    BY <2>1
  <2>3. cache'[t].last = Tick /\ cache'[t].fd = pf[h].fd /\ cache'[t].pid = p
        /\ \A s \in Slot \ {t} : cache'[s] = cache[s]
    BY <1>1, <2>2
  <2>4. ~ReadHit(h, p)
    BY <1>3 DEF ReadHit, ReadMiss, Missing, Serves
  <2> QED BY <2>1, <2>3, <2>4 DEF PageOf
<1> QED BY <1>2, <1>3

LEMMA AgedNext ==
  ASSUME "read" \notin Faults, TypeOK, Aged, [Next /\ Unwrapped]_vars
  PROVE  Aged'
<1> TypeOK'
  BY NextType
<1>1. CASE UNCHANGED vars
  BY <1>1, AgedFrame DEF vars
<1>2. ASSUME NEW h \in Handle,
             \/ \E f \in File, mode \in {"r", "w"} : OpenFails(h, f, mode)
             \/ CloseFails(h)
             \/ \E p \in Pid \cup {-1} : WriteFails(h, p) \/ ReadFails(h, p)
      PROVE  Aged'
  <2>1. UNCHANGED <<pf, cache, clock>>
    BY <1>2 DEF OpenFails, CloseFails, WriteFails, ReadFails
  <2> QED BY <2>1, AgedFrame
<1>3. ASSUME NEW h \in Handle, NEW f \in File, NEW mode \in {"r", "w"}, Open(h, f, mode) PROVE Aged'
  <2>1. PICK n \in Fds : pf' = [pf EXCEPT ![h] = [fd |-> n, epid |-> size[f]]]
    BY <1>3 DEF Open
  <2>2. \A g \in Handle : pf'[g] = pf[g] \/ pf'[g].fd > 0
    BY <2>1 DEF TypeOK
  <2> QED BY <1>3, <2>2, AgedFrame DEF Open
<1>4. ASSUME NEW h \in Handle, Close(h) \/ Drop(h) PROVE Aged'
  <2>1. \A g \in Handle : pf'[g] = pf[g] \/ pf'[g].epid = 0
    BY <1>4 DEF Close, Drop, Fresh, TypeOK
  <2>2. \A s \in Slot : cache'[s] = cache[s] \/ cache'[s].last = 0
    BY <1>4, SlotTypes DEF Close, Drop, EvictAll
  <2>3. clock' = clock
    BY <1>4 DEF Close, Drop
  <2> QED BY <2>1, <2>2, <2>3, AgedFrame
<1>5. ASSUME NEW h \in Handle, NEW p \in Pid, NEW v \in Content, Write(h, p, v) PROVE Aged'
  <2>1. \A s \in Slot : cache'[s] = cache[s] \/ cache'[s].last = 0
    BY <1>5, SlotTypes DEF Write, Invalidated
  <2>2. \A g \in Handle : pf'[g] = pf[g] \/ pf'[g].fd > 0
    <3>1. pf[h].fd > 0 /\ pf' = [pf EXCEPT ![h].epid = EndAfter(@, p)]
      BY <1>5 DEF Write, CanSeek
    <3>2. pf \in [Handle -> [fd : Fds \cup {-1}, epid : 0..MaxPages]]
      BY DEF TypeOK
    <3>3. pf'[h].fd = pf[h].fd /\ \A g \in Handle \ {h} : pf'[g] = pf[g]
      BY <3>1, <3>2
    <3> QED BY <3>1, <3>3
  <2> QED BY <1>5, <2>1, <2>2, AgedFrame DEF Write
<1>6. ASSUME NEW h \in Handle, NEW p \in Pid \cup {-1}, ReadHit(h, p) \/ ReadMiss(h, p), Unwrapped
      PROVE  Aged'
  <2>1. clock' = Tick /\ pf' = pf /\ pf[h].fd > 0
    BY <1>6, ReadFromOpen DEF ReadHit, ReadMiss, Missing
  <2>2. PICK t \in Slot : /\ cache'[t].last = Tick /\ PageOf(t)' = <<pf[h].fd, p>>
                          /\ \A s \in Slot \ {t} : cache'[s] = cache[s]
    BY <1>6, ReadUses
  <2>3. cache'[t].fd > 0
    BY <2>1, <2>2 DEF PageOf
  <2> QED BY <1>6, <2>1, <2>2, <2>3, AgedUse
<1>7. CASE Restart
  <2>1. clock' = 1 /\ (\A s \in Slot : cache'[s].last = 0) /\ \A h \in Handle : pf'[h].epid = 0
    BY <1>7 DEF Restart, EmptySlot, Fresh
  <2> QED BY <2>1 DEF Aged
<1>8. ASSUME NEW h \in Handle, NEW p \in Pid \cup {-1} PROVE ~ReadMissFails(h, p)
  BY DEF ReadMissFails
<1> QED BY <1>1, <1>2, <1>3, <1>4, <1>5, <1>6, <1>7, <1>8 DEF Next

-----------------------------------------------------------------------------
(* The cache and the list.                                                 *)
SlotsTell ==
  /\ \A x : x \in Held <=> \E s \in Slot : cache[s].last # 0 /\ x = PageOf(s)
  /\ \A d : d \in Later <=>
       \E s, t \in Slot : /\ cache[s].last # 0 /\ cache[t].last # 0
                          /\ cache[s].last > cache[t].last /\ d = <<PageOf(s), PageOf(t)>>

LEMMA SlotsTellNow == SlotsTell
<1>1. \A d : d \in Later <=>
        \E e \in Used \X Used : cache[e[1]].last > cache[e[2]].last /\ d = <<PageOf(e[1]), PageOf(e[2])>>
  BY DEF Later
<1>2. \A d : d \in Later <=>
        \E s \in Used : \E t \in Used : cache[s].last > cache[t].last /\ d = <<PageOf(s), PageOf(t)>>
  <2>1. ASSUME NEW d, d \in Later
        PROVE  \E s \in Used : \E t \in Used : cache[s].last > cache[t].last /\ d = <<PageOf(s), PageOf(t)>>
    BY <1>1, <2>1
  <2>2. ASSUME NEW s \in Used, NEW t \in Used, cache[s].last > cache[t].last
        PROVE  <<PageOf(s), PageOf(t)>> \in Later
    <3>1. PICK e \in Used \X Used : e = <<s, t>>
      OBVIOUS
    <3> QED BY <1>1, <2>2, <3>1
  <2> QED BY <2>1, <2>2
<1> QED BY <1>2 DEF SlotsTell, Held, Used

LEMMA SlotsTellThen == SlotsTell'
BY SlotsTellNow, PTL

\* The slots of some pages are cleared.
LEMMA Forgotten ==
  ASSUME NEW P,
         \A s \in Slot : cache[s].last # 0 /\ PageOf(s) \notin P => cache'[s] = cache[s],
         \A s \in Slot : cache[s].last = 0 \/ PageOf(s) \in P => cache'[s].last = 0
  PROVE  Held' = Held \ P /\ Later' = Lru!Among(Held \ P)
<1> USE SlotsTellNow, SlotsTellThen
<1>1. \A s \in Slot : cache'[s].last # 0 <=> cache[s].last # 0 /\ PageOf(s) \notin P
  OBVIOUS
<1>2. \A s \in Slot : cache'[s].last # 0 => cache'[s] = cache[s] /\ PageOf(s)' = PageOf(s)
  BY <1>1 DEF PageOf
<1>3. \A x : x \in Held' <=> x \in Held /\ x \notin P
  BY <1>1, <1>2 DEF SlotsTell
<1>4. ASSUME NEW d, d \in Later' PROVE d \in Later /\ d \in (Held \ P) \X (Held \ P)
  <2>1. PICK s \in Slot, t \in Slot :
          /\ cache'[s].last # 0 /\ cache'[t].last # 0
          /\ cache'[s].last > cache'[t].last /\ d = <<PageOf(s)', PageOf(t)'>>
    BY <1>4 DEF SlotsTell
  <2>2. /\ cache[s].last # 0 /\ cache[t].last # 0 /\ cache[s].last > cache[t].last
        /\ d = <<PageOf(s), PageOf(t)>> /\ PageOf(s) \notin P /\ PageOf(t) \notin P
    BY <1>1, <1>2, <2>1
  <2>3. PageOf(s) \in Held /\ PageOf(t) \in Held /\ d \in Later
    BY <2>2 DEF SlotsTell
  <2> QED BY <2>2, <2>3
<1>5. ASSUME NEW d, d \in Later, d \in (Held \ P) \X (Held \ P) PROVE d \in Later'
  <2>1. PICK s \in Slot, t \in Slot :
          /\ cache[s].last # 0 /\ cache[t].last # 0
          /\ cache[s].last > cache[t].last /\ d = <<PageOf(s), PageOf(t)>>
    BY <1>5 DEF SlotsTell
  <2>2. PageOf(s) \notin P /\ PageOf(t) \notin P
    BY <1>5, <2>1
  <2>3. /\ cache'[s].last # 0 /\ cache'[t].last # 0 /\ cache'[s].last > cache'[t].last
        /\ d = <<PageOf(s)', PageOf(t)'>>
    BY <1>1, <1>2, <2>1, <2>2
  <2> QED BY <2>3 DEF SlotsTell
<1> QED BY <1>3, <1>4, <1>5 DEF Lru!Among

\* One slot is given a page, and the latest access; the others keep theirs.
LEMMA UsedLast ==
  ASSUME OneSlotPerPage, NEW t \in Slot, NEW p, NEW S,
         \A x : x \in S <=> \E s \in Slot \ {t} : cache[s].last # 0 /\ x = PageOf(s),
         PageOf(t)' = p, \A s \in Slot \ {t} : cache'[s] = cache[s],
         cache'[t].last # 0, \A s \in Slot \ {t} : cache[s].last # 0 => cache'[t].last > cache[s].last,
         \A s \in Slot \ {t} : cache[s].last # 0 => ~(cache[s].last > cache'[t].last),
         ~(cache'[t].last > cache'[t].last)
  PROVE  Lru!Use(p, S)
<1> USE SlotsTellNow, SlotsTellThen
<1>1. \A s \in Slot \ {t} : PageOf(s)' = PageOf(s)
  BY DEF PageOf
<1>2. \A x : x \in Held' <=> x \in S \/ x = p
  BY <1>1 DEF SlotsTell
<1>3. ASSUME NEW d, d \in Later' PROVE d \in Lru!Among(S) \/ d \in {p} \X S
  <2>1. PICK a \in Slot, b \in Slot :
          /\ cache'[a].last # 0 /\ cache'[b].last # 0
          /\ cache'[a].last > cache'[b].last /\ d = <<PageOf(a)', PageOf(b)'>>
    BY <1>3 DEF SlotsTell
  <2>2. b # t
    BY <2>1
  <2>3. PageOf(b)' \in S
    BY <1>1, <2>1, <2>2
  <2>4. CASE a = t
    BY <2>1, <2>3, <2>4
  <2>5. CASE a # t
    <3>1. PageOf(a)' \in S /\ d = <<PageOf(a), PageOf(b)>>
      BY <1>1, <2>1, <2>2, <2>5
    <3>2. d \in Later
      BY <2>1, <2>2, <2>5, <3>1 DEF SlotsTell
    <3> QED BY <2>1, <2>3, <3>1, <3>2 DEF Lru!Among
  <2> QED BY <2>4, <2>5
<1>4. ASSUME NEW d, d \in Lru!Among(S) PROVE d \in Later'
  <2>1. d \in Later /\ d \in S \X S
    BY <1>4 DEF Lru!Among
  <2>2. PICK a \in Slot, b \in Slot :
          /\ cache[a].last # 0 /\ cache[b].last # 0
          /\ cache[a].last > cache[b].last /\ d = <<PageOf(a), PageOf(b)>>
    BY <2>1 DEF SlotsTell
  <2>3. PageOf(a) \in S /\ PageOf(b) \in S
    BY <2>1, <2>2
  <2>4. a # t /\ b # t
    BY <2>2, <2>3 DEF OneSlotPerPage, PageOf
  <2>5. /\ cache'[a].last # 0 /\ cache'[b].last # 0
        /\ cache'[a].last > cache'[b].last /\ d = <<PageOf(a)', PageOf(b)'>>
    BY <1>1, <2>2, <2>4
  <2> QED BY <2>5 DEF SlotsTell
<1>5. ASSUME NEW x \in S PROVE <<p, x>> \in Later'
  <2>1. PICK s \in Slot \ {t} : cache[s].last # 0 /\ x = PageOf(s)
    OBVIOUS
  <2>2. /\ cache'[t].last # 0 /\ cache'[s].last # 0
        /\ cache'[t].last > cache'[s].last /\ <<p, x>> = <<PageOf(t)', PageOf(s)'>>
    BY <1>1, <2>1
  <2> QED BY <2>2 DEF SlotsTell
<1>6. Later' = Lru!Among(S) \cup ({p} \X S)
  BY <1>3, <1>4, <1>5
<1> QED BY <1>2, <1>6 DEF Lru!Use

\* There are as many pages as live slots.
LEMMA HeldCount ==
  ASSUME OneSlotPerPage
  PROVE  /\ (\A s \in Slot : cache[s].last # 0) => Cardinality(Held) = CACHE_COUNT
         /\ (\E s \in Slot : cache[s].last = 0) => Cardinality(Held) < CACHE_COUNT
<1> DEFINE f == [s \in Used |-> PageOf(s)]
<1>1. IsFiniteSet(Slot) /\ Cardinality(Slot) = CACHE_COUNT
  BY FS_Interval DEF Slot
<1>2. Used \in SUBSET Slot /\ IsFiniteSet(Used)
  BY <1>1, FS_Subset DEF Used
<1>3. Cardinality(Held) = Cardinality(Used)
  <2>1. f \in [Used -> Held] /\ \A x \in Held : \E s \in Used : f[s] = x
    BY DEF Held
  <2>2. \A s, t \in Used : f[s] = f[t] => s = t
    BY DEF Used, OneSlotPerPage, PageOf
  <2> HIDE DEF f
  <2>3. f \in Surjection(Used, Held) /\ f \in Injection(Used, Held)
    BY <2>1, <2>2 DEF Surjection, Injection, IsInjective
  <2> QED BY <1>2, <2>3, FS_Surjection
<1>4. Cardinality(Used) \in Nat
  BY <1>2, FS_CardinalityType
<1>5. Cardinality(Used) <= CACHE_COUNT /\ (Cardinality(Used) = CACHE_COUNT => Used = Slot)
  BY <1>1, <1>2, FS_Subset
<1>6. ASSUME \A s \in Slot : cache[s].last # 0 PROVE Cardinality(Held) = CACHE_COUNT
  <2>1. Used = Slot
    BY <1>6 DEF Used
  <2> QED BY <1>1, <1>3, <2>1
<1>7. ASSUME NEW s \in Slot, cache[s].last = 0 PROVE Cardinality(Held) < CACHE_COUNT
  <2>1. Used # Slot
    BY <1>7 DEF Used
  <2> QED BY <1>3, <1>4, <1>5, <2>1
<1> QED BY <1>6, <1>7

-----------------------------------------------------------------------------
(* Every step is one of the cache.                                         *)
LEMMA SameCardinality == \A S : Lru!Cardinality(S) = Cardinality(S)
BY DEF Cardinality, Lru!Cardinality

LEMMA LruForgets ==
  ASSUME NEW P, Held' = Held \ P, Later' = Lru!Among(Held \ P)
  PROVE  Lru!Forget(P)
BY DEF Lru!Forget

\* What the cache is told of a call: a read's or a write's page, if it succeeded.
LEMMA AccessedIs ==
  /\ out.rc = "OK" /\ out.call \in {"read", "write"} =>
       Accessed = [call |-> out.call, page |-> <<pf[out.handle].fd, out.pid>>, miss |-> out.miss]
  /\ out.rc = "OK" /\ out.call \notin {"read", "write"} =>
       Accessed = [call |-> out.call, page |-> <<0, 0>>, miss |-> out.miss]
  /\ out.rc # "OK" => Accessed = [call |-> "failed", page |-> <<0, 0>>, miss |-> out.miss]
BY DEF Accessed

LEMMA AccessedThen ==
  /\ out'.rc = "OK" /\ out'.call \in {"read", "write"} =>
       Accessed' = [call |-> out'.call, page |-> <<pf'[out'.handle].fd, out'.pid>>,
                    miss |-> out'.miss]
  /\ out'.rc = "OK" /\ out'.call \notin {"read", "write"} =>
       Accessed' = [call |-> out'.call, page |-> <<0, 0>>, miss |-> out'.miss]
  /\ out'.rc # "OK" => Accessed' = [call |-> "failed", page |-> <<0, 0>>, miss |-> out'.miss]
BY DEF Accessed

LEMMA LruRead ==
  ASSUME TypeOK, Aged, OneSlotPerPage, Unwrapped, NEW h \in Handle, NEW p \in Pid \cup {-1},
         ReadHit(h, p) \/ ReadMiss(h, p)
  PROVE  Lru!Next
<1> DEFINE page == <<pf[h].fd, p>>
<1>1. pf[h].fd \in Fds /\ p \in Pid /\ clock' = Tick /\ pf' = pf
  BY ReadFromOpen DEF ReadHit, ReadMiss, Missing
<1>2. clock' = clock + 1 /\ \A s \in Slot : cache[s].last < clock' /\ cache[s].last \in Nat
  BY <1>1, TickAhead DEF Aged
<1>3. PICK t \in Slot : /\ cache'[t].last = Tick /\ PageOf(t)' = page
                        /\ \A s \in Slot \ {t} : cache'[s] = cache[s]
                        /\ ReadHit(h, p) => cache[t].last # 0 /\ PageOf(t) = page
                        /\ ReadMiss(h, p) => IsVictim(t)
  BY ReadUses
<1> DEFINE S == {PageOf(s) : s \in {s \in Slot \ {t} : cache[s].last # 0}}
<1>4. \A x : x \in S <=> \E s \in Slot \ {t} : cache[s].last # 0 /\ x = PageOf(s)
  OBVIOUS
<1>5. page \in Fds \X Pid
  BY <1>1
<1>6. \A x : x \in Held <=> \E s \in Slot : cache[s].last # 0 /\ x = PageOf(s)
  BY SlotsTellNow DEF SlotsTell
<1>7. clock' \in Nat \ {0} /\ cache'[t].last = clock'
  <2>1. clock \in Int /\ clock > 0
    BY DEF Aged, TypeOK, Clock
  <2>2. cache'[t].last = clock'
    BY <1>1, <1>3
  <2>3. clock' = clock + 1
    BY <1>2
  <2> QED BY <2>1, <2>2, <2>3
<1> HIDE DEF S, page
<1>8. Lru!Use(page, S)
  <2>1. \A s \in Slot \ {t} : cache'[t].last > cache[s].last /\ ~(cache[s].last > cache'[t].last)
    BY <1>2, <1>7
  <2>2. cache'[t].last # 0 /\ ~(cache'[t].last > cache'[t].last)
    BY <1>7
  <2> QED BY <1>3, <1>4, <2>1, <2>2, UsedLast
<1>9. CASE ReadHit(h, p)
  <2>1. S = Held \ {page} /\ page \in Held
    BY <1>3, <1>4, <1>6, <1>9 DEF OneSlotPerPage, PageOf
  <2>2. Lru!Says("read", page, FALSE)
    <3>1. \E v : out' = Got(h, p, v, FALSE)
      BY <1>9 DEF ReadHit
    <3>2. out'.call = "read" /\ out'.rc = "OK" /\ out'.handle = h /\ out'.pid = p /\ out'.miss = FALSE
      BY <3>1 DEF Got
    <3> QED BY <1>1, <3>2, AccessedThen DEF Lru!Says, page
  <2> QED BY <1>5, <1>8, <2>1, <2>2 DEF Lru!Next, Lru!Hit
<1>10. CASE ReadMiss(h, p)
  <2>1. page \notin Held
    <3>1. \A s \in Slot : ~Holds(s, pf[h].fd, p)
      BY <1>10 DEF ReadMiss, Missing
    <3>2. \A s \in Slot : cache[s].last # 0 => PageOf(s) # page
      <4>1. \A s \in Slot : cache[s].last # 0 => cache[s].fd # pf[h].fd \/ cache[s].pid # p
        BY <3>1 DEF Holds
      <4> QED BY <4>1 DEF PageOf, page
    <3> QED BY <1>6, <3>2
  <2>2. Lru!Says("read", page, TRUE)
    <3>1. \E v : out' = Got(h, p, v, TRUE)
      BY <1>10, Zenon DEF ReadMiss
    <3>2. out'.call = "read" /\ out'.rc = "OK" /\ out'.handle = h /\ out'.pid = p /\ out'.miss = TRUE
      BY <3>1 DEF Got
    <3> QED BY <1>1, <3>2, AccessedThen DEF Lru!Says, page
  <2>3. CASE cache[t].last = 0
    <3>1. S = Held
      BY <1>4, <1>6, <2>3
    <3>2. Cardinality(Held) < CACHE_COUNT
      BY <2>3, HeldCount
    <3> QED BY <1>5, <1>8, <2>1, <2>2, <3>1, <3>2, SameCardinality DEF Lru!Next, Lru!Miss
  <2>4. CASE cache[t].last # 0
    <3>1. \A s \in Slot : cache[s].last # 0 /\ cache[t].last <= cache[s].last
      BY <1>3, <1>10, <2>4 DEF IsVictim
    <3>2. Cardinality(Held) = CACHE_COUNT
      BY <3>1, HeldCount
    <3>3. S = Held \ {PageOf(t)} /\ PageOf(t) \in Held
      BY <1>4, <1>6, <2>4 DEF OneSlotPerPage, PageOf
    <3>4. ASSUME NEW r \in Held \ {PageOf(t)} PROVE <<r, PageOf(t)>> \in Later
      <4>1. PICK s \in Slot : cache[s].last # 0 /\ r = PageOf(s)
        BY <1>6
      <4>2. cache[s].last # cache[t].last
        BY <2>4, <3>4, <4>1 DEF Aged
      <4>3. cache[s].last > cache[t].last
        BY <1>2, <3>1, <4>2
      <4> QED BY <2>4, <4>1, <4>3, SlotsTellNow DEF SlotsTell
    <3>5. Lru!Oldest(PageOf(t)) /\ Lru!Use(page, Held \ {PageOf(t)})
      BY <1>8, <3>3, <3>4 DEF Lru!Oldest
    <3> QED BY <1>5, <2>1, <2>2, <3>2, <3>3, <3>5, SameCardinality DEF Lru!Next, Lru!Miss
  <2> QED BY <2>3, <2>4
<1> QED BY <1>9, <1>10

LEMMA LruClear ==
  ASSUME TypeOK, Aged, OneSlotPerPage, NEW h \in Handle,
         Close(h) \/ \E p \in Pid, v \in Content : Write(h, p, v)
  PROVE  Lru!Next
<1>1. \A s \in Slot : Cleared(cache[s]).last = 0
  BY SlotTypes
<1>2. CASE Close(h)
  <2> DEFINE n == pf[h].fd
             P == {q \in Fds \X Pid : q[1] = n}
  <2>1. /\ n \in Fds /\ 0 \in Pid /\ cache' = EvictAll(n)
        /\ out'.call = "close" /\ out'.rc = "OK" /\ out'.miss = FALSE
    BY <1>2, HandleTypes DEF Close, Pid, Reply, ReplyOn
  <2>2. PICK q \in Fds \X Pid : q[1] = n
    <3>1. <<n, 0>> \in Fds \X Pid /\ <<n, 0>>[1] = n
      BY <2>1
    <3> QED BY <3>1
  <2>3. \A s \in Slot : PageOf(s) \in P <=> cache[s].fd = n
    <3>1. \A s \in Slot : cache[s].pid \in Pid
      BY DEF TypeOK, CacheEntry
    <3> QED BY <2>1, <3>1 DEF PageOf
  <2> HIDE DEF P
  <2>4. \A s \in Slot : /\ cache[s].last # 0 /\ PageOf(s) \notin P => cache'[s] = cache[s]
                        /\ cache[s].last = 0 \/ PageOf(s) \in P => cache'[s].last = 0
    BY <1>1, <2>1, <2>3 DEF EvictAll
  <2>5. Lru!Forget(P)
    BY <2>4, Forgotten, LruForgets
  <2>6. Lru!Says("close", <<0, 0>>, FALSE)
    BY <2>1, AccessedThen DEF Lru!Says
  <2> QED BY <2>2, <2>5, <2>6 DEF Lru!Next, Lru!Close, P
<1>3. ASSUME NEW p \in Pid, NEW v \in Content, Write(h, p, v) PROVE Lru!Next
  <2> DEFINE n == pf[h].fd
             page == <<n, p>>
  <2>1. n \in Fds /\ cache' = Invalidated(n, p) /\ out' = ReplyOn("write", h, p, "OK")
        /\ pf'[h].fd = n
    BY <1>3, HandleTypes DEF Write, TypeOK
  <2>2. \A s \in Slot : PageOf(s) \in {page} <=> cache[s].fd = n /\ cache[s].pid = p
    BY DEF PageOf
  <2>3. \A s \in Slot : Serves(s, n, p) <=> cache[s].last # 0 /\ PageOf(s) \in {page}
    BY <2>2 DEF Serves, Holds, OneSlotPerPage, Slot
  <2>4. page \in Fds \X Pid
    BY <2>1
  <2> HIDE DEF page
  <2>5. \A s \in Slot : /\ cache[s].last # 0 /\ PageOf(s) \notin {page} => cache'[s] = cache[s]
                        /\ cache[s].last = 0 \/ PageOf(s) \in {page} => cache'[s].last = 0
    BY <1>1, <2>1, <2>3 DEF Invalidated
  <2>6. Lru!Forget({page})
    BY <2>5, Forgotten, LruForgets
  <2>7. Lru!Says("write", page, FALSE)
    <3>1. out'.call = "write" /\ out'.rc = "OK" /\ out'.handle = h /\ out'.pid = p /\ out'.miss = FALSE
      BY <2>1 DEF ReplyOn
    <3> QED BY <2>1, <3>1, AccessedThen DEF Lru!Says, page
  <2> QED BY <2>4, <2>6, <2>7 DEF Lru!Next, Lru!Write
<1> QED BY <1>2, <1>3

LEMMA LruNext ==
  ASSUME "read" \notin Faults, TypeOK, Aged, OneSlotPerPage, [Next /\ Unwrapped]_vars
  PROVE  [Lru!Next]_<<Held, Later, Accessed>>
<1>1. ASSUME UNCHANGED cache PROVE UNCHANGED <<Held, Later>> /\ Lru!Among(Held) = Later
  <2>1. Held' = Held \ {} /\ Later' = Lru!Among(Held \ {})
    BY <1>1, Forgotten
  <2>2. Held \ {} = Held
    OBVIOUS
  <2>3. Later' = Later
    BY <1>1 DEF Later, Used, PageOf
  <2> QED BY <2>1, <2>2, <2>3
<1>2. CASE UNCHANGED vars
  BY <1>1, <1>2 DEF vars, Accessed
<1>3. ASSUME NEW h \in Handle,
             \/ \E f \in File, mode \in {"r", "w"} : Open(h, f, mode) \/ OpenFails(h, f, mode)
             \/ CloseFails(h) \/ Drop(h)
             \/ \E p \in Pid \cup {-1} : WriteFails(h, p) \/ ReadFails(h, p)
      PROVE  Lru!Next
  <2>1. /\ UNCHANGED cache /\ out'.miss = FALSE
        /\ out'.rc # "OK" \/ out'.call \in {"open", "none"}
    BY <1>3, SMTT(30) DEF Open, OpenFails, CloseFails, Drop, WriteFails, ReadFails, Reply, ReplyOn
  <2>2. Held' = Held \ {} /\ Later' = Lru!Among(Held \ {})
    BY <2>1, Forgotten
  <2>3. Lru!Forget({})
    BY <2>2, LruForgets
  <2>4. \E call \in {"open", "none", "failed"} : Lru!Says(call, <<0, 0>>, FALSE)
    BY <2>1, AccessedThen DEF Lru!Says
  <2> QED BY <2>3, <2>4 DEF Lru!Next, Lru!Other
<1>4. ASSUME NEW h \in Handle, NEW p \in Pid \cup {-1}, ReadMissFails(h, p)
      PROVE  FALSE
  BY <1>4 DEF ReadMissFails
<1>5. CASE Restart
  <2>1. /\ \A s \in Slot : cache'[s].last = 0
        /\ out'.call = "none" /\ out'.rc = "OK" /\ out'.miss = FALSE
    BY <1>5 DEF Restart, EmptySlot, Reply, ReplyOn
  <2>2. \A s \in Slot : cache[s].last # 0 => PageOf(s) \in Fds \X Pid
    <3>1. \A s \in Slot : cache[s].pid \in Pid /\ cache[s].fd \in Fds \cup {0}
      BY DEF TypeOK, CacheEntry
    <3> QED BY <3>1 DEF Aged, PageOf
  <2>3. Lru!Forget(Fds \X Pid)
    BY <2>1, <2>2, Forgotten, LruForgets
  <2>4. Lru!Says("none", <<0, 0>>, FALSE)
    BY <2>1, AccessedThen DEF Lru!Says
  <2> QED BY <2>3, <2>4 DEF Lru!Next, Lru!End
<1> QED BY <1>2, <1>3, <1>4, <1>5, LruRead, LruClear DEF Next

LEMMA LruInit == Init => Aged /\ Lru!Init
<1> SUFFICES ASSUME Init PROVE Aged /\ Lru!Init
  OBVIOUS
<1>1. clock = 1 /\ (\A s \in Slot : cache[s].last = 0) /\ (\A h \in Handle : pf[h].epid = 0)
      /\ out.call = "none" /\ out.rc = "OK" /\ out.miss = FALSE
  BY DEF Init, EmptySlot, Fresh, Reply, ReplyOn
<1>2. Held = {} /\ Later = {}
  BY <1>1, SlotsTellNow DEF SlotsTell
<1> QED BY <1>1, <1>2, AccessedIs DEF Aged, Lru!Init

\* Until the clock wraps, and unless ::read fails, the slots are a
\* least-recently-used cache, with any number of files, objects and descriptors: a
\* read goes to disk only for a page not among the CACHE_COUNT used last and not
\* written since, and the page given up is the one used least recently.
THEOREM ImplementsLruCache == ASSUME "read" \notin Faults PROVE SpecBeforeWrap => IsLruCache
<1>1. TypeOK /\ Aged /\ OneSlotPerPage /\ [Next /\ Unwrapped]_vars
        => TypeOK' /\ Aged' /\ OneSlotPerPage' /\ [Lru!Next]_<<Held, Later, Accessed>>
  BY NextType, AgedNext, OneSlotNext, LruNext
<1>2. Init => OneSlotPerPage
  BY DEF Init, OneSlotPerPage, EmptySlot
<1> QED BY <1>1, <1>2, InitType, LruInit, PTL DEF SpecBeforeWrap, Unwrapped, IsLruCache, Lru!Spec

=============================================================================
