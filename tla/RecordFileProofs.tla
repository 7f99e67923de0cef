-------------------------- MODULE RecordFileProofs --------------------------
(***************************************************************************)
(* Proofs about RecordFile, for every number of slots in a page, every set *)
(* of keys and values, and every length of file.                           *)
(***************************************************************************)
EXTENDS RecordFile, Sequences, SequenceTheorems, TLAPS

R == RECORDS_PER_PAGE
Rid == [pid : Nat, sid : Sid]

-----------------------------------------------------------------------------
(* Places.                                                                 *)

\* A place has one page and one slot, and a page and a slot are one place.
LEMMA PlaceParts ==
  ASSUME NEW n \in Nat
  PROVE  /\ n \div R \in Nat /\ n % R \in Sid
         /\ n = (n \div R) * R + (n % R)
BY SlotsAssumption DEF R, Sid

LEMMA PartsOfPlace ==
  ASSUME NEW p \in Nat, NEW s \in Sid
  PROVE  /\ p * R + s \in Nat
         /\ (p * R + s) \div R = p
         /\ (p * R + s) % R = s
BY SlotsAssumption DEF R, Sid

LEMMA NextPage ==
  ASSUME NEW p \in Nat, NEW q \in Nat
  PROVE  /\ p * R \in Nat
         /\ (p + 1) * R = p * R + R
         /\ p < q => p * R + R <= q * R
BY SlotsAssumption DEF R

\* operator++ goes from a record's place to the next, over the end of a page:
\* the loop of SqlEngine::select (SqlEngine.cc:126-190) visits every place.
THEOREM NextRidIsNextPlace ==
  ASSUME NEW rid \in Rid
  PROVE  NextRid(rid) \in Rid /\ Place(NextRid(rid)) = Place(rid) + 1
<1> rid.pid \in Nat /\ rid.sid \in Sid /\ R \in Nat \ {0}
  BY SlotsAssumption DEF Rid, R
<1>1. CASE rid.sid + 1 >= R
  <2>1. rid.sid = R - 1 /\ 0 \in Sid
    BY <1>1 DEF Sid, R
  <2>2. NextRid(rid) = [pid |-> rid.pid + 1, sid |-> 0]
    BY <1>1 DEF NextRid, R
  <2>3. Place(rid) = rid.pid * R + R - 1
    BY <2>1 DEF Place, R
  <2>4. Place(NextRid(rid)) = (rid.pid + 1) * R
    BY <2>1, <2>2, NextPage DEF Place, R
  <2> QED
    BY <2>1, <2>2, <2>3, <2>4, NextPage DEF Rid
<1>2. CASE ~(rid.sid + 1 >= R)
  <2>1. NextRid(rid) = [rid EXCEPT !.sid = rid.sid + 1] /\ rid.sid + 1 \in Sid
    BY <1>2 DEF NextRid, R, Sid
  <2>2. NextRid(rid) = [pid |-> rid.pid, sid |-> rid.sid + 1]
    BY <2>1 DEF Rid
  <2>3. Place(rid) = rid.pid * R + rid.sid
    BY DEF Place, R
  <2>4. Place(NextRid(rid)) = rid.pid * R + (rid.sid + 1)
    BY <2>1, <2>2 DEF Place, R
  <2> QED
    BY <2>1, <2>2, <2>3, <2>4, NextPage DEF Rid, Sid
<1> QED
  BY <1>1, <1>2

\* operator< is the order of places.
THEOREM BeforeIsSmallerPlace ==
  ASSUME NEW r1 \in Rid, NEW r2 \in Rid
  PROVE  Before(r1, r2) <=> Place(r1) < Place(r2)
<1> DEFINE p1 == r1.pid  s1 == r1.sid  p2 == r2.pid  s2 == r2.sid
<1>1. p1 \in Nat /\ p2 \in Nat /\ s1 \in 0..(R - 1) /\ s2 \in 0..(R - 1) /\ R \in Nat \ {0}
  BY SlotsAssumption DEF Rid, Sid, R
<1>2. Place(r1) = p1 * R + s1 /\ Place(r2) = p2 * R + s2
  BY <1>1 DEF Place, R, Sid
<1>3. Before(r1, r2) <=> (p1 < p2 \/ (p1 = p2 /\ s1 < s2))
  BY DEF Before
<1>4. /\ p1 < p2 => p1 * R + R <= p2 * R
      /\ p2 < p1 => p2 * R + R <= p1 * R
      /\ p1 * R \in Nat /\ p2 * R \in Nat
  BY <1>1, NextPage
<1> HIDE DEF p1, s1, p2, s2
<1>5. CASE p1 < p2
  BY <1>1, <1>2, <1>3, <1>4, <1>5
<1>6. CASE p2 < p1
  BY <1>1, <1>2, <1>3, <1>4, <1>6
<1>7. CASE p1 = p2
  BY <1>1, <1>2, <1>3, <1>4, <1>7
<1> QED
  BY <1>1, <1>5, <1>6, <1>7

-----------------------------------------------------------------------------
(* The end of the file.                                                    *)
ClosedIsEmpty == obj.mode = "none" => obj = Closed
IInv == TypeOK /\ EndIsKept /\ ClosedIsEmpty

ErId == [pid : 0..MaxPages, sid : Sid]

LEMMA Constants ==
  /\ R \in Nat \ {0} /\ R = RECORDS_PER_PAGE /\ MaxPages \in Nat
  /\ 0 \in Sid /\ First \in ErId /\ First \in RecordId
  /\ ZeroRecord \in Record /\ ZeroPage \in Page
BY SlotsAssumption, DataAssumption, PagesAssumption
   DEF R, Sid, First, ErId, RecordId, ZeroRecord, ZeroPage, Record, Value, Page

LEMMA InitHolds == Init => IInv
<1> SUFFICES ASSUME Init PROVE IInv
  OBVIOUS
<1> USE Constants DEF Init
<1>1. disk \in [0..(size - 1) -> Page] /\ size \in 0..MaxPages
  OBVIOUS
<1>2. obj = Closed /\ Closed \in [mode : {"none", "r", "w"}, erid : ErId] /\ Closed.mode = "none"
  BY DEF Closed
<1>3. present \in BOOLEAN /\ out.rid \in RecordId /\ out.record \in Record
  BY DEF Plain, Reply
<1> QED
  BY <1>1, <1>2, <1>3 DEF IInv, TypeOK, EndIsKept, ClosedIsEmpty, ErId

\* What open finds is a place for a record: the first of a page that is not there
\* yet, or one after the last of the last page.
LEMMA EndRidFacts ==
  ASSUME IInv
  PROVE  /\ EndRid \in ErId
         /\ EndRid.sid = 0 => EndRid.pid = size
         /\ EndRid.sid > 0 => /\ size > 0
                              /\ EndRid.pid = size - 1
                              /\ disk[size - 1].count = EndRid.sid
<1> USE Constants
<1>1. CASE size = 0
  BY <1>1 DEF EndRid, First, ErId
<1>2. CASE size # 0 /\ disk[size - 1].count >= R
  BY <1>2 DEF EndRid, ErId, IInv, TypeOK, R
<1>3. CASE size # 0 /\ ~(disk[size - 1].count >= R)
  <2>1. size \in 0..MaxPages /\ size > 0 /\ disk[size - 1] \in Page
    BY <1>3 DEF IInv, TypeOK
  <2>2. disk[size - 1].count \in 0..R /\ disk[size - 1].count > 0
    BY <1>3, <2>1 DEF Page, IInv, EndIsKept
  <2>3. EndRid = [pid |-> size - 1, sid |-> disk[size - 1].count]
    BY <1>3 DEF EndRid, R
  <2> QED
    BY <1>3, <2>1, <2>2, <2>3 DEF ErId, Sid
<1> QED
  BY <1>1, <1>2, <1>3

\* The page that append writes holds one record more than it did.
LEMMA FilledFacts ==
  ASSUME IInv, NEW rid \in ErId, rid = EndRid, NEW r \in Record
  PROVE  LET page == Filled(AppendTo(rid), rid.sid, r) IN
         /\ page \in Page
         /\ page.count = rid.sid + 1
         /\ page.slot[rid.sid] = Abstract!Kept(r)
         /\ \A s \in Sid \ {rid.sid} : page.slot[s] = AppendTo(rid).slot[s]
<1> DEFINE old == AppendTo(rid)  new == Filled(old, rid.sid, r)
<1>1. old \in Page
  BY Constants, EndRidFacts DEF AppendTo, IInv, TypeOK, ErId
<1>2. rid.sid \in Sid /\ rid.sid + 1 \in 0..R
  BY Constants DEF ErId, Sid
<1> HIDE DEF old
<1>3. Abstract!Kept(r) \in Record
  BY DEF Abstract!Kept, Record, Value
<1>4. Abstract!Kept(r) = [r EXCEPT !.value.long = FALSE]
  BY DEF Abstract!Kept
<1>5. new = [[old EXCEPT !.slot[rid.sid] = Abstract!Kept(r)] EXCEPT !.count = rid.sid + 1]
  BY <1>4 DEF Filled, WriteSlot, SetRecordCount
<1> DEFINE slots == [old.slot EXCEPT ![rid.sid] = Abstract!Kept(r)]
<1>6. slots \in [Sid -> Record]
  BY <1>1, <1>3 DEF Page
<1>7. new = [count |-> rid.sid + 1, slot |-> slots]
  BY <1>1, <1>5 DEF Page
<1>8. new \in Page
  BY <1>2, <1>6, <1>7, Constants DEF Page
<1>9. slots[rid.sid] = Abstract!Kept(r) /\ \A s \in Sid \ {rid.sid} : slots[s] = old.slot[s]
  BY <1>1, <1>2 DEF Page
<1> HIDE DEF slots
<1> QED
  BY <1>7, <1>8, <1>9 DEF old

\* What append does to the file and to the end.
LEMMA AppendFacts ==
  ASSUME IInv, NEW r \in Record, AppendRecord(r)
  PROVE  LET rid == obj.erid  page == Filled(AppendTo(rid), rid.sid, r) IN
         /\ rid = EndRid /\ rid \in ErId /\ rid.pid \in Nat /\ rid.sid \in Sid
         /\ size' = rid.pid + 1 /\ size' \in 0..MaxPages
         /\ size' = IF rid.sid = 0 THEN size + 1 ELSE size
         /\ disk' = [p \in 0..(size' - 1) |-> IF p = rid.pid THEN page ELSE disk[p]]
         /\ obj' = [mode |-> "w", erid |-> NextRid(rid)]
<1> DEFINE rid == obj.erid  page == Filled(AppendTo(rid), rid.sid, r)
<1>1. rid = EndRid /\ rid \in ErId
  BY EndRidFacts DEF AppendRecord, IInv, EndIsKept
<1>2. rid.pid < MaxPages /\ rid.pid \in Nat /\ rid.sid \in Sid
  BY <1>1 DEF AppendRecord, ErId
<1>3. size \in Nat /\ DOMAIN disk = 0..(size - 1)
  BY DEF IInv, TypeOK
<1>4. rid.sid = 0 => rid.pid = size
  BY <1>1, EndRidFacts
<1>5. rid.sid # 0 => size > 0 /\ rid.pid = size - 1
  BY <1>1, <1>2, EndRidFacts DEF Sid
<1>6. WritePage(rid.pid, page)
  BY DEF AppendRecord
<1>7. obj' = [mode |-> "w", erid |-> NextRid(rid)]
  BY DEF AppendRecord, IInv, TypeOK
<1> HIDE DEF page, rid
<1>8. size' = rid.pid + 1 /\ size' = IF rid.sid = 0 THEN size + 1 ELSE size
  BY <1>2, <1>3, <1>4, <1>5, <1>6 DEF WritePage
<1>9. DOMAIN disk \cup {rid.pid} = 0..(size' - 1)
  BY <1>2, <1>3, <1>4, <1>5, <1>8
<1>10. disk' = [p \in 0..(size' - 1) |-> IF p = rid.pid THEN page ELSE disk[p]]
  BY <1>6, <1>9 DEF WritePage
<1> QED
  BY <1>1, <1>2, <1>7, <1>8, <1>10, Constants DEF page, rid

-----------------------------------------------------------------------------
(* Every step keeps the types and the end.                                 *)

LEMMA AppendKeeps ==
  ASSUME IInv, NEW r \in Record, AppendRecord(r)
  PROVE  IInv'
<1> DEFINE rid == obj.erid  page == Filled(AppendTo(rid), rid.sid, r)
<1>1. /\ rid = EndRid /\ rid \in ErId /\ rid.pid \in Nat /\ rid.sid \in Sid
      /\ size' = rid.pid + 1 /\ size' \in 0..MaxPages
      /\ size' = IF rid.sid = 0 THEN size + 1 ELSE size
      /\ disk' = [p \in 0..(size' - 1) |-> IF p = rid.pid THEN page ELSE disk[p]]
      /\ obj' = [mode |-> "w", erid |-> NextRid(rid)]
  BY AppendFacts
<1>2. page \in Page /\ page.count = rid.sid + 1
  BY <1>1, FilledFacts
<1>3. out' = Reply("append", "OK", rid, r) /\ present' = present
  BY DEF AppendRecord
<1>4. rid.sid > 0 => rid.pid = size - 1 /\ size > 0
  BY <1>1, EndRidFacts
<1>5. size \in 0..MaxPages /\ \A p \in 0..(size - 1) : disk[p] \in Page
  BY DEF IInv, TypeOK
<1>6. \A p \in 0..(size - 2) : disk[p].count = R
  BY DEF IInv, EndIsKept, R
<1>7. size > 0 /\ rid.sid = 0 => disk[size - 1].count = R
  <2> SUFFICES ASSUME size > 0, rid.sid = 0 PROVE disk[size - 1].count = R
    OBVIOUS
  <2>1. disk[size - 1].count \in 0..R /\ disk[size - 1].count > 0
    BY <1>5, Constants DEF Page, IInv, EndIsKept
  <2>2. disk[size - 1].count >= R
    BY <1>1, <2>1 DEF EndRid, R
  <2> QED
    BY <2>1, <2>2, Constants
<1>8. present \in BOOLEAN
  BY DEF IInv, TypeOK
<1> HIDE DEF page, rid
<1>9. \A p \in 0..(size' - 1) : disk'[p] \in Page
  BY <1>1, <1>2, <1>4, <1>5, Constants DEF Sid
<1>10. disk' \in [0..(size' - 1) -> Page]
  BY <1>1, <1>9
<1>11. \A p \in 0..(size' - 2) : disk'[p].count = R
  BY <1>1, <1>4, <1>5, <1>6, <1>7, Constants, SMTT(30) DEF Sid
<1>12. disk'[size' - 1].count = rid.sid + 1
  BY <1>1, <1>2
<1>13. obj'.erid = (EndRid)'
  <2>1. (EndRid)' = IF rid.sid + 1 >= R THEN [pid |-> size', sid |-> 0]
                    ELSE [pid |-> size' - 1, sid |-> rid.sid + 1]
    <3>1. size' # 0
      BY <1>1
    <3> QED
      BY <3>1, <1>12 DEF EndRid, R
  <2>2. NextRid(rid) = IF rid.sid + 1 >= R THEN [pid |-> rid.pid + 1, sid |-> 0]
                       ELSE [pid |-> rid.pid, sid |-> rid.sid + 1]
    BY <1>1 DEF NextRid, ErId, R
  <2>3. obj'.erid = NextRid(rid) /\ size' - 1 = rid.pid
    BY <1>1
  <2> QED
    BY <1>1, <2>1, <2>2, <2>3
<1>14. NextRid(rid) \in [pid : 0..MaxPages, sid : Sid]
  BY <1>1, Constants, SMTT(30) DEF NextRid, ErId, Sid
<1>15. out'.rid \in RecordId /\ out'.record \in Record
  BY <1>1, <1>3, Constants DEF Reply, ErId, RecordId, Sid
<1>16. obj' \in [mode : {"none", "r", "w"}, erid : [pid : 0..MaxPages, sid : Sid]]
  BY <1>1, <1>14
<1>17. TypeOK'
  BY <1>1, <1>3, <1>8, <1>10, <1>15, <1>16 DEF TypeOK
<1>18. EndIsKept'
  <2>1. disk'[size' - 1].count > 0
    BY <1>1, <1>12 DEF Sid
  <2> QED
    BY <1>11, <1>13, <2>1, Constants DEF EndIsKept
<1>19. ClosedIsEmpty'
  BY <1>1 DEF ClosedIsEmpty
<1> QED
  BY <1>17, <1>18, <1>19 DEF IInv

\* What can be read is in the file.
LEMMA ValidFacts ==
  ASSUME IInv, NEW rid \in RecordId, Valid(rid)
  PROVE  /\ rid.pid \in 0..(size - 1) /\ rid.sid \in Sid
         /\ obj.mode # "none" /\ obj.erid = EndRid
         /\ disk[rid.pid].slot[rid.sid] \in Record
<1>1. rid.pid \in Nat /\ rid.sid \in Sid /\ Before(rid, obj.erid)
  BY DEF Valid, RecordId
<1>2. obj.mode # "none"
  BY <1>1 DEF IInv, ClosedIsEmpty, Closed, First, Before, Sid
<1>3. obj.erid = EndRid
  BY <1>2 DEF IInv, EndIsKept
<1>4. size \in Nat
  BY DEF IInv, TypeOK
<1>5. rid.pid \in 0..(size - 1)
  BY <1>1, <1>3, <1>4, EndRidFacts DEF Before, ErId, Sid
<1>6. disk[rid.pid] \in Page
  BY <1>5 DEF IInv, TypeOK
<1> QED
  BY <1>1, <1>2, <1>3, <1>5, <1>6 DEF Page

\* A call that leaves the file as it is keeps the invariant if the object and the
\* answer are right.
LEMMA SameFile ==
  ASSUME IInv, UNCHANGED <<disk, size>>, present' \in BOOLEAN,
         \/ obj' \in {obj, Closed}
         \/ \E mode \in {"r", "w"} : obj' = [mode |-> mode, erid |-> EndRid],
         out'.rid \in RecordId, out'.record \in Record
  PROVE  IInv'
<1> USE Constants
<1>1. (EndRid)' = EndRid
  BY DEF EndRid
<1>2. obj' \in [mode : {"none", "r", "w"}, erid : ErId]
  BY EndRidFacts DEF IInv, TypeOK, ErId, Closed
<1>3. obj'.mode # "none" => obj'.erid = EndRid
  BY DEF IInv, EndIsKept, Closed
<1>4. obj'.mode = "none" => obj' = Closed
  BY DEF IInv, ClosedIsEmpty, Closed
<1> QED
  BY <1>1, <1>2, <1>3, <1>4 DEF IInv, TypeOK, EndIsKept, ClosedIsEmpty, ErId

LEMMA StepKeeps == IInv /\ [Next]_vars => IInv'
<1> SUFFICES ASSUME IInv, [Next]_vars PROVE IInv'
  OBVIOUS
<1> USE Constants
<1>0. present \in BOOLEAN /\ out.rid \in RecordId /\ out.record \in Record
  BY DEF IInv, TypeOK
<1>1. ASSUME NEW mode \in {"r", "w"}, Open(mode) PROVE IInv'
  BY <1>1, SameFile DEF Open, Plain, Reply
<1>2. CASE OpenFails
  BY <1>2, <1>0, SameFile DEF OpenFails, Plain, Reply
<1>3. CASE Close
  BY <1>3, <1>0, SameFile DEF Close, Plain, Reply
<1>4. ASSUME NEW rid \in RecordId, Read(rid) PROVE IInv'
  BY <1>4, <1>0, ValidFacts, SameFile DEF Read, Reply
<1>5. ASSUME NEW rid \in RecordId, ReadFails(rid) PROVE IInv'
  BY <1>5, <1>0, SameFile DEF ReadFails, Reply
<1>6. ASSUME NEW r \in Record, AppendRecord(r) PROVE IInv'
  BY <1>6, AppendKeeps
<1>7. CASE AppendFails
  BY <1>7, <1>0, SameFile DEF AppendFails, Plain, Reply
<1>8. CASE UNCHANGED vars
  BY <1>8, <1>0, SameFile DEF vars
<1> QED
  BY <1>1, <1>2, <1>3, <1>4, <1>5, <1>6, <1>7, <1>8 DEF Next

THEOREM Invariance == Spec => []IInv
BY InitHolds, StepKeeps, PTL DEF Spec

\* The variables have their types, after any failed call and any early end.
THEOREM TypeCorrect == Spec => []TypeOK
<1>1. IInv => TypeOK
  BY DEF IInv
<1> QED
  BY <1>1, Invariance, PTL

\* Where an open object appends is where the next open would, and the count of
\* the last page tells it (RecordFile.cc:130-155).
THEOREM EndIsFoundAgain == Spec => []EndIsKept
<1>1. IInv => EndIsKept
  BY DEF IInv
<1> QED
  BY <1>1, Invariance, PTL

-----------------------------------------------------------------------------
(* The file as a log.                                                      *)
AbsEnd == IF obj.mode = "none" THEN -1 ELSE Place(obj.erid)
AbsOut == [call |-> out.call, rc |-> out.rc, place |-> Place(out.rid), record |-> out.record]

\* The end is the number of records.
LEMMA EndIsCount ==
  ASSUME IInv
  PROVE  Count \in Nat /\ Place(EndRid) = Count
<1>1. EndRid.pid \in Nat /\ EndRid.sid \in Sid /\ EndRid.sid \in Nat /\ size \in Nat
  BY EndRidFacts, Constants DEF ErId, Sid, IInv, TypeOK
<1>2. Place(EndRid) = EndRid.pid * R + EndRid.sid
  BY <1>1 DEF Place, R
<1>3. CASE size = 0
  BY <1>3, Constants DEF EndRid, First, Place, Count
<1>4. CASE size # 0 /\ disk[size - 1].count >= R
  <2>1. disk[size - 1].count = R
    <3>1. disk[size - 1] \in Page
      BY <1>1, <1>4 DEF IInv, TypeOK
    <3> QED
      BY <3>1, <1>4, Constants DEF Page
  <2>2. EndRid = [pid |-> size, sid |-> 0] /\ Count = (size - 1) * R + R
    BY <1>4, <2>1 DEF EndRid, Count, R
  <2>3. size * R = (size - 1) * R + R /\ size * R \in Nat
    <3>1. size - 1 \in Nat /\ (size - 1) + 1 = size
      BY <1>1, <1>4
    <3> QED
      BY <3>1, <1>1, NextPage
  <2> QED
    BY <1>2, <2>2, <2>3
<1>5. CASE size # 0 /\ ~(disk[size - 1].count >= R)
  <2>1. EndRid = [pid |-> size - 1, sid |-> disk[size - 1].count]
    BY <1>5 DEF EndRid, R
  <2>2. Count = (size - 1) * R + disk[size - 1].count
    BY <1>5 DEF Count, R
  <2>3. (size - 1) * R \in Nat
    BY <1>1, <1>5, NextPage
  <2> QED
    BY <1>1, <1>2, <2>1, <2>2, <2>3
<1> QED
  BY <1>3, <1>4, <1>5

\* Place n of the log is a slot of a page of the file, and the end the first
\* place after the last.
LogIsFile ==
  /\ Count \in Nat /\ Place(EndRid) = Count
  /\ Log \in Seq(Record) /\ Len(Log) = Count
  /\ \A n \in 0..(Count - 1) :
       /\ n \div R \in 0..(size - 1) /\ n % R \in Sid
       /\ Log[n + 1] = disk[n \div R].slot[n % R]

LEMMA LogFacts == IInv => LogIsFile
<1> SUFFICES ASSUME IInv PROVE LogIsFile
  OBVIOUS
<1>1. Count \in Nat /\ size \in Nat
  BY EndIsCount DEF IInv, TypeOK
<1>2. ASSUME NEW n \in 0..(Count - 1)
      PROVE  /\ n \div R \in 0..(size - 1) /\ n % R \in Sid
             /\ Log[n + 1] = disk[n \div R].slot[n % R]
             /\ Log[n + 1] \in Record
  <2> DEFINE rid == [pid |-> n \div R, sid |-> n % R]
  <2>1. n \in Nat /\ n \div R \in Nat /\ n % R \in Sid /\ n = (n \div R) * R + (n % R)
    BY <1>1, PlaceParts
  <2>2. rid \in Rid /\ Place(rid) = n
    BY <2>1 DEF Rid, Place, R
  <2>3. EndRid \in Rid /\ Place(rid) < Place(EndRid)
    BY <1>1, <2>2, EndRidFacts, EndIsCount DEF Rid, ErId
  <2>4. Before(rid, EndRid)
    BY <2>2, <2>3, BeforeIsSmallerPlace
  <2>5. n \div R \in 0..(size - 1)
    BY <1>1, <2>1, <2>4, EndRidFacts DEF Before, ErId, Sid
  <2>6. disk[n \div R] \in Page
    BY <2>5 DEF IInv, TypeOK
  <2>7. n + 1 \in 1..Count /\ (n + 1) - 1 = n
    BY <1>1
  <2>8. Log[n + 1] = disk[n \div R].slot[n % R]
    BY <2>7 DEF Log, R
  <2> QED
    BY <2>1, <2>5, <2>6, <2>8 DEF Page
<1>3. \A i \in 1..Count : Log[i] \in Record
  <2> SUFFICES ASSUME NEW i \in 1..Count PROVE Log[i] \in Record
    OBVIOUS
  <2>1. i - 1 \in 0..(Count - 1) /\ (i - 1) + 1 = i
    BY <1>1
  <2> QED
    BY <1>2, <2>1
<1>4. Log \in [1..Count -> Record]
  BY <1>3 DEF Log
<1> QED
  BY <1>1, <1>2, <1>4, EndIsCount DEF LogIsFile

\* What read returns is the record at the place of its rid, and it refuses no
\* place before the end.
LEMMA ReadIsGet ==
  ASSUME IInv, NEW rid \in RecordId
  PROVE  /\ Valid(rid) => /\ Place(rid) \in 0..(AbsEnd - 1)
                          /\ Log[Place(rid) + 1] = disk[rid.pid].slot[rid.sid]
         /\ ~Valid(rid) => Place(rid) \notin 0..(AbsEnd - 1)
<1>1. ASSUME rid.pid \in Nat, rid.sid \in Sid, obj.mode # "none"
      PROVE  /\ Valid(rid) <=> Place(rid) < AbsEnd
             /\ Place(rid) = rid.pid * R + rid.sid /\ Place(rid) \in Nat
             /\ AbsEnd = Count /\ Count \in Nat
  <2>1. obj.erid = EndRid /\ EndRid \in Rid /\ rid \in Rid
    BY <1>1, EndRidFacts DEF IInv, EndIsKept, ErId, Rid, RecordId
  <2>2. Valid(rid) <=> Before(rid, EndRid)
    BY <1>1, <2>1 DEF Valid
  <2>3. AbsEnd = Count /\ Count \in Nat /\ Place(EndRid) = Count
    BY <1>1, <2>1, EndIsCount DEF AbsEnd
  <2>4. Place(rid) = rid.pid * R + rid.sid
    BY <1>1 DEF Place, R
  <2> QED
    BY <1>1, <2>1, <2>2, <2>3, <2>4, BeforeIsSmallerPlace, PartsOfPlace
<1>2. CASE Valid(rid)
  <2>1. rid.pid \in Nat /\ rid.sid \in Sid /\ obj.mode # "none"
    BY <1>2, ValidFacts
  <2>2. Place(rid) \in 0..(AbsEnd - 1) /\ Place(rid) \in 0..(Count - 1)
    BY <1>1, <1>2, <2>1
  <2>3. Place(rid) \div R = rid.pid /\ Place(rid) % R = rid.sid
    BY <1>1, <2>1, PartsOfPlace
  <2> QED
    BY <1>2, <2>2, <2>3, LogFacts DEF LogIsFile
<1>3. CASE ~Valid(rid)
  <2>1. CASE obj.mode = "none"
    <3>1. AbsEnd = -1 /\ 0..(-1 - 1) = {}
      BY <2>1 DEF AbsEnd
    <3> QED
      BY <1>3, <3>1
  <2>2. CASE ~(rid.pid \in Nat /\ rid.sid \in Sid)
    <3>1. Place(rid) = -1
      BY <2>2 DEF Place, RecordId
    <3>2. Place(rid) \notin 0..(AbsEnd - 1)
      BY <3>1
    <3> QED
      BY <1>3, <3>2
  <2>3. CASE rid.pid \in Nat /\ rid.sid \in Sid /\ obj.mode # "none"
    BY <1>1, <1>3, <2>3
  <2> QED
    BY <1>3, <2>1, <2>2, <2>3
<1> QED
  BY <1>2, <1>3

\* append adds the record, cut to size, at the end of the log.
LEMMA AppendIsAdd ==
  ASSUME IInv, NEW r \in Record, AppendRecord(r)
  PROVE  /\ Log' = Append(Log, Abstract!Kept(r))
         /\ AbsEnd = Len(Log) /\ AbsEnd' = AbsEnd + 1
         /\ Place(obj.erid) = Len(Log)
<1> DEFINE rid == obj.erid  page == Filled(AppendTo(rid), rid.sid, r)
<1>1. /\ rid = EndRid /\ rid \in ErId /\ rid.pid \in Nat /\ rid.sid \in Sid
      /\ size' = rid.pid + 1
      /\ disk' = [p \in 0..(size' - 1) |-> IF p = rid.pid THEN page ELSE disk[p]]
      /\ obj' = [mode |-> "w", erid |-> NextRid(rid)]
  BY AppendFacts
<1>2. /\ page.slot[rid.sid] = Abstract!Kept(r)
      /\ \A s \in Sid \ {rid.sid} : page.slot[s] = AppendTo(rid).slot[s]
  BY <1>1, FilledFacts
<1>3. LogIsFile /\ obj.mode = "w"
  BY LogFacts DEF AppendRecord
<1>4. IInv' /\ LogIsFile'
  <2>1. IInv'
    BY AppendKeeps
  <2>2. IInv' => LogIsFile'
    BY LogFacts, PTL
  <2> QED
    BY <2>1, <2>2
<1>5. Place(rid) = Count /\ Count \in Nat
  BY <1>1, <1>3 DEF LogIsFile
<1>6. rid \in Rid /\ Place(NextRid(rid)) = Count + 1
  <2>1. rid \in Rid
    BY <1>1 DEF ErId, Rid
  <2> QED
    BY <1>5, <2>1, NextRidIsNextPlace
<1>7. Count' = Count + 1 /\ AbsEnd' = Count + 1
  <2>1. obj'.mode = "w" /\ obj'.erid = NextRid(rid) /\ obj'.erid = (EndRid)'
    BY <1>1, <1>4 DEF IInv, EndIsKept
  <2>2. (Place(EndRid))' = Count'
    BY <1>4 DEF LogIsFile
  <2>3. (Place(EndRid))' = Place(NextRid(rid)) /\ (Place(obj.erid))' = Place(NextRid(rid))
    BY <2>1 DEF Place
  <2> QED
    BY <1>6, <2>1, <2>2, <2>3 DEF AbsEnd
<1>8. AbsEnd = Count /\ Len(Log) = Count
  BY <1>3, <1>5 DEF AbsEnd, LogIsFile
<1> HIDE DEF page, rid
<1>9. Count = rid.pid * R + rid.sid /\ Count \div R = rid.pid /\ Count % R = rid.sid
  <2>1. Place(rid) = rid.pid * R + rid.sid
    BY <1>1 DEF Place, R
  <2> QED
    BY <1>1, <1>5, <2>1, PartsOfPlace
<1>10. Log'[Count + 1] = Abstract!Kept(r)
  <2>1. Count \in 0..(Count' - 1)
    BY <1>5, <1>7
  <2>2. Log'[Count + 1] = disk'[rid.pid].slot[rid.sid]
    BY <1>4, <1>9, <2>1 DEF LogIsFile
  <2> QED
    BY <1>1, <1>2, <2>2
<1>11. ASSUME NEW n \in 0..(Count - 1) PROVE Log'[n + 1] = Log[n + 1]
  <2>1. n \in 0..(Count' - 1)
    BY <1>5, <1>7
  <2>2. /\ n \div R \in 0..(size - 1) /\ n % R \in Sid /\ n \div R \in 0..(size' - 1)
        /\ Log[n + 1] = disk[n \div R].slot[n % R]
        /\ Log'[n + 1] = disk'[n \div R].slot[n % R]
    BY <1>3, <1>4, <2>1 DEF LogIsFile
  <2>3. CASE n \div R # rid.pid
    BY <1>1, <2>2, <2>3
  <2>4. CASE n \div R = rid.pid
    <3>1. rid.sid > 0
      <4>1. rid.sid = 0 => rid.pid = size
        BY <1>1, EndRidFacts
      <4>2. size \in Nat
        BY DEF IInv, TypeOK
      <4> QED
        BY <1>1, <2>2, <2>4, <4>1, <4>2 DEF Sid
    <3>2. AppendTo(rid) = disk[rid.pid]
      BY <3>1 DEF AppendTo
    <3>3. n % R # rid.sid
      <4>1. n \in Nat /\ n # Count /\ n = (n \div R) * R + (n % R)
        BY <1>5, PlaceParts
      <4> QED
        BY <1>9, <2>4, <4>1
    <3>4. disk'[n \div R] = page
      BY <1>1, <2>2, <2>4
    <3> QED
      BY <1>2, <2>2, <2>4, <3>2, <3>3, <3>4
  <2> QED
    BY <2>3, <2>4
<1>12. ASSUME NEW i \in 1..(Count + 1)
       PROVE  Log'[i] = Append(Log, Abstract!Kept(r))[i]
  <2>1. CASE i = Count + 1
    BY <1>3, <1>5, <1>8, <1>10, <2>1 DEF LogIsFile
  <2>2. CASE i # Count + 1
    <3>1. i - 1 \in 0..(Count - 1) /\ (i - 1) + 1 = i /\ i \in 1..Count
      BY <1>5, <2>2
    <3>2. Log'[i] = Log[i]
      BY <1>11, <3>1
    <3> QED
      BY <1>3, <1>8, <3>1, <3>2 DEF LogIsFile
  <2> QED
    BY <2>1, <2>2
<1>13. Log' \in Seq(Record) /\ Len(Log') = Count + 1
  BY <1>4, <1>7 DEF LogIsFile
<1>14. Append(Log, Abstract!Kept(r)) \in Seq(Record) /\ Len(Append(Log, Abstract!Kept(r))) = Count + 1
  <2>1. Abstract!Kept(r) \in Record
    BY DEF Abstract!Kept, Record, Value
  <2> QED
    BY <1>3, <1>8, <2>1 DEF LogIsFile
<1>15. Log' = Append(Log, Abstract!Kept(r))
  BY <1>5, <1>12, <1>13, <1>14
<1> QED
  BY <1>5, <1>7, <1>8, <1>15 DEF rid

-----------------------------------------------------------------------------
(* Refinement.                                                             *)

LEMMA LogInit == Init => Abstract!Init
<1> SUFFICES ASSUME Init PROVE Abstract!Init
  OBVIOUS
<1>1. Log = <<>>
  BY DEF Init, Log, Count
<1>2. obj.mode = "none" /\ out.call = "none"
  BY DEF Init, Closed, Plain, Reply
<1> QED
  BY <1>1, <1>2 DEF Abstract!Init

LEMMA SameLog == UNCHANGED <<disk, size>> => Log' = Log
BY DEF Log, Count

LEMMA LogStep == IInv /\ [Next]_vars => [Abstract!Next]_(Abstract!vars)
<1> SUFFICES ASSUME IInv, [Next]_vars
             PROVE  Abstract!Next \/ UNCHANGED <<Log, AbsEnd, AbsOut>>
  BY DEF Abstract!vars, AbsEnd, AbsOut
<1>1. LogIsFile
  BY LogFacts
<1>2. ASSUME NEW mode \in {"r", "w"}, Open(mode) PROVE Abstract!Open
  <2>1. obj'.mode # "none" /\ obj'.erid = EndRid /\ obj.mode = "none"
    BY <1>2 DEF Open
  <2>2. AbsEnd = -1 /\ AbsEnd' = Len(Log)
    BY <1>1, <2>1 DEF AbsEnd, LogIsFile, Place
  <2>3. Log' = Log /\ out'.call = "open" /\ out'.rc = "OK"
    BY <1>2, SameLog DEF Open, Plain, Reply
  <2> QED
    BY <2>2, <2>3 DEF Abstract!Open, Abstract!Answers, AbsEnd
<1>3. CASE OpenFails
  <2>1. Log' = Log /\ AbsEnd' = AbsEnd
    BY <1>3, SameLog DEF OpenFails, AbsEnd, Place
  <2>2. out'.rc \notin {"OK", "RC_INVALID_RID"}
    BY <1>3 DEF OpenFails, Plain, Reply
  <2> QED
    BY <2>1, <2>2 DEF Abstract!Next, Abstract!Refuse, AbsEnd
<1>4. CASE Close
  <2>1. Log' = Log /\ AbsEnd' = -1
    BY <1>4, SameLog DEF Close, AbsEnd, Closed
  <2>2. out'.call \in {"close", "none"} /\ out'.rc = "OK"
    BY <1>4 DEF Close, Plain, Reply
  <2> QED
    BY <2>1, <2>2 DEF Abstract!Next, Abstract!Close, AbsEnd
<1>5. ASSUME NEW rid \in RecordId, Read(rid) PROVE Abstract!Next
  <2>1. Valid(rid) /\ out' = Reply("read", "OK", rid, disk[rid.pid].slot[rid.sid])
    BY <1>5 DEF Read
  <2>2. Place(rid) \in 0..(AbsEnd - 1) /\ Log[Place(rid) + 1] = disk[rid.pid].slot[rid.sid]
    BY <2>1, ReadIsGet
  <2>3. Log' = Log /\ AbsEnd' = AbsEnd
    BY <1>5, SameLog DEF Read, AbsEnd, Place
  <2>4. AbsOut' = [call |-> "read", rc |-> "OK", place |-> Place(rid), record |-> Log[Place(rid) + 1]]
    BY <2>1, <2>2 DEF AbsOut, Reply, Place
  <2>5. AbsEnd \in Int /\ Place(rid) < AbsEnd
    <3>1. AbsEnd = Count
      BY <1>1, <2>1, ValidFacts DEF AbsEnd, LogIsFile
    <3> QED
      BY <1>1, <2>2, <3>1 DEF LogIsFile
  <2>6. Abstract!Get(Place(rid))
    BY <2>3, <2>4, <2>5 DEF Abstract!Get, Abstract!Answers, AbsEnd, AbsOut
  <2> QED
    BY <2>2, <2>6 DEF Abstract!Next, AbsEnd
<1>6. ASSUME NEW rid \in RecordId, ReadFails(rid) PROVE Abstract!Next
  <2>1. Log' = Log /\ AbsEnd' \in {AbsEnd, -1}
    BY <1>6, SameLog DEF ReadFails, AbsEnd, Place, Closed
  <2>2. out'.rc \in {"RC_INVALID_RID", "RC_FILE_READ_FAILED"} /\ out'.call = "read" /\ out'.rid = rid
    BY <1>6 DEF ReadFails, Reply
  <2>3. out'.rc = "RC_INVALID_RID" => ~Valid(rid)
    BY <1>6 DEF ReadFails, Reply
  <2>4. out'.rc = "RC_INVALID_RID" => Place(rid) \notin 0..(AbsEnd - 1)
    BY <2>3, ReadIsGet
  <2>5. AbsOut' = [call |-> "read", rc |-> out'.rc, place |-> Place(rid), record |-> out'.record]
    BY <2>2 DEF AbsOut, Place
  <2>6. Abstract!Refuse
    BY <2>1, <2>2, <2>4, <2>5 DEF Abstract!Refuse, AbsEnd, AbsOut
  <2> QED
    BY <2>6 DEF Abstract!Next
<1>7. ASSUME NEW r \in Record, AppendRecord(r) PROVE Abstract!Next
  <2>1. /\ Log' = Append(Log, Abstract!Kept(r))
        /\ AbsEnd = Len(Log) /\ AbsEnd' = AbsEnd + 1
        /\ Place(obj.erid) = Len(Log)
    BY <1>7, AppendIsAdd
  <2>2. out' = Reply("append", "OK", obj.erid, r)
    BY <1>7 DEF AppendRecord
  <2>3. AbsOut' = [call |-> "append", rc |-> "OK", place |-> Len(Log), record |-> r]
    BY <2>1, <2>2 DEF AbsOut, Reply, Place
  <2>4. Abstract!Add(r)
    BY <2>1, <2>3 DEF Abstract!Add, Abstract!Answers, AbsEnd, AbsOut
  <2> QED
    BY <2>4 DEF Abstract!Next
<1>8. CASE AppendFails
  <2>1. Log' = Log /\ AbsEnd' \in {AbsEnd, -1}
    BY <1>8, SameLog DEF AppendFails, AbsEnd, Place, Closed
  <2>2. out'.rc \notin {"OK", "RC_INVALID_RID"}
    BY <1>8 DEF AppendFails, Plain, Reply
  <2> QED
    BY <2>1, <2>2 DEF Abstract!Next, Abstract!Refuse, AbsEnd
<1>9. CASE UNCHANGED vars
  BY <1>9, SameLog DEF vars, AbsEnd, AbsOut, Place
<1> QED
  BY <1>2, <1>3, <1>4, <1>5, <1>6, <1>7, <1>8, <1>9 DEF Next, Abstract!Next

\* A RecordFile is a log: whatever fails and whenever the program ends, the n-th
\* append is the n-th record of the file, its rid reads it back, and no rid of a
\* record is refused.
THEOREM ImplementsRecordLog == Spec => IsRecordLog
<1>1. IInv /\ [Next]_vars => [Abstract!Next]_(Abstract!vars)
  BY LogStep
<1> QED
  BY <1>1, LogInit, Invariance, PTL DEF IsRecordLog, Spec, Abstract!Spec

=============================================================================
