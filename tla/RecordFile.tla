----------------------------- MODULE RecordFile -----------------------------
(***************************************************************************)
(* RecordFile (RecordFile.h, RecordFile.cc): the records of a table, in    *)
(* the slots of the pages of one file.  Where the next record goes, erid,  *)
(* lives in the object only; open finds it again from the length of the    *)
(* file and the record count of the last page.                             *)
(*                                                                         *)
(* The file is a store of pages as PageStore.tla promises it, with reads   *)
(* and writes that fail.  One object has the file open at a time, as in    *)
(* SqlEngine::load and SqlEngine::select.                                  *)
(***************************************************************************)
EXTENDS Integers

CONSTANTS
  RECORDS_PER_PAGE, \* slots of a page, 9 for a page of 1024
  Key,              \* keys, integers
  Text,             \* what a value has in its first MAX_VALUE_LENGTH - 1 characters
  Empty,            \* the empty string
  MaxPages          \* bound: pages of the file

ASSUME SlotsAssumption == RECORDS_PER_PAGE \in Nat \ {0}
ASSUME DataAssumption  == Key \subseteq Int /\ 0 \in Key /\ Empty \in Text
ASSUME PagesAssumption == MaxPages \in Nat

VARIABLES
  disk,    \* the pages of the file, by pid
  size,    \* endPid of the file
  present, \* whether the file exists
  obj,     \* the object: how it is open, and erid
  out      \* what the last call returned

vars == <<disk, size, present, obj, out>>

-----------------------------------------------------------------------------
(* Record ids and pages.                                                   *)
Sid == 0..(RECORDS_PER_PAGE - 1)
First == [pid |-> 0, sid |-> 0]
RecordId == [pid : -1..MaxPages, sid : -1..RECORDS_PER_PAGE]

\* operator++ does not move on to the next page.
MutNextRid(rid) == [rid EXCEPT !.sid = @ + 1]

\* operator++
NextRid(rid) ==
  IF rid.sid + 1 >= RECORDS_PER_PAGE THEN [pid |-> rid.pid + 1, sid |-> 0]
  ELSE [rid EXCEPT !.sid = @ + 1]

\* operator<
Before(r1, r2) == r1.pid < r2.pid \/ (r1.pid = r2.pid /\ r1.sid < r2.sid)

\* A value is its first characters and whether there is more of it.
Value  == [text : Text, long : BOOLEAN]
Record == [key : Key, value : Value]
Page   == [count : 0..RECORDS_PER_PAGE, slot : [Sid -> Record]]

ZeroRecord == [key |-> 0, value |-> [text |-> Empty, long |-> FALSE]]
ZeroPage   == [count |-> 0, slot |-> [s \in Sid |-> ZeroRecord]]

\* writeSlot truncates a value that does not fit.
WriteSlot(page, s, r) == [page EXCEPT !.slot[s] = [r EXCEPT !.value.long = FALSE]]
SetRecordCount(page, n) == [page EXCEPT !.count = n]

\* A call's return: the rid and the record given, stored or read.
Reply(call, rc, rid, r) == [call |-> call, rc |-> rc, rid |-> rid, record |-> r]
Plain(call, rc) == Reply(call, rc, First, ZeroRecord)

Closed == [mode |-> "none", erid |-> First]

Init ==
  /\ disk = <<>> /\ size = 0
  /\ present = FALSE
  /\ obj = Closed
  /\ out = Plain("none", "OK")

-----------------------------------------------------------------------------
(* Opening and closing.                                                    *)

\* The end as open finds it.
EndRid ==
  IF size = 0 THEN First
  ELSE IF disk[size - 1].count >= RECORDS_PER_PAGE THEN [pid |-> size, sid |-> 0]
  ELSE [pid |-> size - 1, sid |-> disk[size - 1].count]

Open(mode) ==
  /\ obj.mode = "none"
  /\ mode = "w" \/ present
  /\ present' = TRUE
  /\ obj' = [mode |-> mode, erid |-> EndRid]
  /\ out' = Plain("open", "OK")
  /\ UNCHANGED <<disk, size>>

\* PageFile::open refuses, or the last page cannot be read: then open closes the
\* file again.
OpenFails ==
  /\ \/ out' = Plain("open", "RC_FILE_OPEN_FAILED")
     \/ obj = Closed /\ size > 0 /\ out' = Plain("open", "RC_FILE_READ_FAILED")
  /\ UNCHANGED <<disk, size, present, obj>>

\* close, or the object goes away without: an early return of load, a select
\* that reads through an index and fails, or the end of the program at any moment.
Close ==
  /\ obj # Closed
  /\ obj' = Closed
  /\ out' \in {Plain("close", "OK"), Plain("none", "OK")}
  /\ UNCHANGED <<disk, size, present>>

-----------------------------------------------------------------------------
(* Reading and appending.                                                  *)

Valid(rid) == rid.pid >= 0 /\ rid.sid \in Sid /\ Before(rid, obj.erid)

Read(rid) ==
  /\ Valid(rid)
  /\ out' = Reply("read", "OK", rid, disk[rid.pid].slot[rid.sid])
  /\ UNCHANGED <<disk, size, present, obj>>

\* After a page that cannot be read the caller gives up (SqlEngine.cc:132, :255).
ReadFails(rid) ==
  /\ \/ ~Valid(rid) /\ out' = Reply("read", "RC_INVALID_RID", rid, ZeroRecord) /\ UNCHANGED obj
     \/ /\ Valid(rid)
        /\ out' = Reply("read", "RC_FILE_READ_FAILED", rid, ZeroRecord)
        /\ obj' = Closed
  /\ UNCHANGED <<disk, size, present>>

WritePage(pid, page) ==
  /\ disk' = [p \in DOMAIN disk \cup {pid} |-> IF p = pid THEN page ELSE disk[p]]
  /\ size' = IF pid >= size THEN pid + 1 ELSE size

\* The count is not raised.
MutFilled(page, s, r) == SetRecordCount(WriteSlot(page, s, r), s)
\* A page with the record in its next slot.
Filled(page, s, r) == SetRecordCount(WriteSlot(page, s, r), s + 1)

\* The page is not read before it is written.
MutAppendTo(rid) == ZeroPage
\* The page that append starts from.
AppendTo(rid) == IF rid.sid > 0 THEN disk[rid.pid] ELSE ZeroPage

AppendRecord(r) ==
  LET rid == obj.erid IN
  /\ obj.mode = "w"
  /\ rid.pid < MaxPages
  /\ WritePage(rid.pid, Filled(AppendTo(rid), rid.sid, r))
  /\ out' = Reply("append", "OK", rid, r)
  /\ obj' = [obj EXCEPT !.erid = NextRid(@)]
  /\ UNCHANGED present

\* The page cannot be read, and load returns without close, or written: always so
\* in a file open for reading, and the object stays as it was.
AppendFails ==
  /\ obj.mode # "none"
  /\ \/ obj.erid.sid > 0 /\ out' = Plain("append", "RC_FILE_READ_FAILED") /\ obj' = Closed
     \/ out' = Plain("append", "RC_FILE_WRITE_FAILED") /\ UNCHANGED obj
  /\ UNCHANGED <<disk, size, present>>

Next ==
  \/ Open("r") \/ Open("w") \/ OpenFails \/ Close
  \/ \E rid \in RecordId : Read(rid) \/ ReadFails(rid)
  \/ \E r \in Record : AppendRecord(r)
  \/ AppendFails

Spec == Init /\ [][Next]_vars

-----------------------------------------------------------------------------
TypeOK ==
  /\ size \in 0..MaxPages
  /\ disk \in [0..(size - 1) -> Page]
  /\ present \in BOOLEAN
  /\ obj \in [mode : {"none", "r", "w"}, erid : [pid : 0..MaxPages, sid : Sid]]
  /\ out.rid \in RecordId /\ out.record \in Record

\* The count of the last page is all that open knows of the end: at every moment,
\* and so after a program that ended at any moment, the pages before the last
\* are full, the last holds a record, and an open object appends where the next
\* open would (RecordFile.cc:130-155, :192-216).
EndIsKept ==
  /\ \A p \in 0..(size - 2) : disk[p].count = RECORDS_PER_PAGE
  /\ size > 0 => disk[size - 1].count > 0
  /\ obj.mode # "none" => obj.erid = EndRid

-----------------------------------------------------------------------------
(* The file read as a log: the n-th record is in slot n % RECORDS_PER_PAGE *)
(* of page n \div RECORDS_PER_PAGE.                                        *)
Place(rid) ==
  IF rid.pid >= 0 /\ rid.sid \in Sid THEN rid.pid * RECORDS_PER_PAGE + rid.sid ELSE -1

Count == IF size = 0 THEN 0 ELSE (size - 1) * RECORDS_PER_PAGE + disk[size - 1].count
Log == [n \in 1..Count |->
          disk[(n - 1) \div RECORDS_PER_PAGE].slot[(n - 1) % RECORDS_PER_PAGE]]

\* The n-th append is the n-th record, through any number of sessions, failed
\* calls and early ends; what append answered reads back; nothing else does.
Abstract == INSTANCE RecordLog WITH
  log <- Log,
  end <- IF obj.mode = "none" THEN -1 ELSE Place(obj.erid),
  out <- [call |-> out.call, rc |-> out.rc, place |-> Place(out.rid), record |-> out.record]
IsRecordLog == Abstract!Spec

=============================================================================
