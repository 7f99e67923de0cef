------------------------------ MODULE RecordLog ------------------------------
(***************************************************************************)
(* What RecordFile promises (RecordFile.h): a log.  append is the only way *)
(* to write and answers the place of the record; a place once answered     *)
(* reads back that record for ever after, and no other place can be read.  *)
(* No pages, no slots, no counts.                                          *)
(***************************************************************************)
EXTENDS Integers, Sequences

CONSTANT Record
VARIABLES
  log, \* the records appended
  end, \* the number of records the object knows of, -1 if it is not open
  out  \* what the last call returned

vars == <<log, end, out>>

\* A value longer than MAX_VALUE_LENGTH - 1 characters loses its tail.
Kept(r) == [r EXCEPT !.value.long = FALSE]

Init == log = <<>> /\ end = -1 /\ out.call = "none"

Answers(call) == out'.call = call /\ out'.rc = "OK"

Open ==
  /\ end = -1 /\ end' = Len(log)
  /\ Answers("open")
  /\ UNCHANGED log

\* The caller closes the object or drops it; every append is on disk by then.
Close ==
  /\ end' = -1
  /\ out'.call \in {"close", "none"} /\ out'.rc = "OK"
  /\ UNCHANGED log

Add(r) ==
  /\ end = Len(log)
  /\ log' = Append(log, Kept(r))
  /\ end' = end + 1
  /\ Answers("append") /\ out'.place = Len(log) /\ out'.record = r

Get(i) ==
  /\ i < end
  /\ Answers("read") /\ out'.place = i /\ out'.record = log[i + 1]
  /\ UNCHANGED <<log, end>>

\* A failed call leaves the log as it is.  No place of a record is refused.
Refuse ==
  /\ out'.rc # "OK"
  /\ out'.rc = "RC_INVALID_RID" => out'.call = "read" /\ out'.place \notin 0..(end - 1)
  /\ end' \in {end, -1}
  /\ UNCHANGED log

Next ==
  \/ Open \/ Close \/ Refuse
  \/ \E r \in Record : Add(r)
  \/ \E i \in 0..(end - 1) : Get(i)

Spec == Init /\ [][Next]_vars

=============================================================================
