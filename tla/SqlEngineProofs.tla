--------------------------- MODULE SqlEngineProofs ---------------------------
(***************************************************************************)
(* LOAD and SELECT, for every load file, every query, every width of int   *)
(* and every capacity of the nodes.                                        *)
(*                                                                         *)
(* What a command does to the index are steps of BTreeIndex, so all that   *)
(* is proved of BTreeIndex holds of the index of an engine.  On it rest    *)
(* the facts that relate index and table, and what a select on it prints.  *)
(***************************************************************************)
EXTENDS SqlEngine, BTreeOrderProofs

-----------------------------------------------------------------------------
(* The command: its fields, whatever they hold, and its places.            *)
LoadShape(c) ==
  [call : {"load"}, pc : {"table", "index", "line", "insert", "unsaved", "done"},
   rc : {c.rc}, held : {c.held}, lines : Seq(LoadLine), index : BOOLEAN]

SelectShape(c) ==
  [call : {"select"}, q : Queries, start : Int, end : Int, ne : {c.ne}, rc : {c.rc},
   held : {c.held}, path : {"none", "scan", "index"}, at : Nat, entry : {c.entry},
   status : {c.status}, printed : {c.printed},
   pc : {"index", "table", "scan", "locate", "seek", "first", "again", "next", "row", "end",
         "done"}]

Commands ==
  /\ cmd.call \in {"none", "load", "select"}
  /\ cmd.call = "none" => cmd = NoCommand
  /\ cmd.call = "load" => cmd \in LoadShape(cmd)
  /\ cmd.call = "select" => cmd \in SelectShape(cmd) /\ cmd.start >= IntMin /\ cmd.end <= IntMax

RowType == [key : Key, value : Value]
EInv == IInv /\ Commands /\ table \in Seq(RowType)

-----------------------------------------------------------------------------
(* The range of keys that conditions give.                                 *)

LEMMA Ints == IntMin \in Int /\ IntMax \in Int /\ IntMin <= 0 /\ 0 <= IntMax /\ Key \in SUBSET Int
BY KeyAssumption, IntAssumption

\* A set of ints has a largest and a smallest element.
LEMMA Extremes ==
  ASSUME NEW S \in SUBSET Key, S # {}
  PROVE  Max(S) \in S /\ Min(S) \in S /\ \A y \in S : y <= Max(S) /\ Min(S) <= y
<1> USE Ints, IntAssumption
<1>0. \A x \in S : x \in Int /\ IntMin <= x /\ x <= IntMax
  OBVIOUS
<1>1. \E x \in S : \A y \in S : y <= x
  <2> DEFINE T == {IntMax - x : x \in S}
  <2>0. \A x \in S : IntMax - x \in Nat
    BY <1>0
  <2>1. T \in SUBSET Nat /\ T # {}
    BY <2>0, Zenon
  <2>2. PICK t \in T : \A u \in T : t <= u
    BY <2>1, MinExists
  <2>3. PICK x \in S : t = IntMax - x
    BY <2>2
  <2>4. \A y \in S : t <= IntMax - y
    BY <2>2
  <2>5. \A y \in S : y <= x
    BY <1>0, <2>3, <2>4
  <2> QED BY <2>5
<1>2. \E x \in S : \A y \in S : x <= y
  <2> DEFINE T == {x - IntMin : x \in S}
  <2>0. \A x \in S : x - IntMin \in Nat
    BY <1>0
  <2>1. T \in SUBSET Nat /\ T # {}
    BY <2>0, Zenon
  <2>2. PICK t \in T : \A u \in T : t <= u
    BY <2>1, MinExists
  <2>3. PICK x \in S : t = x - IntMin
    BY <2>2
  <2>4. \A y \in S : t <= y - IntMin
    BY <2>2
  <2>5. \A y \in S : x <= y
    BY <1>0, <2>3, <2>4
  <2> QED BY <2>5
<1>3. Max(S) \in S /\ \A y \in S : y <= Max(S)
  BY <1>1, Zenon DEF Max
<1>4. Min(S) \in S /\ \A y \in S : Min(S) <= y
  BY <1>2, Zenon DEF Min
<1> QED BY <1>3, <1>4

LEMMA TheLarger ==
  ASSUME NEW a \in Int, NEW b \in Int
  PROVE  /\ Max({a, b}) \in {a, b} /\ Max({a, b}) >= a /\ Max({a, b}) >= b
         /\ Min({a, b}) \in {a, b} /\ Min({a, b}) <= a /\ Min({a, b}) <= b
<1>1. \E x \in {a, b} : \A y \in {a, b} : y <= x
  OBVIOUS
<1>2. \E x \in {a, b} : \A y \in {a, b} : x <= y
  OBVIOUS
<1>3. Max({a, b}) \in {a, b} /\ \A y \in {a, b} : y <= Max({a, b})
  BY <1>1, Zenon DEF Max
<1>4. Min({a, b}) \in {a, b} /\ \A y \in {a, b} : Min({a, b}) <= y
  BY <1>2, Zenon DEF Min
<1> QED BY <1>3, <1>4

LEMMA RangeType ==
  ASSUME NEW q \in Queries
  PROVE  StartKey(q.conds) \in Key /\ EndKey(q.conds) \in Key /\ StartKey(q.conds) >= 0
<1> USE Ints, IntAssumption
<1>1. \A comp : Values(q.conds, comp) \in SUBSET Key
  BY QueryAssumption DEF Values, KeyConds
<1>2. \A v \in Key : Wrap(v + 1) \in Key /\ Wrap(v - 1) \in Key
  BY DEF Wrap
<1> DEFINE S == {0} \cup Values(q.conds, "EQ") \cup Values(q.conds, "GE")
                  \cup {Wrap(v + 1) : v \in Values(q.conds, "GT")}
           E == {IntMax} \cup Values(q.conds, "EQ") \cup Values(q.conds, "LE")
                  \cup {Wrap(v - 1) : v \in Values(q.conds, "LT")}
<1>3. S \in SUBSET Key /\ S # {} /\ 0 \in S
  BY <1>1, <1>2
<1>4. E \in SUBSET Key /\ E # {}
  BY <1>1, <1>2
<1> HIDE DEF S, E
<1>5. Max(S) \in Key /\ Min(E) \in Key /\ 0 <= Max(S)
  BY <1>3, <1>4, Extremes
<1> QED BY <1>5 DEF StartKey, EndKey, S, E

-----------------------------------------------------------------------------
(* A command makes the index take steps of its own, and goes from place to *)
(* place.                                                                  *)

Stepped == [Next]_vars /\ Commands' /\ (table \in Seq(RowType))'

LEMMA HeaderTypes ==
  ASSUME IInv, size > 0
  PROVE  disk[0].min \in Key /\ disk[0].max \in Key
<1>1. Bound \subseteq Key
  BY Ints, IntAssumption DEF Bound
<1> QED BY <1>1 DEF IInv, Levelled, Store, HeaderType

LEMMA CallsStep ==
  ASSUME EInv,
         (\E file \in LoadFiles, index \in BOOLEAN : LoadCall(file, index))
           \/ (\E q \in Queries : SelectCall(q))
  PROVE  Stepped
<1>1. CASE \E file \in LoadFiles, index \in BOOLEAN : LoadCall(file, index)
  <2>1. PICK file \in LoadFiles, index \in BOOLEAN : LoadCall(file, index)
    BY <1>1
  <2>2. cmd' = [call |-> "load", pc |-> "table", rc |-> "none", held |-> {},
                lines |-> file, index |-> index]
    BY <2>1 DEF LoadCall, Call
  <2>3. file \in Seq(LoadLine)
    BY LineAssumption
  <2>4. Commands'
    BY <2>2, <2>3 DEF Commands, LoadShape
  <2> QED BY <2>1, <2>4 DEF LoadCall, EInv, Stepped
<1>2. CASE \E q \in Queries : SelectCall(q)
  <2>1. PICK q \in Queries : SelectCall(q)
    BY <1>2
  <2> DEFINE start == StartKey(q.conds)
             end   == EndKey(q.conds)
             ne    == KeyConds(q.conds, "NE")
             pc    == IF Conflict(q.conds) THEN "done"
                      ELSE IF start = 0 /\ end = IntMax THEN "table" ELSE "index"
  <2>2. start \in Key /\ end \in Key
    BY RangeType
  <2>3. cmd' = [call |-> "select", q |-> q, start |-> start, end |-> end, ne |-> ne,
                rc |-> "none", held |-> {}, path |-> "none", at |-> 0, entry |-> NoEntry,
                status |-> "OK", printed |-> <<>>, pc |-> pc]
    BY <2>1 DEF SelectCall, Call
  <2>4. pc \in {"done", "table", "index"}
    OBVIOUS
  <2> HIDE DEF start, end, ne, pc
  <2>5. start \in Int /\ end \in Int /\ start >= IntMin /\ end <= IntMax
    BY <2>2, Ints, IntAssumption
  <2>6. Commands'
    BY <2>3, <2>4, <2>5 DEF Commands, SelectShape
  <2> QED BY <2>1, <2>6 DEF SelectCall, EInv, Stepped
<1> QED BY <1>1, <1>2

LEMMA LoadIsLoad ==
  ASSUME EInv, LoadStep
  PROVE  cmd.call = "load" /\ cmd \in LoadShape(cmd)
<1>1. cmd.pc # "ready"
  BY DEF LoadStep, LoadOpensTable, LoadOpensIndex, LoadCannotOpen, LoadAppends, LoadInserts,
         LoadGivesUp, LoadEnds, LoadEndsUnsaved
<1>2. cmd.call = "load" \/ cmd.pc \in {"line", "insert", "unsaved"}
  BY DEF LoadStep, LoadOpensTable, LoadOpensIndex, LoadCannotOpen, LoadAppends, LoadInserts,
         LoadGivesUp, LoadEnds, LoadEndsUnsaved
<1>3. cmd.call = "select" => cmd.pc \notin {"line", "insert", "unsaved"}
  BY DEF EInv, Commands, SelectShape
<1> QED BY <1>1, <1>2, <1>3 DEF EInv, Commands, NoCommand

LEMMA LoadStepsStep ==
  ASSUME EInv, LoadStep
  PROVE  Stepped
<1>1. cmd.call = "load" /\ cmd \in LoadShape(cmd)
  BY LoadIsLoad
<1>2. cmd.lines \in Seq(LoadLine) /\ cmd.index \in BOOLEAN
  BY <1>1 DEF LoadShape
<1>3. cmd' \in LoadShape(cmd') /\ cmd'.call = "load" => Commands'
  BY DEF Commands
<1>7. Commands /\ table \in Seq(RowType)
  BY DEF EInv
<1>8. CASE LoadOpensTable
  <2>1. Commands'
    <3>1. cmd' = [cmd EXCEPT !.pc = IF cmd.index THEN "index" ELSE "line", !.held = @ \cup {"tbl"}]
      BY <1>8 DEF LoadOpensTable, OpensFile
    <3> QED BY <1>1, <1>3, <3>1 DEF LoadShape
  <2> QED BY <1>7, <1>8, <2>1 DEF LoadOpensTable, Stepped
<1>9. CASE LoadOpensIndex
  <2>1. Commands'
    <3>1. cmd' = [cmd EXCEPT !.pc = "line", !.held = @ \cup {"idx"}]
      BY <1>9 DEF LoadOpensIndex, OpensFile
    <3> QED BY <1>1, <1>3, <3>1 DEF LoadShape
  <2> QED BY <1>7, <1>9, <2>1 DEF LoadOpensIndex, Stepped, Next
<1>10. CASE LoadCannotOpen
  <2>1. Commands'
    <3>1. CASE cmd' = [cmd EXCEPT !.pc = "done", !.rc = "RC_FILE_OPEN_FAILED", !.held = @ \ {}]
      BY <1>1, <1>3, <3>1 DEF LoadShape
    <3>2. CASE cmd' = [cmd EXCEPT !.pc = "done", !.rc = "RC_FILE_READ_FAILED", !.held = @ \ {}]
      BY <1>1, <1>3, <3>2 DEF LoadShape
    <3>3. CASE cmd' = [cmd EXCEPT !.pc = "done", !.rc = out'.rc, !.held = @ \cup {"idx"}]
      BY <1>1, <1>3, <3>3 DEF LoadShape
    <3> QED BY <1>10, <3>1, <3>2, <3>3 DEF LoadCannotOpen, Returns
  <2> QED BY <1>7, <1>10, <2>1 DEF LoadCannotOpen, Stepped, Next
<1>11. CASE LoadAppends
  <2> DEFINE line == Head(cmd.lines)
             key  == ParsedKey(line)
             row  == [key |-> key, value |-> line.value]
             e    == [key |-> key, rid |-> PlaceOf(table)]
  <2>1. line \in LoadLine /\ Tail(cmd.lines) \in Seq(LoadLine)
    BY <1>2, <1>11 DEF LoadAppends
  <2>2. key \in Key
    BY <2>1, IntAssumption DEF LoadLine, ParsedKey
  <2>3. line.value \in Value
    BY <1>11, <2>1 DEF LoadAppends, LoadLine, Malformed
  <2>4. e \in Entry
    BY <1>7, <2>2, IntAssumption DEF Entry, PlaceOf
  <2>5. table' = Append(table, row) /\ (cmd.index => InsertCall(e)) /\ (~cmd.index => UNCHANGED vars)
    BY <1>11 DEF LoadAppends
  <2>6. Commands'
    <3>1. cmd' = [cmd EXCEPT !.pc = IF cmd.index THEN "insert" ELSE "line", !.lines = Tail(@)]
      BY <1>11 DEF LoadAppends
    <3> QED BY <1>1, <1>3, <3>1, <2>1 DEF LoadShape
  <2> HIDE DEF key, e
  <2>7. table' \in Seq(RowType)
    BY <1>7, <2>2, <2>3, <2>5 DEF RowType
  <2>8. [Next]_vars
    BY <2>4, <2>5 DEF Next
  <2> QED BY <2>6, <2>7, <2>8 DEF Stepped
<1>12. CASE LoadInserts
  <2>1. Commands'
    <3>1. cmd' = [cmd EXCEPT !.pc = IF op' = Idle THEN "line" ELSE "insert"]
      BY <1>12 DEF LoadInserts, Goto
    <3> QED BY <1>1, <1>3, <3>1 DEF LoadShape
  <2> QED BY <1>7, <1>12, <2>1 DEF LoadInserts, Stepped, Next
<1>13. CASE LoadGivesUp
  <2>1. Commands'
    <3>1. cmd' = [cmd EXCEPT !.pc = "done", !.rc = "RC_FILE_WRITE_FAILED", !.held = @ \ {}]
      BY <1>13 DEF LoadGivesUp, Returns
    <3> QED BY <1>1, <1>3, <3>1 DEF LoadShape
  <2> QED BY <1>7, <1>13, <2>1 DEF LoadGivesUp, Stepped, Next
<1>14. CASE LoadEnds
  <2>1. Commands'
    <3>1. cmd' = [cmd EXCEPT !.pc = "done", !.rc = "OK", !.held = @ \ {"tbl", "idx"}]
      BY <1>14 DEF LoadEnds, Returns
    <3> QED BY <1>1, <1>3, <3>1 DEF LoadShape
  <2> QED BY <1>7, <1>14, <2>1 DEF LoadEnds, Stepped, Next
<1>15. CASE LoadEndsUnsaved
  <2>1. Commands'
    <3>1. CASE cmd' = [cmd EXCEPT !.pc = "unsaved"]
      BY <1>1, <1>3, <3>1 DEF LoadShape
    <3>2. CASE cmd' = [cmd EXCEPT !.pc = "done", !.rc = "OK", !.held = @ \ {"tbl"}]
      BY <1>1, <1>3, <3>2 DEF LoadShape
    <3> QED BY <1>15, <3>1, <3>2 DEF LoadEndsUnsaved, Goto, Returns
  <2> QED BY <1>7, <1>15, <2>1 DEF LoadEndsUnsaved, Stepped, Next
<1> QED BY <1>8, <1>9, <1>10, <1>11, <1>12, <1>13, <1>14, <1>15 DEF LoadStep

LEMMA SelectIsSelect ==
  ASSUME EInv, SelectStep
  PROVE  cmd.call = "select" /\ cmd \in SelectShape(cmd)
         /\ cmd.start >= IntMin /\ cmd.end <= IntMax
<1>1. cmd.pc # "ready"
  BY DEF SelectStep, SelectWithoutIndex, ScanOpens, ScanRow, ScanReadFails, ScanEnds,
         SelectOpensIndex, SelectLocates, SelectReads, SelectSkips, SelectOpensTable,
         SelectRow, SelectReadFails, IndexEnds, InRange
<1>2. cmd.call = "select"
      \/ cmd.pc \in {"scan", "locate", "seek", "first", "again", "next", "row", "end"}
  BY DEF SelectStep, SelectWithoutIndex, ScanOpens, ScanRow, ScanReadFails, ScanEnds,
         SelectOpensIndex, SelectLocates, SelectReads, SelectSkips, SelectOpensTable,
         SelectRow, SelectReadFails, IndexEnds, InRange
<1>3. cmd.call = "load"
      => cmd.pc \notin {"scan", "locate", "seek", "first", "again", "next", "row", "end"}
  BY DEF EInv, Commands, LoadShape
<1> QED BY <1>1, <1>2, <1>3 DEF EInv, Commands, NoCommand

LEMMA SelectStepsStep ==
  ASSUME EInv, SelectStep
  PROVE  Stepped
<1>1. cmd.call = "select" /\ cmd \in SelectShape(cmd)
      /\ cmd.start >= IntMin /\ cmd.end <= IntMax
  BY SelectIsSelect
<1>2. IntMin \in Int /\ IntMax \in Int /\ Key = IntMin..IntMax
  BY Ints, IntAssumption
<1>3. /\ cmd' \in SelectShape(cmd') /\ cmd'.call = "select"
      /\ cmd'.start >= IntMin /\ cmd'.end <= IntMax
      => Commands'
  BY DEF Commands
<1>4. Commands /\ table \in Seq(RowType)
  BY DEF EInv
<1>5. CASE SelectWithoutIndex
  <2>1. Commands'
    <3>1. CASE cmd' = [cmd EXCEPT !.pc = "table"]
      BY <1>1, <1>3, <3>1 DEF SelectShape
    <3>2. CASE cmd' = [cmd EXCEPT !.pc = "table", !.held = @ \cup {"idx"}]
      BY <1>1, <1>3, <3>2 DEF SelectShape
    <3> QED BY <1>5, <3>1, <3>2 DEF SelectWithoutIndex, Goto, OpensFile
  <2> QED BY <1>4, <1>5, <2>1 DEF SelectWithoutIndex, Stepped
<1>6. CASE ScanOpens
  <2>1. Commands'
    <3>1. CASE cmd' = [cmd EXCEPT !.pc = "scan", !.path = "scan", !.held = @ \cup {"tbl"}]
      BY <1>1, <1>3, <3>1 DEF SelectShape
    <3>2. CASE cmd' = [cmd EXCEPT !.pc = "done", !.rc = "RC_FILE_OPEN_FAILED", !.held = @ \ {}]
      BY <1>1, <1>3, <3>2 DEF SelectShape
    <3>3. CASE cmd' = [cmd EXCEPT !.pc = "done", !.rc = "RC_FILE_READ_FAILED", !.held = @ \ {}]
      BY <1>1, <1>3, <3>3 DEF SelectShape
    <3> QED BY <1>6, <3>1, <3>2, <3>3 DEF ScanOpens, Returns, TableCannot
  <2> QED BY <1>4, <1>6, <2>1 DEF ScanOpens, Stepped
<1>7. CASE ScanReadFails
  <2>1. Commands'
    <3>1. cmd' = [cmd EXCEPT !.pc = "done", !.rc = "RC_FILE_READ_FAILED", !.held = @ \ {"tbl"}]
      BY <1>7 DEF ScanReadFails, Returns
    <3> QED BY <1>1, <1>3, <3>1 DEF SelectShape
  <2> QED BY <1>4, <1>7, <2>1 DEF ScanReadFails, Stepped
<1>8. CASE ScanEnds
  <2>1. Commands'
    <3>1. cmd' = [cmd EXCEPT !.pc = "done", !.rc = "OK", !.held = @ \ {"tbl"}]
      BY <1>8 DEF ScanEnds, Returns
    <3> QED BY <1>1, <1>3, <3>1 DEF SelectShape
  <2> QED BY <1>4, <1>8, <2>1 DEF ScanEnds, Stepped
<1>9. CASE SelectOpensTable
  <2>1. Commands'
    <3>1. CASE cmd' = [cmd EXCEPT !.pc = "row", !.held = @ \cup {"tbl"}]
      BY <1>1, <1>3, <3>1 DEF SelectShape
    <3>2. CASE cmd' = [cmd EXCEPT !.pc = "done", !.rc = "RC_FILE_OPEN_FAILED", !.held = @ \ {}]
      BY <1>1, <1>3, <3>2 DEF SelectShape
    <3>3. CASE cmd' = [cmd EXCEPT !.pc = "done", !.rc = "RC_FILE_READ_FAILED", !.held = @ \ {}]
      BY <1>1, <1>3, <3>3 DEF SelectShape
    <3> QED BY <1>9, <3>1, <3>2, <3>3 DEF SelectOpensTable, OpensFile, Returns, TableCannot
  <2> QED BY <1>4, <1>9, <2>1 DEF SelectOpensTable, Stepped, Next
<1>10. CASE SelectReadFails
  <2>1. Commands'
    <3>1. cmd' = [cmd EXCEPT !.pc = "done", !.rc = "RC_FILE_READ_FAILED", !.held = @ \ {"tbl"}]
      BY <1>10 DEF SelectReadFails, Returns
    <3> QED BY <1>1, <1>3, <3>1 DEF SelectShape
  <2> QED BY <1>4, <1>10, <2>1 DEF SelectReadFails, Stepped, Next
<1>11. CASE IndexEnds
  <2>1. Commands'
    <3>1. cmd' = [cmd EXCEPT !.pc = "done", !.rc = "OK", !.held = @ \ {"tbl"}]
      BY <1>11 DEF IndexEnds, Returns
    <3> QED BY <1>1, <1>3, <3>1 DEF SelectShape
  <2> QED BY <1>4, <1>11, <2>1 DEF IndexEnds, Stepped, Next
<1>12. CASE ScanRow
  <2>1. PICK at \in Nat : \E printed : cmd' = [cmd EXCEPT !.at = at, !.printed = printed]
    <3>1. cmd.at + 1 \in Nat
      BY <1>1 DEF SelectShape
    <3> QED BY <1>12, <3>1 DEF ScanRow
  <2>2. Commands'
    BY <1>1, <1>3, <2>1 DEF SelectShape
  <2> QED BY <1>4, <1>12, <2>2 DEF ScanRow, Stepped
<1>13. CASE SelectSkips
  <2>1. PICK ne : \E pc \in {"next", "end"} : cmd' = [cmd EXCEPT !.ne = ne, !.pc = pc]
    BY <1>13 DEF SelectSkips
  <2>2. Commands'
    BY <1>1, <1>3, <2>1 DEF SelectShape
  <2> QED BY <1>4, <1>13, <2>2 DEF SelectSkips, Stepped
<1>14. CASE SelectRow
  <2>1. PICK pc \in {"next", "end"} :
          \E printed : cmd' = [cmd EXCEPT !.pc = pc, !.printed = printed]
    BY <1>14 DEF SelectRow
  <2>2. Commands'
    BY <1>1, <1>3, <2>1 DEF SelectShape
  <2> QED BY <1>4, <1>14, <2>2 DEF SelectRow, Stepped
<1>15. CASE SelectReads
  <2>1. PICK pc \in {"again", "row"} :
          \E status, entry : cmd' = [cmd EXCEPT !.pc = pc, !.status = status, !.entry = entry]
    BY <1>15 DEF SelectReads
  <2>2. Commands'
    BY <1>1, <1>3, <2>1 DEF SelectShape
  <2> QED BY <1>4, <1>15, <2>2 DEF SelectReads, Stepped, Next
<1>16. CASE SelectOpensIndex
  <2>1. Open("r") /\ obj'.min = disk[0].min /\ obj'.max = disk[0].max
    BY <1>16 DEF SelectOpensIndex, Open
  <2>2. obj'.min \in Int /\ obj'.max \in Int
    BY <2>1, HeaderTypes, Ints DEF EInv, Open
  <2> DEFINE start == Max({cmd.start, obj'.min})
             end   == Min({cmd.end, obj'.max})
  <2>3. cmd.start \in Int /\ cmd.end \in Int
    BY <1>1 DEF SelectShape
  <2>4. start \in Int /\ start >= cmd.start /\ end \in Int /\ end <= cmd.end
    BY <2>2, <2>3, TheLarger
  <2>5. cmd' = [cmd EXCEPT !.pc = "locate", !.path = "index", !.held = {"idx"},
                           !.start = start, !.end = end]
    BY <1>16 DEF SelectOpensIndex
  <2> HIDE DEF start, end
  <2>6. cmd' \in SelectShape(cmd') /\ cmd'.call = "select" /\ cmd'.start = start /\ cmd'.end = end
    BY <1>1, <2>4, <2>5 DEF SelectShape
  <2>7. Commands'
    BY <1>1, <1>2, <1>3, <2>3, <2>4, <2>6
  <2> QED BY <1>4, <1>16, <2>1, <2>7 DEF SelectOpensIndex, Stepped, Next
<1>17. CASE SelectLocates
  <2>1. PICK pc \in {"first", "seek"} : cmd' = [cmd EXCEPT !.pc = pc]
    BY <1>17 DEF SelectLocates, Goto
  <2>2. Commands'
    BY <1>1, <1>3, <2>1 DEF SelectShape
  <2>3. CASE cmd.start <= cmd.end /\ LocateCall(cmd.start)
    <3>1. cmd.start \in Key
      BY <1>1, <1>2, <2>3 DEF SelectShape
    <3> QED BY <1>4, <1>17, <2>2, <2>3, <3>1 DEF SelectLocates, Stepped, Next
  <2>4. CASE SeekDown \/ SeekLeaf
    BY <1>4, <1>17, <2>2, <2>4 DEF SelectLocates, Stepped, Next
  <2> QED BY <1>17, <2>3, <2>4 DEF SelectLocates
<1> QED BY <1>5, <1>6, <1>7, <1>8, <1>9, <1>10, <1>11, <1>12, <1>13, <1>14, <1>15, <1>16, <1>17 DEF SelectStep

LEMMA KillSteps ==
  ASSUME EInv, Kill
  PROVE  Stepped
<1>1. Commands'
  BY DEF Kill, Commands, NoCommand
<1> QED BY <1>1 DEF EInv, Kill, Stepped, Next

LEMMA EngineSteps == EInv /\ [EngineNext]_allVars => Stepped
<1> SUFFICES ASSUME EInv, [EngineNext]_allVars PROVE Stepped
  OBVIOUS
<1>1. CASE UNCHANGED allVars
  BY <1>1 DEF allVars, engineVars, EInv, Commands, LoadShape, SelectShape, Stepped
<1>2. CASE EngineNext
  BY <1>2, CallsStep, LoadStepsStep, SelectStepsStep, KillSteps DEF EngineNext
<1> QED BY <1>1, <1>2

LEMMA EngineInductive == EngineSpec => []EInv
<1>1. EngineInit => EInv
  BY InitLevelled DEF EngineInit, EInv, Commands, NoCommand
<1>2. EInv /\ [EngineNext]_allVars => EInv'
  BY EngineSteps, NextKeeps DEF EInv, Stepped
<1> QED BY <1>1, <1>2, PTL DEF EngineSpec

\* A LOAD or SELECT uses its index as BTreeIndex.tla says it is used: every step
\* of the engine is one of the index, or leaves it alone (SqlEngine.cc:113, :198-229,
\* :341-366).
THEOREM EngineUsesIndex == EngineSpec => Spec
<1>1. EngineInit => Init
  BY DEF EngineInit
<1>2. EInv /\ [EngineNext]_allVars => [Next]_vars
  BY EngineSteps DEF Stepped
<1> QED BY <1>1, <1>2, EngineInductive, PTL DEF EngineSpec, Spec

\* So no command follows a pointer past the end of the index, takes a page for a
\* node of another kind, or cuts off a saved key at the end of its scan.
THEOREM EngineKeepsIndex == EngineSpec => [](NoDangling /\ DescentIsTyped /\ HeaderCovers)
BY EngineUsesIndex, PointersLeadToPages, DescentsAreTyped, HeaderCoversSaved, PTL

\* And whatever loads failed or were killed before, the leaves that a select reads
\* one after the other come to an end, and hold all that loads have saved.
THEOREM EngineKeepsChain == EngineSpec => [](ChainEnds /\ SavedOnChain)
BY EngineUsesIndex, ChainsEnd, SavedStaysOnChain, PTL

-----------------------------------------------------------------------------
(* Types, and the descriptors: what a command holds, the process has open. *)

Counted ==
  /\ files \subseteq {"tbl", "idx"} /\ fds \in 0..FdMax
  /\ commands \in 0..MaxCommands /\ whole \in BOOLEAN
  /\ size > 0 => "idx" \in files
  /\ ~Ready => cmd.held \subseteq files /\ Cardinality(cmd.held) <= fds
  /\ cmd.call = "select" => cmd.start \in Key /\ cmd.end \in Key

LEMMA HeldSize ==
  ASSUME NEW H \in SUBSET {"tbl", "idx"}, NEW f \in {"tbl", "idx"}
  PROVE  /\ Cardinality(H) \in Nat
         /\ \A C : Cardinality(H \cap C) \in Nat /\ Cardinality(H \cap C) <= Cardinality(H)
         /\ Cardinality(H \cup {f}) <= Cardinality(H) + 1
         /\ Cardinality({}) = 0 /\ Cardinality({f}) = 1
<1>1. IsFiniteSet({}) /\ IsFiniteSet({} \cup {"tbl"}) /\ IsFiniteSet({} \cup {"tbl"} \cup {"idx"})
  BY FS_EmptySet, FS_AddElement
<1>2. {} \cup {"tbl"} \cup {"idx"} = {"tbl", "idx"}
  OBVIOUS
<1>3. IsFiniteSet(H)
  BY <1>1, <1>2, FS_Subset
<1>4. Cardinality(H) \in Nat
  BY <1>3, FS_CardinalityType
<1>5. \A C : H \cap C \in SUBSET H
  OBVIOUS
<1>6. ASSUME NEW C
      PROVE  Cardinality(H \cap C) \in Nat /\ Cardinality(H \cap C) <= Cardinality(H)
  BY <1>3, <1>5, FS_Subset, FS_CardinalityType
<1>7. Cardinality(H \cup {f}) <= Cardinality(H) + 1
  BY <1>3, <1>4, FS_AddElement
<1> QED BY <1>4, <1>6, <1>7, FS_EmptySet, FS_Singleton

\* A command opens a file, or returns.
LEMMA Counting ==
  ASSUME Counted, ~Ready, NEW f \in {"tbl", "idx"}, NEW C
  PROVE  /\ fds < FdMax => /\ fds + 1 \in 0..FdMax
                           /\ Cardinality(cmd.held \cup {f}) <= fds + 1
                           /\ Cardinality({f}) <= fds + 1
         /\ fds - Cardinality(cmd.held \cap C) \in 0..FdMax
<1>1. cmd.held \in SUBSET {"tbl", "idx"} /\ Cardinality(cmd.held) <= fds /\ fds \in 0..FdMax
  BY DEF Counted
<1>2. /\ Cardinality(cmd.held) \in Nat
      /\ Cardinality(cmd.held \cap C) \in Nat /\ Cardinality(cmd.held \cap C) <= Cardinality(cmd.held)
      /\ Cardinality(cmd.held \cup {f}) <= Cardinality(cmd.held) + 1 /\ Cardinality({f}) = 1
  BY <1>1, HeldSize
<1> DEFINE a == Cardinality(cmd.held)
           b == Cardinality(cmd.held \cap C)
           c == Cardinality(cmd.held \cup {f})
           d == Cardinality({f})
<1>3. a \in Nat /\ b \in Nat /\ b <= a /\ c <= a + 1 /\ d = 1 /\ a <= fds
  BY <1>1, <1>2
<1>4. c \in Nat
  BY <1>1, HeldSize
<1> HIDE DEF a, b, c, d
<1>5. fds < FdMax => fds + 1 \in 0..FdMax /\ c <= fds + 1 /\ d <= fds + 1
  BY <1>1, <1>3, <1>4, LimitAssumption
<1>6. fds - b \in 0..FdMax
  BY <1>1, <1>3, LimitAssumption
<1> QED BY <1>5, <1>6 DEF b, c, d

\* Only an open creates the index file.
LEMMA IndexFileStays ==
  ASSUME EInv, Counted, obj.mode # "none" \/ size' = size
  PROVE  size' > 0 => "idx" \in files
BY DEF EInv, IInv, Levelled, Object, Counted

LEMMA WithinLimit == Counted /\ fds < FdLimit => fds < FdMax
BY LimitAssumption DEF Counted, FdLimit

LEMMA LoadsCount ==
  ASSUME EInv, Counted, LoadStep
  PROVE  Counted'
<1>1. cmd.call = "load" /\ cmd \in LoadShape(cmd)
  BY LoadIsLoad
<1>2. ~Ready
  BY DEF Ready, LoadStep, LoadOpensTable, LoadOpensIndex, LoadCannotOpen, LoadAppends,
         LoadInserts, LoadGivesUp, LoadEnds, LoadEndsUnsaved
<1>3. cmd'.call = "load"
  BY <1>1 DEF LoadShape, LoadStep, LoadOpensTable, LoadOpensIndex, LoadCannotOpen,
         LoadAppends, LoadInserts, LoadGivesUp, LoadEnds, LoadEndsUnsaved, Goto, Returns,
         OpensFile
<1>4. commands' = commands /\ whole' \in BOOLEAN /\ files' \in {files, files \cup {"tbl"}, files \cup {"idx"}}
  BY DEF Counted, LoadStep, LoadOpensTable, LoadOpensIndex, LoadCannotOpen, LoadAppends,
         LoadInserts, LoadGivesUp, LoadEnds, LoadEndsUnsaved
<1>5. size' > 0 => "idx" \in files'
  <2>1. CASE LoadOpensIndex
    BY <2>1 DEF LoadOpensIndex
  <2>2. CASE LoadOpensTable
    BY <1>4, <2>2, IndexFileStays DEF LoadOpensTable, vars
  <2>3. CASE LoadCannotOpen
    BY <1>4, <2>3, IndexFileStays DEF LoadCannotOpen, vars
  <2>4. CASE LoadAppends \/ LoadGivesUp \/ LoadEndsUnsaved
    <3>1. size' = size
      BY <2>4 DEF LoadAppends, LoadGivesUp, LoadEndsUnsaved, InsertCall, Abandon, InsertFails,
                  CloseFails, vars
    <3> QED BY <1>4, <3>1, IndexFileStays
  <2>5. CASE LoadInserts
    <3>1. obj.mode # "none"
      BY <2>5 DEF LoadInserts, InsertStep, InsertFirst, Descend, InsertInLeaf, SplitLeaf,
                  WriteLeft, InsertInNonLeaf, SplitNonLeaf, NewRoot, EInv, IInv, Books, Inserting
    <3> QED BY <1>4, <3>1, IndexFileStays
  <2>6. CASE LoadEnds
    <3>1. obj.mode # "none" \/ size' = size
      BY <2>6 DEF LoadEnds, Close, vars
    <3> QED BY <1>4, <3>1, IndexFileStays
  <2> QED BY <2>1, <2>2, <2>3, <2>4, <2>5, <2>6 DEF LoadStep
<1>6. /\ fds' \in 0..FdMax
      /\ cmd'.pc # "done" => cmd'.held \subseteq files' /\ Cardinality(cmd'.held) <= fds'
  <2>1. CASE LoadOpensTable
    <3>1. fds < FdMax /\ fds' = fds + 1 /\ cmd'.held = cmd.held \cup {"tbl"} /\ files' = files \cup {"tbl"}
      BY <1>1, <2>1, WithinLimit DEF LoadShape, LoadOpensTable, OpensFile
    <3> QED BY <1>2, <3>1, Counting DEF Counted
  <2>2. CASE LoadOpensIndex
    <3>1. fds < FdMax /\ fds' = fds + 1 /\ cmd'.held = cmd.held \cup {"idx"} /\ files' = files \cup {"idx"}
      BY <1>1, <2>2, WithinLimit DEF LoadShape, LoadOpensIndex, OpensFile
    <3> QED BY <1>2, <3>1, Counting DEF Counted
  <2>3. CASE LoadCannotOpen
    <3>1. cmd'.pc = "done"
      BY <1>1, <2>3 DEF LoadShape, LoadCannotOpen, Returns
    <3>2. fds' = fds - Cardinality(cmd.held \cap {}) \/ (fds < FdMax /\ fds' = fds + 1)
      BY <2>3, WithinLimit DEF LoadCannotOpen, Returns
    <3> QED BY <1>2, <3>1, <3>2, Counting
  <2>4. CASE LoadAppends \/ LoadInserts
    <3>1. fds' = fds /\ files' = files /\ cmd'.held = cmd.held
      BY <1>1, <2>4 DEF LoadShape, LoadAppends, LoadInserts, Goto
    <3> QED BY <1>2, <3>1 DEF Counted
  <2>5. CASE LoadGivesUp \/ LoadEnds \/ (LoadEndsUnsaved /\ cmd.pc = "unsaved")
    <3>1. cmd'.pc = "done"
      BY <1>1, <2>5 DEF LoadShape, LoadGivesUp, LoadEnds, LoadEndsUnsaved, Returns
    <3>2. \E C : fds' = fds - Cardinality(cmd.held \cap C)
      BY <2>5 DEF LoadGivesUp, LoadEnds, LoadEndsUnsaved, Returns
    <3> QED BY <1>2, <3>1, <3>2, Counting
  <2>6. CASE LoadEndsUnsaved /\ cmd.pc # "unsaved"
    <3>1. fds' = fds /\ files' = files /\ cmd'.held = cmd.held
      BY <1>1, <2>6 DEF LoadShape, LoadEndsUnsaved, Goto
    <3> QED BY <1>2, <3>1 DEF Counted
  <2> QED BY <2>1, <2>2, <2>3, <2>4, <2>5, <2>6 DEF LoadStep
<1>7. cmd'.pc \notin {"ready", "done"} <=> ~Ready'
  BY DEF Ready
<1>8. files' \subseteq {"tbl", "idx"}
  BY <1>4 DEF Counted
<1> QED BY <1>3, <1>4, <1>5, <1>6, <1>7, <1>8 DEF Counted

LEMMA SelectsCount ==
  ASSUME EInv, Counted, SelectStep
  PROVE  Counted'
<1>1. cmd.call = "select" /\ cmd \in SelectShape(cmd)
  BY SelectIsSelect
<1>2. ~Ready
  BY DEF Ready, InRange, SelectStep, SelectWithoutIndex, ScanOpens, ScanRow, ScanReadFails,
         ScanEnds, SelectOpensIndex, SelectLocates, SelectReads, SelectSkips, SelectOpensTable,
         SelectRow, SelectReadFails, IndexEnds
<1>3. commands' = commands /\ whole' = whole /\ files' = files /\ size' = size
  BY DEF SelectStep, SelectWithoutIndex, ScanOpens, ScanRow, ScanReadFails, ScanEnds,
         SelectOpensIndex, SelectLocates, SelectReads, SelectSkips, SelectOpensTable,
         SelectRow, SelectReadFails, IndexEnds, vars, Open, LocateCall, SeekDown, SeekLeaf,
         ReadForward, Abandon
<1>4. size' > 0 => "idx" \in files'
  BY <1>3, IndexFileStays
<1>5. cmd'.start \in Key /\ cmd'.end \in Key
  <2>1. cmd.start \in Key /\ cmd.end \in Key
    BY <1>1 DEF Counted
  <2>2. CASE SelectOpensIndex
    <3>1. obj'.min \in Key /\ obj'.max \in Key
      BY <2>2, HeaderTypes DEF SelectOpensIndex, Open, EInv
    <3>2. Max({cmd.start, obj'.min}) \in Key /\ Min({cmd.end, obj'.max}) \in Key
      <4>1. {cmd.start, obj'.min} \in SUBSET Key /\ {cmd.start, obj'.min} # {}
            /\ {cmd.end, obj'.max} \in SUBSET Key /\ {cmd.end, obj'.max} # {}
        BY <2>1, <3>1
      <4> QED BY <4>1, Extremes
    <3>3. cmd'.start = Max({cmd.start, obj'.min}) /\ cmd'.end = Min({cmd.end, obj'.max})
      <4> DEFINE start == Max({cmd.start, obj'.min})
                 end   == Min({cmd.end, obj'.max})
      <4>1. cmd' = [cmd EXCEPT !.pc = "locate", !.path = "index", !.held = {"idx"},
                               !.start = start, !.end = end]
        BY <2>2 DEF SelectOpensIndex
      <4> HIDE DEF start, end
      <4>2. cmd'.start = start /\ cmd'.end = end
        BY <1>1, <4>1 DEF SelectShape
      <4> QED BY <4>2 DEF start, end
    <3> QED BY <3>2, <3>3
  <2>3. CASE ~SelectOpensIndex
    <3>1. cmd'.start = cmd.start /\ cmd'.end = cmd.end
      BY <1>1, <2>3, ZenonT(30) DEF SelectShape, SelectStep, SelectWithoutIndex, ScanOpens, ScanRow,
         ScanReadFails, ScanEnds, SelectLocates, SelectReads, SelectSkips, SelectOpensTable,
         SelectRow, SelectReadFails, IndexEnds, Goto, Returns, TableCannot, OpensFile
    <3> QED BY <2>1, <3>1
  <2> QED BY <2>2, <2>3
<1>6. /\ fds' \in 0..FdMax
      /\ cmd'.pc # "done" => cmd'.held \subseteq files' /\ Cardinality(cmd'.held) <= fds'
  <2>1. cmd.held \subseteq files /\ Cardinality(cmd.held) <= fds /\ fds \in 0..FdMax
    BY <1>2 DEF Counted
  <2>2. ASSUME fds' = fds, cmd'.held = cmd.held
        PROVE  /\ fds' \in 0..FdMax
               /\ cmd'.held \subseteq files' /\ Cardinality(cmd'.held) <= fds'
    BY <1>3, <2>1, <2>2
  <2>3. ASSUME NEW f \in {"tbl", "idx"}, f \in files, fds < FdMax, fds' = fds + 1,
               cmd'.held = cmd.held \cup {f} \/ cmd'.held = {f}
        PROVE  /\ fds' \in 0..FdMax
               /\ cmd'.held \subseteq files' /\ Cardinality(cmd'.held) <= fds'
    <3>1. /\ fds + 1 \in 0..FdMax
          /\ Cardinality(cmd.held \cup {f}) <= fds + 1
          /\ Cardinality({f}) <= fds + 1
      BY <1>2, <2>3, Counting
    <3> QED BY <1>3, <2>1, <2>3, <3>1
  <2>4. ASSUME cmd'.pc = "done", NEW C, fds' = fds - Cardinality(cmd.held \cap C)
        PROVE  fds' \in 0..FdMax
    BY <1>2, <2>4, Counting
  <2>5. CASE SelectWithoutIndex
    <3>1. CASE UNCHANGED fds /\ cmd'.held = cmd.held
      BY <2>2, <3>1
    <3>2. CASE "idx" \in files /\ fds < FdMax /\ fds' = fds + 1 /\ cmd'.held = cmd.held \cup {"idx"}
      BY <2>3, <3>2
    <3> QED BY <1>1, <2>5, <3>1, <3>2, WithinLimit DEF SelectShape, SelectWithoutIndex, Goto, OpensFile
  <2>6. CASE ScanOpens
    <3>1. CASE "tbl" \in files /\ fds < FdMax /\ fds' = fds + 1 /\ cmd'.held = cmd.held \cup {"tbl"}
      BY <2>3, <3>1
    <3>2. CASE cmd'.pc = "done" /\ fds' = fds - Cardinality(cmd.held \cap {})
      BY <2>4, <3>2
    <3> QED BY <1>1, <2>6, <3>1, <3>2, WithinLimit DEF SelectShape, ScanOpens, TableOpens, Returns, TableCannot
  <2>7. CASE SelectOpensIndex
    <3>1. fds < FdMax /\ fds' = fds + 1 /\ cmd'.held = {"idx"}
      BY <1>1, <2>7 DEF SelectShape, SelectOpensIndex
    <3>2. "idx" \in files
      BY <2>7 DEF SelectOpensIndex, Open, Counted
    <3> QED BY <2>3, <3>1, <3>2
  <2>8. CASE SelectOpensTable
    <3>1. CASE "tbl" \in files /\ fds < FdMax /\ fds' = fds + 1 /\ cmd'.held = cmd.held \cup {"tbl"}
      BY <2>3, <3>1
    <3>2. CASE cmd'.pc = "done" /\ fds' = fds - Cardinality(cmd.held \cap {})
      BY <2>4, <3>2
    <3> QED BY <1>1, <2>8, <3>1, <3>2, WithinLimit DEF SelectShape, SelectOpensTable, TableOpens, Returns, TableCannot,
                                         OpensFile
  <2>9. CASE ScanRow \/ SelectLocates \/ SelectReads \/ SelectSkips \/ SelectRow
    <3>1. fds' = fds /\ cmd'.held = cmd.held
      BY <1>1, <2>9 DEF SelectShape, ScanRow, SelectLocates, SelectReads, SelectSkips, SelectRow,
                        Goto
    <3> QED BY <2>2, <3>1
  <2>10. CASE ScanReadFails \/ ScanEnds \/ SelectReadFails \/ IndexEnds
    <3>1. cmd'.pc = "done" /\ fds' = fds - Cardinality(cmd.held \cap {"tbl"})
      BY <1>1, <2>10 DEF SelectShape, ScanReadFails, ScanEnds, SelectReadFails, IndexEnds, Returns
    <3> QED BY <2>4, <3>1
  <2> QED BY <2>5, <2>6, <2>7, <2>8, <2>9, <2>10 DEF SelectStep
<1>7. cmd'.pc \notin {"ready", "done"} <=> ~Ready'
  BY DEF Ready
<1> QED BY <1>3, <1>4, <1>5, <1>6, <1>7 DEF Counted

LEMMA CountedKept == EInv /\ Counted /\ [EngineNext]_allVars => Counted'
<1> SUFFICES ASSUME EInv, Counted, [EngineNext]_allVars PROVE Counted'
  OBVIOUS
<1>1. CASE UNCHANGED allVars
  BY <1>1 DEF allVars, engineVars, vars, Counted, Ready
<1>2. CASE \E file \in LoadFiles, index \in BOOLEAN : LoadCall(file, index)
  <2>1. /\ cmd'.call = "load" /\ cmd'.held = {} /\ files' = files /\ fds' = fds /\ size' = size
        /\ commands' \in 0..MaxCommands /\ whole' \in BOOLEAN
    BY <1>2, LimitAssumption DEF LoadCall, Call, vars, Counted
  <2>2. Cardinality({}) = 0
    BY HeldSize
  <2> QED BY <2>1, <2>2 DEF Counted
<1>3. CASE \E q \in Queries : SelectCall(q)
  <2>1. PICK q \in Queries : SelectCall(q)
    BY <1>3
  <2>2. /\ cmd'.call = "select" /\ cmd'.held = {} /\ files' = files /\ fds' = fds /\ size' = size
        /\ commands' \in 0..MaxCommands /\ whole' = whole
        /\ cmd'.start = StartKey(q.conds) /\ cmd'.end = EndKey(q.conds)
    BY <2>1, LimitAssumption DEF SelectCall, Call, vars, Counted
  <2>3. Cardinality({}) = 0
    BY HeldSize
  <2> QED BY <2>2, <2>3, RangeType DEF Counted
<1>4. CASE Kill
  <2>1. /\ cmd'.call = "none" /\ cmd'.pc = "ready" /\ files' = files /\ fds' = 0 /\ size' = size
        /\ commands' = commands /\ whole' \in BOOLEAN
    BY <1>4 DEF Kill, NoCommand, Abandon, vars, Counted
  <2> QED BY <2>1, LimitAssumption DEF Counted, Ready
<1> QED BY <1>1, <1>2, <1>3, <1>4, LoadsCount, SelectsCount DEF EngineNext

\* Rows, commands and ranges of keys have their types, the ends of int included, and
\* a command holds no descriptor that the process has not open, for files that
\* exist (SqlEngine.cc:40-385).
THEOREM EngineTypeCorrect == EngineSpec => []EngineTypeOK
<1>1. EngineInit => Counted
  BY LimitAssumption DEF EngineInit, Init, Counted, NoCommand, Ready
<1>2. EInv /\ Counted => EngineTypeOK
  <2> SUFFICES ASSUME EInv, Counted PROVE EngineTypeOK
    OBVIOUS
  <2>1. \A i \in 1..Len(table) : table[i] \in [key : Key, value : Value]
    <3>1. table \in Seq(RowType)
      BY DEF EInv
    <3> QED BY <3>1, ElementOfSeq DEF RowType
  <2>2. ~Ready => cmd.call \in {"load", "select"}
    BY DEF Ready, EInv, Commands, NoCommand
  <2> QED BY <2>1, <2>2 DEF Counted, EngineTypeOK
<1> QED BY <1>1, <1>2, CountedKept, EngineInductive, PTL DEF EngineSpec

-----------------------------------------------------------------------------
(* What is in the index, on disk or about to be written, are entries of    *)
(* one set R; the engine's R is the rows.                                  *)

LeavesOf(R) ==
  /\ \A p \in DOMAIN disk : disk[p].kind = "leaf" => disk[p].ents \in Seq(R)
  /\ op.pc \in Inserting => op.entry \in R
  /\ op.pc = "left" /\ op.page.kind = "leaf" => op.page.ents \in Seq(R)

LEMMA RowsTyped == EInv => Rows \subseteq Entry
<1> SUFFICES ASSUME EInv PROVE Rows \subseteq Entry
  OBVIOUS
<1>1. \A i \in 1..Len(table) : table[i].key \in Key
  <2>1. \A i \in 1..Len(table) : table[i] \in RowType
    BY ElementOfSeq DEF EInv
  <2> QED BY <2>1 DEF RowType
<1>2. Len(table) \in Nat
  BY DEF EInv
<1> QED BY <1>1, <1>2, IntAssumption DEF Rows, Entry

\* A page written, of the kind and with the entries it should have.
LEMMA WrittenOf ==
  ASSUME NEW R, LeavesOf(R), NEW pid, NEW page, WritePage(pid, page),
         page.kind = "leaf" => page.ents \in Seq(R)
  PROVE  \A p \in DOMAIN disk' : disk'[p].kind = "leaf" => disk'[p].ents \in Seq(R)
BY DEF WritePage, LeavesOf

\* The leaf an insert is at.
LEMMA LeafHere ==
  ASSUME NEW R \in SUBSET Entry, IInv, LeavesOf(R), op.pc = "down", AtLeaf
  PROVE  op.entry \in R /\ \E N : disk[op.at] \in LeafNode(R, N)
<1>1. PICK lvl \in Levels(size) : Levelled(lvl)
  BY DEF IInv
<1>2. op.at \in At(lvl, Here)
  BY <1>1 DEF Levelled, Operation, Here
<1>3. Here = 1
  BY <1>1, HereType DEF AtLeaf, Here
<1>4. disk[op.at] \in LeafNode(Entry, At(lvl, 1) \cup {0}) /\ op.at \in DOMAIN disk
  <2>1. op.at \in DOMAIN lvl /\ lvl[op.at] = 1
    BY <1>2, <1>3 DEF At
  <2>2. op.at \in 1..(size - 1) /\ size \in Nat /\ DOMAIN disk = 0..(size - 1)
    BY <1>1, <2>1 DEF Levelled, Store, Levels
  <2>3. disk[op.at] \in NodeAt(lvl, 1)
    BY <1>1, <2>1, <2>2 DEF Levelled, Store
  <2> QED BY <2>2, <2>3 DEF NodeAt
<1>5. disk[op.at] \in LeafNode(R, At(lvl, 1) \cup {0})
  BY <1>4 DEF LeavesOf, LeafNode
<1> QED BY <1>5 DEF LeavesOf, Inserting

LEMMA KeyedSubset == ASSUME NEW R \in SUBSET Entry PROVE Keyed(R) /\ \A x \in R : x.key \in Key
BY EntryKeyed DEF Keyed

LEMMA InsertsKeepLeaves ==
  ASSUME NEW R \in SUBSET Entry, IInv, LeavesOf(R), InsertStep
  PROVE  LeavesOf(R)'
<1>1. CASE InsertFirst
  <2>1. op.pc = "first" /\ op.entry \in R
    BY <1>1 DEF InsertFirst, LeavesOf, Inserting
  <2>2. LeafInsert(EmptyLeaf, op.entry) \in LeafNode(R, {0})
    <3>1. EmptyLeaf \in LeafNode(R, {0})
      BY DEF EmptyLeaf, LeafNode
    <3> QED BY <2>1, <3>1, KeyedSubset, LeafInsertType
  <2>3. WritePage(obj.root, LeafInsert(EmptyLeaf, op.entry)) /\ op' = Idle
    BY <1>1 DEF InsertFirst, Return
  <2> QED BY <2>2, <2>3, WrittenOf DEF LeafNode, LeavesOf, Idle, Inserting
<1>2. CASE Descend
  <2>1. op.pc = "down" /\ disk' = disk
    BY <1>2 DEF Descend
  <2>2. op'.pc = "down" /\ op'.entry = op.entry
    <3>1. PICK lvl \in Levels(size) : Levelled(lvl)
      BY DEF IInv
    <3>2. op \in [pc : {"down"}, entry : Entry, at : DOMAIN lvl, held : Seq(HeldNode(lvl))]
      BY <2>1, <3>1 DEF Levelled, Operation
    <3> QED BY <1>2, <3>2 DEF Descend
  <2> QED BY <2>1, <2>2 DEF LeavesOf, Inserting
<1>3. CASE InsertInLeaf
  <2>1. op.entry \in R /\ \E N : disk[op.at] \in LeafNode(R, N)
    BY <1>3, LeafHere DEF InsertInLeaf
  <2>2. PICK N : disk[op.at] \in LeafNode(R, N)
    BY <2>1
  <2>3. LeafInsert(disk[op.at], op.entry) \in LeafNode(R, N)
    BY <2>1, <2>2, KeyedSubset, LeafInsertType
  <2>4. WritePage(op.at, LeafInsert(disk[op.at], op.entry)) /\ op' = Idle
    BY <1>3 DEF InsertInLeaf, Return
  <2> QED BY <2>3, <2>4, WrittenOf DEF LeafNode, LeavesOf, Idle, Inserting
<1>4. CASE SplitLeaf
  <2> DEFINE leaf == disk[op.at]
             h    == LeafSplit(leaf, op.entry)
             s    == LeafHalves(leaf, op.entry)
  <2>1. op.entry \in R /\ \E N : leaf \in LeafNode(R, N)
    BY <1>4, LeafHere DEF SplitLeaf
  <2>2. PICK N : leaf \in LeafNode(R, N)
    BY <2>1
  <2>3. h.left \in LeafNode(R, N) /\ h.right \in LeafNode(R, {0})
    BY <1>4, <2>1, <2>2, KeyedSubset, LeafSplitType DEF SplitLeaf
  <2>4. s.left = [h.left EXCEPT !.next = size] /\ s.right = [h.right EXCEPT !.next = leaf.next]
    <3>1. h = [left |-> h.left, right |-> h.right, key |-> h.key]
      BY DEF LeafSplit
    <3>2. s = [h EXCEPT !.left.next = size, !.right.next = leaf.next]
      BY DEF LeafHalves
    <3> HIDE DEF h, s
    <3> QED BY <3>1, <3>2
  <2>5. WritePage(size, s.right)
        /\ op' = [pc |-> "left", entry |-> op.entry, held |-> op.held, at |-> op.at,
                  page |-> s.left, over |-> [key |-> s.key, pid |-> size]]
    BY <1>4 DEF SplitLeaf
  <2> HIDE DEF h, s
  <2>6. s.left.ents \in Seq(R) /\ s.right.ents \in Seq(R)
    BY <2>3, <2>4 DEF LeafNode
  <2>7. \A p \in DOMAIN disk' : disk'[p].kind = "leaf" => disk'[p].ents \in Seq(R)
    BY <2>5, <2>6, WrittenOf
  <2> QED BY <2>1, <2>5, <2>6, <2>7 DEF LeavesOf
<1>5. CASE WriteLeft
  <2>1. op.pc = "left" /\ WritePage(op.at, op.page) /\ op'.pc = "up" /\ op'.entry = op.entry
    BY <1>5 DEF WriteLeft
  <2>2. op.entry \in R /\ (op.page.kind = "leaf" => op.page.ents \in Seq(R))
    BY <2>1 DEF LeavesOf, Inserting
  <2> QED BY <2>1, <2>2, WrittenOf DEF LeavesOf
<1>6. CASE InsertInNonLeaf \/ SplitNonLeaf
  <2>1. PICK lvl \in Levels(size) : Levelled(lvl)
    BY DEF IInv
  <2>2. Parent.node.kind = "nonleaf" /\ op.pc = "up"
    BY <1>6, <2>1, ParentType DEF InsertInNonLeaf, SplitNonLeaf, NonLeafNode
  <2>3. op.entry \in R
    BY <2>2 DEF LeavesOf, Inserting
  <2>4. CASE InsertInNonLeaf
    <3>1. NonLeafInsert(Parent.node, op.over).kind = "nonleaf"
      <4>1. Parent.node \in NonLeafNode(Key, At(lvl, Here)) /\ op.over \in Separator(Key, At(lvl, Here))
        BY <2>1, <2>2, <2>4, ParentType DEF InsertInNonLeaf
      <4>2. NonLeafInsert(Parent.node, op.over) \in NonLeafNode(Key, At(lvl, Here))
        BY <4>1, EntryKeyed, NonLeafInsertType
      <4> QED BY <4>2 DEF NonLeafNode
    <3>2. WritePage(Parent.pid, NonLeafInsert(Parent.node, op.over)) /\ op' = Idle
      BY <2>4 DEF InsertInNonLeaf, Return
    <3> QED BY <3>1, <3>2, WrittenOf DEF LeavesOf, Idle, Inserting
  <2>5. CASE SplitNonLeaf
    <3> DEFINE s == NonLeafSplit(Parent.node, op.over)
    <3>1. s.left.kind = "nonleaf" /\ s.right.kind = "nonleaf"
      <4>1. Parent.node \in NonLeafNode(Key, At(lvl, Here)) /\ op.over \in Separator(Key, At(lvl, Here))
        BY <2>1, <2>2, <2>5, ParentType DEF SplitNonLeaf
      <4>2. s.left \in NonLeafNode(Key, At(lvl, Here)) /\ s.right \in NonLeafNode(Key, At(lvl, Here))
        BY <2>5, <4>1, EntryKeyed, NonLeafSplitType DEF SplitNonLeaf
      <4> QED BY <4>2 DEF NonLeafNode
    <3>2. WritePage(size, s.right) /\ op'.pc = "left" /\ op'.page = s.left /\ op'.entry = op.entry
      BY <2>5 DEF SplitNonLeaf
    <3> HIDE DEF s
    <3> QED BY <2>3, <3>1, <3>2, WrittenOf DEF LeavesOf
  <2> QED BY <1>6, <2>4, <2>5
<1>7. CASE NewRoot
  <2>1. WritePage(size, InitializeRoot(obj.root, op.over.key, op.over.pid)) /\ op' = Idle
    BY <1>7 DEF NewRoot, Return
  <2>2. InitializeRoot(obj.root, op.over.key, op.over.pid).kind = "nonleaf"
    BY DEF InitializeRoot
  <2> QED BY <2>1, <2>2, WrittenOf DEF LeavesOf, Idle, Inserting
<1> QED BY <1>1, <1>2, <1>3, <1>4, <1>5, <1>6, <1>7 DEF InsertStep

LEMMA OthersKeepLeaves ==
  ASSUME NEW R \in SUBSET Entry, IInv, LeavesOf(R),
         \/ OpenNew \/ Open("r") \/ Open("w") \/ Close \/ CloseFails \/ Abandon \/ InsertFails
         \/ (\E k \in Key : LocateCall(k)) \/ SeekDown \/ SeekLeaf \/ ReadForward
         \/ UNCHANGED vars
  PROVE  LeavesOf(R)'
<1>1. CASE OpenNew \/ Close
  <2>1. op' = op
    BY <1>1 DEF OpenNew, Close
  <2>2. CASE OpenNew /\ WritePage(0, Header(Fresh))
    BY <2>1, <2>2, WrittenOf DEF LeavesOf, Header
  <2>3. CASE OpenNew /\ UNCHANGED disk
    BY <2>1, <2>3 DEF LeavesOf
  <2>4. CASE Close
    <3>1. WritePage(0, Header(obj)) /\ Header(obj).kind = "header"
      BY <2>4 DEF Close, Header
    <3> QED BY <2>1, <3>1, WrittenOf DEF LeavesOf
  <2> QED BY <1>1, <2>2, <2>3, <2>4 DEF OpenNew
<1>2. CASE UNCHANGED <<disk, op>>
  BY <1>2 DEF LeavesOf
<1>3. CASE disk' = disk /\ op' = Idle
  BY <1>3 DEF LeavesOf, Idle, Inserting
<1>4. CASE \E k \in Key : LocateCall(k)
  BY <1>2, <1>4 DEF LocateCall, LeavesOf, Inserting
<1>5. CASE SeekDown
  <2>1. PICK lvl \in Levels(size) : Levelled(lvl)
    BY DEF IInv
  <2>2. op \in [pc : {"seek"}, key : Key, at : DOMAIN lvl, level : Nat]
    BY <1>5, <2>1 DEF SeekDown, Levelled, Operation
  <2>3. op'.pc = "seek" /\ disk' = disk
    BY <1>5, <2>2 DEF SeekDown
  <2> QED BY <2>3 DEF LeavesOf, Inserting
<1>6. CASE UNCHANGED vars \/ Open("r") \/ Open("w") \/ CloseFails \/ ReadForward
  BY <1>2, <1>6 DEF vars, Open, CloseFails, ReadForward
<1>7. CASE Abandon \/ InsertFails \/ SeekLeaf
  BY <1>3, <1>7 DEF Abandon, InsertFails, SeekLeaf
<1> QED BY <1>1, <1>4, <1>5, <1>6, <1>7

LEMMA CallKeepsLeaves ==
  ASSUME NEW R \in SUBSET Entry, LeavesOf(R), NEW e \in R, InsertCall(e)
  PROVE  LeavesOf(R)'
BY DEF InsertCall, LeavesOf, Inserting

\* A row that is appended is one more of the rows.
LEMMA OneMoreRow ==
  ASSUME table \in Seq(RowType), NEW row \in RowType, table' = Append(table, row)
  PROVE  Rows' = Rows \cup {[key |-> row.key, rid |-> Len(table)]}
<1>1. /\ Len(table) \in Nat /\ Len(table') = Len(table) + 1
      /\ \A i \in 1..Len(table) : table'[i] = table[i]
      /\ table'[Len(table) + 1] = row
  BY AppendProperties
<1>2. \A x : x \in Rows' <=> \E i \in 1..Len(table') : x = [key |-> table'[i].key, rid |-> i - 1]
  BY DEF Rows
<1>3. \A x : x \in Rows <=> \E i \in 1..Len(table) : x = [key |-> table[i].key, rid |-> i - 1]
  BY DEF Rows
<1>4. \A i : i \in 1..Len(table') <=> i \in 1..Len(table) \/ i = Len(table) + 1
  BY <1>1
<1>5. [key |-> table'[Len(table) + 1].key, rid |-> (Len(table) + 1) - 1]
        = [key |-> row.key, rid |-> Len(table)]
  BY <1>1
<1> HIDE DEF Rows
<1> QED BY <1>1, <1>2, <1>3, <1>4, <1>5

RowLeaves == LeavesOf(Rows)

LEMMA RowsStay ==
  ASSUME EInv, RowLeaves, UNCHANGED table,
         \/ OpenNew \/ Open("r") \/ Open("w") \/ Close \/ CloseFails \/ Abandon \/ InsertFails
         \/ (\E k \in Key : LocateCall(k)) \/ SeekDown \/ SeekLeaf \/ ReadForward
         \/ UNCHANGED vars
         \/ InsertStep
  PROVE  RowLeaves'
<1>1. PICK R : R = Rows
  OBVIOUS
<1>2. R \in SUBSET Entry /\ LeavesOf(R) /\ IInv
  BY <1>1, RowsTyped DEF RowLeaves, EInv
<1>3. LeavesOf(R)'
  BY <1>2, OthersKeepLeaves, InsertsKeepLeaves
<1>4. Rows' = R
  BY <1>1 DEF Rows
<1> HIDE DEF Rows
<1> QED BY <1>3, <1>4 DEF RowLeaves, LeavesOf

LEMMA AppendKeepsLeaves ==
  ASSUME EInv, RowLeaves, LoadAppends, Stepped
  PROVE  RowLeaves'
<1> DEFINE line == Head(cmd.lines)
           key  == ParsedKey(line)
           row  == [key |-> key, value |-> line.value]
           e    == [key |-> key, rid |-> Len(table)]
<1>1. table' = Append(table, row) /\ table \in Seq(RowType) /\ table' \in Seq(RowType)
  BY DEF LoadAppends, EInv, Stepped
<1>2. row \in RowType
  <2>1. Len(table) + 1 \in 1..Len(table') /\ table'[Len(table) + 1] = row
    BY <1>1
  <2> QED BY <1>1, <2>1, ElementOfSeq
<1>3. Rows' = Rows \cup {e}
  BY <1>1, <1>2, OneMoreRow
<1>4. Rows \subseteq Entry /\ e \in Entry
  <2>1. key \in Key /\ Len(table) \in Nat
    BY <1>1, <1>2 DEF RowType
  <2> QED BY <2>1, RowsTyped, IntAssumption DEF Entry
<1>5. InsertCall(e) \/ UNCHANGED vars
  BY DEF LoadAppends, PlaceOf
<1> HIDE DEF line, key, row, e, Rows
<1>6. PICK R : R = Rows \cup {e}
  OBVIOUS
<1>7. R \in SUBSET Entry /\ e \in R /\ Rows \subseteq R
  BY <1>4, <1>6
<1>8. Seq(Rows) \subseteq Seq(R)
  BY <1>7, SeqMonotonic
<1>9. LeavesOf(R)
  BY <1>7, <1>8 DEF RowLeaves, LeavesOf
<1>10. LeavesOf(R)'
  BY <1>5, <1>7, <1>9, CallKeepsLeaves, OthersKeepLeaves DEF EInv
<1> QED BY <1>3, <1>6, <1>10 DEF RowLeaves, LeavesOf

LEMMA RowLeavesKept == EInv /\ RowLeaves /\ [EngineNext]_allVars => RowLeaves'
<1> SUFFICES ASSUME EInv, RowLeaves, [EngineNext]_allVars PROVE RowLeaves'
  OBVIOUS
<1>1. Stepped
  BY EngineSteps
<1>2. CASE UNCHANGED allVars
  BY <1>2, RowsStay DEF allVars, engineVars
<1>3. CASE (\E file \in LoadFiles, index \in BOOLEAN : LoadCall(file, index))
             \/ (\E q \in Queries : SelectCall(q)) \/ Kill
  BY <1>3, RowsStay DEF LoadCall, SelectCall, Kill
<1>4. CASE LoadAppends
  BY <1>1, <1>4, AppendKeepsLeaves
<1>5. CASE LoadOpensTable \/ LoadOpensIndex \/ LoadCannotOpen \/ LoadInserts \/ LoadGivesUp
             \/ LoadEnds \/ LoadEndsUnsaved
  BY <1>5, RowsStay DEF LoadOpensTable, LoadOpensIndex, LoadCannotOpen, LoadInserts,
                        LoadGivesUp, LoadEnds, LoadEndsUnsaved
<1>6. CASE SelectWithoutIndex \/ ScanOpens \/ ScanRow \/ ScanReadFails \/ ScanEnds \/ SelectSkips
             \/ SelectRow
  BY <1>6, RowsStay DEF SelectWithoutIndex, ScanOpens, ScanRow, ScanReadFails, ScanEnds,
                        SelectSkips, SelectRow
<1>7. CASE SelectOpensIndex \/ SelectReads \/ SelectOpensTable \/ SelectReadFails \/ IndexEnds
  BY <1>7, RowsStay DEF SelectOpensIndex, SelectReads, SelectOpensTable, SelectReadFails,
                        IndexEnds
<1>8. CASE SelectLocates
  <2>1. CASE cmd.start <= cmd.end /\ LocateCall(cmd.start) /\ cmd.pc = "locate"
    <3>1. cmd.start \in Key
      <4>1. cmd.call = "select"
        BY <2>1 DEF EInv, Commands, LoadShape, NoCommand
      <4>2. cmd.start \in Int /\ cmd.end \in Int /\ cmd.start >= IntMin /\ cmd.end <= IntMax
        BY <4>1 DEF EInv, Commands, SelectShape
      <4> QED BY <2>1, <4>2, Ints, IntAssumption
    <3> QED BY <1>8, <2>1, <3>1, RowsStay DEF SelectLocates
  <2>2. CASE SeekDown \/ SeekLeaf
    BY <1>8, <2>2, RowsStay DEF SelectLocates
  <2> QED BY <1>8, <2>1, <2>2 DEF SelectLocates
<1> QED BY <1>2, <1>3, <1>4, <1>5, <1>6, <1>7, <1>8 DEF EngineNext, LoadStep, SelectStep

\* Whatever became of the loads, an entry in a leaf of the index is the key and
\* the place of a record of the table: load appends before it inserts
\* (SqlEngine.cc:353-359).
THEOREM IndexedRowsExist == EngineSpec => []IndexedAreRows
<1>1. EngineInit => RowLeaves
  BY DEF EngineInit, Init, RowLeaves, LeavesOf, Idle, Inserting
<1>2. RowLeaves => IndexedAreRows
  <2> SUFFICES ASSUME RowLeaves, NEW p \in DOMAIN disk, disk[p].kind = "leaf"
               PROVE  Entries(disk[p].ents) \subseteq Rows
    BY DEF IndexedAreRows
  <2>1. disk[p].ents \in Seq(Rows)
    BY DEF RowLeaves, LeavesOf
  <2> QED BY <2>1, ElementOfSeq DEF Entries
<1> QED BY <1>1, <1>2, RowLeavesKept, EngineInductive, PTL DEF EngineSpec

-----------------------------------------------------------------------------
(* The index of an undisturbed series of indexed loads is complete.  While *)
(* a load is at work the rows are what it has had acknowledged, and the    *)
(* entry it is inserting.                                                  *)

Complete ==
  whole =>
    /\ cmd.call \in {"none", "select"} \/ cmd.pc \in {"table", "index", "done"} => saved = Rows
    /\ cmd.call = "load" /\ cmd.pc # "done" => cmd.index
    /\ cmd.call = "load" => cmd.pc # "unsaved"
    /\ cmd.call = "load" /\ cmd.pc = "line" =>
         obj.mode = "w" /\ op.pc = "idle" /\ acked = Rows
    /\ cmd.call = "load" /\ cmd.pc = "insert" =>
         obj.mode = "w" /\ op.pc \in Inserting /\ acked \cup {op.entry} = Rows

\* A step of an insert goes on with its entry or acknowledges it.
LEMMA InsertStepEnds ==
  ASSUME IInv, InsertStep
  PROVE  /\ op.pc \in Inserting /\ obj'.mode = obj.mode /\ saved' = saved
         /\ \/ op' = Idle /\ acked' = acked \cup {op.entry}
            \/ op' # Idle /\ op'.pc \in Inserting /\ op'.entry = op.entry /\ acked' = acked
<1>1. PICK lvl \in Levels(size) : Levelled(lvl)
  BY DEF IInv
<1>2. CASE InsertFirst
  <2>1. obj \in ObjType
    BY <1>1 DEF Levelled, Object
  <2> QED BY <1>2, <2>1 DEF InsertFirst, Return, Inserting, ObjType
<1>3. CASE Descend
  <2>1. op \in [pc : {"down"}, entry : Entry, at : DOMAIN lvl, held : Seq(HeldNode(lvl))]
    BY <1>1, <1>3 DEF Descend, Levelled, Operation
  <2>2. op'.pc = "down" /\ op'.entry = op.entry
    BY <1>3, <2>1 DEF Descend
  <2> QED BY <1>3, <2>2 DEF Descend, Inserting, Idle
<1>4. CASE InsertInLeaf \/ InsertInNonLeaf
  BY <1>4 DEF InsertInLeaf, InsertInNonLeaf, Return, Inserting
<1>5. CASE SplitLeaf
  <2>1. op'.pc = "left" /\ op'.entry = op.entry
    BY <1>5 DEF SplitLeaf
  <2> QED BY <1>5, <2>1 DEF SplitLeaf, Inserting, Idle
<1>6. CASE WriteLeft
  <2>1. op'.pc = "up" /\ op'.entry = op.entry
    BY <1>6 DEF WriteLeft
  <2> QED BY <1>6, <2>1 DEF WriteLeft, Inserting, Idle
<1>7. CASE SplitNonLeaf
  <2>1. op'.pc = "left" /\ op'.entry = op.entry
    BY <1>7 DEF SplitNonLeaf
  <2> QED BY <1>7, <2>1 DEF SplitNonLeaf, Inserting, Idle
<1>8. CASE NewRoot
  <2>1. obj \in ObjType
    BY <1>1 DEF Levelled, Object
  <2> QED BY <1>8, <2>1 DEF NewRoot, Return, Inserting, ObjType
<1> QED BY <1>2, <1>3, <1>4, <1>5, <1>6, <1>7, <1>8 DEF InsertStep

LEMMA CompleteInLoad ==
  ASSUME EInv, Complete, Stepped, LoadStep, whole'
  PROVE  Complete'
<1>1. cmd.call = "load" /\ cmd \in LoadShape(cmd)
  BY LoadIsLoad
<1>2. CASE LoadOpensTable
  <2>1. cmd' = [cmd EXCEPT !.pc = IF cmd.index THEN "index" ELSE "line", !.held = @ \cup {"tbl"}]
    BY <1>2 DEF LoadOpensTable, OpensFile
  <2>2. saved = Rows /\ cmd.index
    BY <1>1, <1>2 DEF Complete, LoadOpensTable
  <2>3. cmd'.call = "load" /\ cmd'.pc = "index" /\ cmd'.index
    BY <1>1, <2>1, <2>2 DEF LoadShape
  <2>4. saved' = saved /\ Rows' = Rows
    BY <1>2 DEF LoadOpensTable, vars, Rows
  <2> QED BY <2>2, <2>3, <2>4 DEF Complete
<1>3. CASE LoadOpensIndex
  <2>1. cmd' = [cmd EXCEPT !.pc = "line", !.held = @ \cup {"idx"}]
    BY <1>3 DEF LoadOpensIndex, OpensFile
  <2>2. saved = Rows /\ cmd.index
    BY <1>1, <1>3 DEF Complete, LoadOpensIndex
  <2>3. cmd'.call = "load" /\ cmd'.pc = "line" /\ cmd'.index
    BY <1>1, <2>1, <2>2 DEF LoadShape
  <2>4. acked = saved /\ op.pc = "idle"
    BY <1>3 DEF LoadOpensIndex, EInv, IInv, Books, OpenNew, Open
  <2>5. acked' = acked /\ op' = op /\ obj'.mode = "w"
    <3>1. CASE Open("w")
      BY <3>1 DEF Open
    <3>2. CASE OpenNew
      <4>1. obj' = [Fresh EXCEPT !.mode = "w"]
        BY <1>3, <3>2 DEF LoadOpensIndex, OpenNew, Reply
      <4> QED BY <3>2, <4>1 DEF OpenNew, Fresh
    <3> QED BY <1>3, <3>1, <3>2 DEF LoadOpensIndex
  <2>6. Rows' = Rows
    BY <1>3 DEF LoadOpensIndex, Rows
  <2> QED BY <2>2, <2>3, <2>4, <2>5, <2>6 DEF Complete
<1>4. CASE LoadAppends
  <2> DEFINE line == Head(cmd.lines)
             key  == ParsedKey(line)
             row  == [key |-> key, value |-> line.value]
             e    == [key |-> key, rid |-> Len(table)]
  <2>1. acked = Rows /\ cmd.index /\ obj.mode = "w"
    BY <1>1, <1>4 DEF Complete, LoadAppends
  <2>2. table' = Append(table, row) /\ InsertCall(e) /\ table \in Seq(RowType)
        /\ table' \in Seq(RowType)
    BY <1>4, <2>1 DEF LoadAppends, PlaceOf, EInv, Stepped
  <2>3. Rows' = Rows \cup {e}
    <3>1. Len(table) + 1 \in 1..Len(table') /\ table'[Len(table) + 1] = row
      BY <2>2
    <3>2. row \in RowType
      BY <2>2, <3>1, ElementOfSeq
    <3> QED BY <2>2, <3>2, OneMoreRow
  <2> HIDE DEF line, key, row
  <2>4. acked' = acked /\ op'.pc \in Inserting /\ op'.entry = e
    BY <2>2 DEF InsertCall, Inserting
  <2>5. obj'.mode = "w"
    <3>1. obj \in ObjType
      BY DEF EInv, IInv, Levelled, Object
    <3>2. Widened(obj, e.key).mode = "w" /\ Widened(obj, e.key) \in [mode : {"w"}, root : Int, height : Nat, min : {Widened(obj, e.key).min}, max : {Widened(obj, e.key).max}]
      BY <2>1, <3>1 DEF Widened, ObjType
    <3> QED BY <2>2, <3>2 DEF InsertCall
  <2>6. cmd'.call = "load" /\ cmd'.pc = "insert" /\ cmd'.index
    <3>1. cmd' = [cmd EXCEPT !.pc = "insert", !.lines = Tail(@)]
      BY <1>4, <2>1 DEF LoadAppends
    <3> QED BY <1>1, <2>1, <3>1 DEF LoadShape
  <2> HIDE DEF e
  <2> QED BY <2>1, <2>3, <2>4, <2>5, <2>6 DEF Complete
<1>5. CASE LoadInserts
  <2>1. obj.mode = "w" /\ acked \cup {op.entry} = Rows /\ cmd.index
    BY <1>1, <1>5 DEF Complete, LoadInserts
  <2>2. cmd' = [cmd EXCEPT !.pc = IF op' = Idle THEN "line" ELSE "insert"]
    BY <1>5 DEF LoadInserts, Goto
  <2>3. Rows' = Rows
    BY <1>5 DEF LoadInserts, Rows
  <2>4. cmd'.call = "load" /\ cmd'.pc = (IF op' = Idle THEN "line" ELSE "insert") /\ cmd'.index
    BY <1>1, <2>1, <2>2 DEF LoadShape
  <2>5. CASE op' = Idle /\ acked' = acked \cup {op.entry} /\ obj'.mode = obj.mode
    BY <2>1, <2>3, <2>4, <2>5 DEF Complete, Idle
  <2>6. CASE op' # Idle /\ op'.pc \in Inserting /\ op'.entry = op.entry /\ acked' = acked
             /\ obj'.mode = obj.mode
    BY <2>1, <2>3, <2>4, <2>6 DEF Complete
  <2> QED BY <1>5, <2>5, <2>6, InsertStepEnds DEF LoadInserts, EInv
<1>6. CASE LoadEnds
  <2>1. acked = Rows /\ cmd.index
    BY <1>1, <1>6 DEF Complete, LoadEnds
  <2>2. saved' = acked /\ Rows' = Rows
    BY <1>6, <2>1 DEF LoadEnds, Close, Rows
  <2>3. cmd' = [cmd EXCEPT !.pc = "done", !.rc = "OK", !.held = @ \ {"tbl", "idx"}]
    BY <1>6 DEF LoadEnds, Returns
  <2>4. cmd'.call = "load" /\ cmd'.pc = "done"
    BY <1>1, <2>3 DEF LoadShape
  <2> QED BY <2>1, <2>2, <2>4 DEF Complete
<1> QED BY <1>2, <1>3, <1>4, <1>5, <1>6
        DEF LoadStep, LoadCannotOpen, LoadGivesUp, LoadEndsUnsaved

\* A select saves nothing and appends nothing, and stays a select.
LEMMA SelectSaves ==
  ASSUME EInv, SelectStep
  PROVE  /\ cmd.call = "select" /\ cmd'.call = "select" /\ cmd'.q = cmd.q
         /\ UNCHANGED <<saved, table, whole>>
<1>1. cmd.call = "select" /\ cmd \in SelectShape(cmd)
  BY SelectIsSelect
<1>2. UNCHANGED <<saved, table, whole>>
  BY DEF SelectStep, SelectWithoutIndex, ScanOpens, ScanRow, ScanReadFails, ScanEnds,
         SelectOpensIndex, SelectLocates, SelectReads, SelectSkips, SelectOpensTable,
         SelectRow, SelectReadFails, IndexEnds, vars, Open, LocateCall, SeekDown, SeekLeaf,
         ReadForward, Abandon
<1>3. cmd'.call = "select" /\ cmd'.q = cmd.q
  BY <1>1 DEF SelectShape, SelectStep, SelectWithoutIndex, ScanOpens, ScanRow, ScanReadFails,
         ScanEnds, SelectOpensIndex, SelectLocates, SelectReads, SelectSkips, SelectOpensTable,
         SelectRow, SelectReadFails, IndexEnds, Goto, Returns, TableCannot, OpensFile
<1> QED BY <1>1, <1>2, <1>3

LEMMA CompleteKept == EInv /\ Complete /\ [EngineNext]_allVars => Complete'
<1> SUFFICES ASSUME EInv, Complete, [EngineNext]_allVars, whole' PROVE Complete'
  BY DEF Complete
<1>1. Stepped
  BY EngineSteps
<1>2. CASE UNCHANGED allVars
  BY <1>2 DEF allVars, engineVars, vars, Complete, Rows
<1>3. CASE \E file \in LoadFiles, index \in BOOLEAN : LoadCall(file, index)
  <2>1. PICK file \in LoadFiles, index \in BOOLEAN : LoadCall(file, index)
    BY <1>3
  <2>2. cmd'.call = "load" /\ cmd'.pc = "table" /\ cmd'.index = index /\ Ready /\ whole /\ index
    BY <2>1 DEF LoadCall, Call
  <2>3. saved' = saved /\ Rows' = Rows
    BY <2>1 DEF LoadCall, vars, Rows
  <2>4. saved = Rows
    BY <2>2 DEF Complete, Ready, EInv, Commands, LoadShape, SelectShape
  <2> QED BY <2>2, <2>3, <2>4 DEF Complete
<1>4. CASE \E q \in Queries : SelectCall(q)
  <2>1. PICK q \in Queries : SelectCall(q)
    BY <1>4
  <2>2. cmd'.call = "select" /\ Ready /\ whole
    BY <2>1 DEF SelectCall, Call
  <2>3. saved' = saved /\ Rows' = Rows
    BY <2>1 DEF SelectCall, vars, Rows
  <2>4. saved = Rows
    BY <2>2 DEF Complete, Ready, EInv, Commands, LoadShape, SelectShape
  <2> QED BY <2>2, <2>3, <2>4 DEF Complete
<1>5. CASE LoadStep
  BY <1>1, <1>5, CompleteInLoad
<1>6. CASE SelectStep
  <2>1. cmd.call = "select" /\ cmd'.call = "select" /\ saved' = saved /\ Rows' = Rows /\ whole
    BY <1>6, SelectSaves DEF Rows
  <2> QED BY <2>1 DEF Complete
<1>7. CASE Kill
  <2>1. cmd'.call = "none" /\ whole /\ (Ready \/ cmd.call = "select")
    BY <1>7 DEF Kill, NoCommand
  <2>2. saved' = saved /\ Rows' = Rows
    BY <1>7 DEF Kill, Abandon, vars, Rows
  <2>3. saved = Rows
    BY <2>1 DEF Complete, Ready, EInv, Commands, LoadShape, SelectShape
  <2> QED BY <2>1, <2>2, <2>3 DEF Complete
<1> QED BY <1>2, <1>3, <1>4, <1>5, <1>6, <1>7 DEF EngineNext

\* As long as every load was WITH INDEX, and none failed or was killed, what the
\* closes have saved in the index are the rows of the table, for every series of
\* load files (SqlEngine.cc:339-367).
THEOREM IndexedLoadsAreComplete == EngineSpec => []IndexIsComplete
<1>1. EngineInit => Complete
  BY DEF EngineInit, Init, Complete, NoCommand, Rows
<1>2. EInv /\ Complete => IndexIsComplete
  BY DEF IndexIsComplete, Complete, Ready, EInv, Commands, LoadShape, SelectShape
<1> QED BY <1>1, <1>2, CompleteKept, EngineInductive, PTL DEF EngineSpec

-----------------------------------------------------------------------------
(* Where the table is open, and where it is not.                           *)

Closing ==
  /\ cmd.call = "select" /\ cmd.pc \in {"index", "table", "done"} => "tbl" \notin cmd.held
  /\ cmd.call = "load" /\ cmd.pc = "done" /\ cmd.rc = "OK" => "tbl" \notin cmd.held

LEMMA LoadStaysLoad == EInv /\ LoadStep => cmd'.call = "load"
BY LoadIsLoad DEF LoadShape, LoadStep, LoadOpensTable, LoadOpensIndex, LoadCannotOpen,
     LoadAppends, LoadInserts, LoadGivesUp, LoadEnds, LoadEndsUnsaved, Goto, Returns, OpensFile

LEMMA LoadsClose ==
  ASSUME EInv, Closing, LoadStep
  PROVE  Closing'
<1>1. cmd.call = "load" /\ cmd \in LoadShape(cmd)
  BY LoadIsLoad
<1>2. cmd'.call = "load"
  BY LoadStaysLoad
<1>3. CASE LoadOpensTable \/ LoadOpensIndex \/ LoadAppends \/ LoadInserts
  <2>1. cmd'.pc # "done"
    BY <1>1, <1>3 DEF LoadShape, LoadOpensTable, LoadOpensIndex, LoadAppends, LoadInserts, Goto,
                      OpensFile
  <2> QED BY <1>2, <2>1 DEF Closing
<1>4. CASE LoadCannotOpen \/ LoadGivesUp
  <2>1. cmd'.rc # "OK"
    BY <1>1, <1>4 DEF LoadShape, LoadCannotOpen, LoadGivesUp, Returns
  <2> QED BY <1>2, <2>1 DEF Closing
<1>5. CASE LoadEnds
  <2>1. cmd'.held = cmd.held \ {"tbl", "idx"}
    BY <1>1, <1>5 DEF LoadShape, LoadEnds, Returns
  <2> QED BY <1>2, <2>1 DEF Closing
<1>6. CASE LoadEndsUnsaved
  <2>1. cmd'.pc = "unsaved" \/ cmd'.held = cmd.held \ {"tbl"}
    BY <1>1, <1>6 DEF LoadShape, LoadEndsUnsaved, Goto, Returns
  <2> QED BY <1>2, <2>1 DEF Closing
<1> QED BY <1>3, <1>4, <1>5, <1>6 DEF LoadStep

LEMMA SelectsClose ==
  ASSUME EInv, Closing, SelectStep
  PROVE  Closing'
<1>1. cmd.call = "select" /\ cmd \in SelectShape(cmd)
  BY SelectIsSelect
<1>2. cmd'.call = "select"
  BY SelectSaves
<1>3. CASE ScanRow \/ SelectOpensIndex \/ SelectLocates \/ SelectReads \/ SelectSkips \/ SelectRow
  <2>1. cmd'.pc \notin {"index", "table", "done"}
    BY <1>1, <1>3 DEF SelectShape, ScanRow, SelectOpensIndex, SelectLocates, SelectReads,
                      SelectSkips, SelectRow, Goto
  <2> QED BY <1>2, <2>1 DEF Closing
<1>4. CASE SelectWithoutIndex
  <2>1. cmd'.held = cmd.held \/ cmd'.held = cmd.held \cup {"idx"}
    BY <1>1, <1>4 DEF SelectShape, SelectWithoutIndex, Goto, OpensFile
  <2>2. "tbl" \notin cmd.held
    BY <1>1, <1>4 DEF SelectWithoutIndex, Closing
  <2> QED BY <1>2, <2>1, <2>2 DEF Closing
<1>5. CASE ScanOpens
  <2>1. "tbl" \notin cmd.held
    BY <1>1, <1>5 DEF ScanOpens, Closing
  <2>2. cmd'.pc = "scan" \/ cmd'.held = cmd.held \ {}
    BY <1>1, <1>5 DEF SelectShape, ScanOpens, Returns, TableCannot
  <2> QED BY <1>2, <2>1, <2>2 DEF Closing
<1>6. CASE SelectOpensTable
  <2>1. cmd'.pc = "row" \/ cmd'.held = cmd.held \ {}
    BY <1>1, <1>6 DEF SelectShape, SelectOpensTable, OpensFile, Returns, TableCannot
  <2>2. "tbl" \notin cmd.held
    BY <1>6 DEF SelectOpensTable
  <2> QED BY <1>2, <2>1, <2>2 DEF Closing
<1>7. CASE ScanReadFails \/ ScanEnds \/ SelectReadFails \/ IndexEnds
  <2>1. cmd'.held = cmd.held \ {"tbl"}
    BY <1>1, <1>7 DEF SelectShape, ScanReadFails, ScanEnds, SelectReadFails, IndexEnds, Returns
  <2> QED BY <1>2, <2>1 DEF Closing
<1> QED BY <1>3, <1>4, <1>5, <1>6, <1>7 DEF SelectStep

LEMMA ClosingKept == EInv /\ Closing /\ [EngineNext]_allVars => Closing'
<1> SUFFICES ASSUME EInv, Closing, [EngineNext]_allVars PROVE Closing'
  OBVIOUS
<1>1. CASE UNCHANGED allVars
  BY <1>1 DEF allVars, engineVars, Closing
<1>2. CASE \E file \in LoadFiles, index \in BOOLEAN : LoadCall(file, index)
  BY <1>2 DEF LoadCall, Call, Closing
<1>3. CASE \E q \in Queries : SelectCall(q)
  <2>1. cmd'.held = {} /\ cmd'.call = "select"
    BY <1>3 DEF SelectCall, Call
  <2> QED BY <2>1 DEF Closing
<1>4. CASE Kill
  BY <1>4 DEF Kill, NoCommand, Closing
<1> QED BY <1>1, <1>2, <1>3, <1>4, LoadsClose, SelectsClose DEF EngineNext

\* However a select ends, and if a load succeeds, the table it opened is closed
\* (SqlEngine.cc:302-304, :382).
THEOREM TablesAreClosed == EngineSpec => []TableIsClosed
<1>1. EngineInit => Closing
  BY DEF EngineInit, Closing, NoCommand
<1>2. EInv /\ Closing => TableIsClosed
  BY DEF EInv, Commands, NoCommand, Closing, TableIsClosed
<1> QED BY <1>1, <1>2, ClosingKept, EngineInductive, PTL DEF EngineSpec

-----------------------------------------------------------------------------
(* The scan: what has been printed are the rows it came past that pass.    *)

Hit(r) == \A i \in DOMAIN cmd.q.conds : ScanPasses(table[r + 1], cmd.q.conds[i])
LineOf(r) == Line(r, table[r + 1])

Scanned ==
  cmd.call = "select" =>
    /\ cmd.pc \in {"index", "table"} => cmd.path = "none" /\ cmd.at = 0 /\ cmd.printed = <<>>
    /\ cmd.path = "none" => cmd.pc \in {"index", "table", "done"} /\ cmd.printed = <<>>
    /\ cmd.path = "scan" =>
         /\ cmd.pc \in {"scan", "done"} /\ cmd.at \in 0..Len(table)
         /\ cmd.printed \in Seq({LineOf(r) : r \in 0..(cmd.at - 1)})
         /\ {cmd.printed[i].rid : i \in 1..Len(cmd.printed)} = {r \in 0..(cmd.at - 1) : Hit(r)}
         /\ \A i, j \in 1..Len(cmd.printed) :
              i < j => cmd.printed[i].rid < cmd.printed[j].rid
         /\ cmd.pc = "done" /\ cmd.rc = "OK" => cmd.at = Len(table)
    /\ cmd.pc = "scan" => cmd.path = "scan"

\* What has been printed of the rows S are the lines f[r], in order, of those in H.
PrintedOf(printed, S, f, H) ==
  /\ printed \in Seq({f[r] : r \in S})
  /\ {printed[i].rid : i \in 1..Len(printed)} = {r \in S : r \in H}
  /\ \A i, j \in 1..Len(printed) : i < j => printed[i].rid < printed[j].rid

\* One more row.
LEMMA PrintedOn ==
  ASSUME NEW n \in Nat, NEW printed, NEW f, NEW H, PrintedOf(printed, 0..(n - 1), f, H),
         \A r \in 0..n : f[r].rid = r
  PROVE  PrintedOf(IF n \in H THEN Append(printed, f[n]) ELSE printed, 0..n, f, H)
<1> DEFINE new == IF n \in H THEN Append(printed, f[n]) ELSE printed
<1> SUFFICES /\ new \in Seq({f[r] : r \in 0..n})
             /\ {new[i].rid : i \in 1..Len(new)} = {r \in 0..n : r \in H}
             /\ \A i, j \in 1..Len(new) : i < j => new[i].rid < new[j].rid
  BY DEF PrintedOf
<1>0. /\ printed \in Seq({f[r] : r \in 0..(n - 1)})
      /\ {printed[i].rid : i \in 1..Len(printed)} = {r \in 0..(n - 1) : r \in H}
      /\ \A i, j \in 1..Len(printed) : i < j => printed[i].rid < printed[j].rid
  BY DEF PrintedOf
<1> DEFINE Old == {f[r] : r \in 0..(n - 1)}
           New == {f[r] : r \in 0..n}
           k   == Len(printed)
<1>1. Old \subseteq New
  OBVIOUS
<1>2. printed \in Seq(New) /\ f[n] \in New
  BY <1>0, <1>1, SeqMonotonic
<1>3. k \in Nat
  BY <1>0
<1>4. \A i \in 1..k : printed[i].rid \in 0..(n - 1)
  BY <1>0
<1>5. \A r : (\E i \in 1..k : r = printed[i].rid) <=> (r \in 0..(n - 1) /\ r \in H)
  BY <1>0
<1>6. f[n].rid = n
  OBVIOUS
<1>7. CASE n \notin H
  <2>1. new = printed /\ n \notin H
    BY <1>7
  <2>2. \A r : (r \in 0..n /\ r \in H) <=> (r \in 0..(n - 1) /\ r \in H)
    BY <2>1
  <2> QED BY <1>0, <1>2, <2>1, <2>2
<1>8. CASE n \in H
  <2>1. new = Append(printed, f[n]) /\ n \in H
    BY <1>8
  <2> HIDE DEF New
  <2>2. /\ new \in Seq(New) /\ Len(new) = k + 1 /\ new[k + 1] = f[n]
        /\ \A i \in 1..k : new[i] = printed[i]
    BY <1>2, <2>1, AppendProperties
  <2> HIDE DEF k
  <2>3. \A i \in 1..(k + 1) : i \in 1..k \/ i = k + 1
    BY <1>3
  <2>4. \A r : (\E i \in 1..(k + 1) : r = new[i].rid) <=> (r \in 0..n /\ r \in H)
    <3>1. \A r : (r \in 0..n /\ r \in H) <=> ((r \in 0..(n - 1) /\ r \in H) \/ r = n)
      BY <2>1
    <3>2. \A r : (\E i \in 1..(k + 1) : r = new[i].rid)
                 <=> ((\E i \in 1..k : r = printed[i].rid) \/ r = n)
      BY <1>3, <1>6, <2>2, <2>3
    <3> QED BY <1>5, <3>1, <3>2
  <2>5. {new[i].rid : i \in 1..Len(new)} = {r \in 0..n : r \in H}
    BY <2>2, <2>4
  <2>6. \A i, j \in 1..Len(new) : i < j => new[i].rid < new[j].rid
    <3> SUFFICES ASSUME NEW i \in 1..(k + 1), NEW j \in 1..(k + 1), i < j
                 PROVE  new[i].rid < new[j].rid
      BY <2>2
    <3>1. i \in 1..k
      BY <1>3
    <3>2. CASE j \in 1..k
      BY <1>0, <2>2, <3>1, <3>2 DEF k
    <3>3. CASE j = k + 1
      BY <1>4, <1>6, <2>2, <3>1, <3>3 DEF k
    <3> QED BY <2>3, <3>2, <3>3
  <2> QED BY <2>2, <2>5, <2>6 DEF New
<1> QED BY <1>7, <1>8

\* Hits and lines do not change while the query and the table do not.
LEMMA SameScan ==
  ASSUME cmd'.q = cmd.q, table' = table
  PROVE  \A r : (Hit(r)' <=> Hit(r)) /\ LineOf(r)' = LineOf(r)
BY DEF Hit, LineOf, Line

LEMMA LineRid == \A r : LineOf(r).rid = r
BY DEF LineOf, Line

LEMMA ScannedOn ==
  ASSUME EInv, Scanned, ScanRow
  PROVE  Scanned'
<1> DEFINE n    == cmd.at
           f    == [r \in 0..n |-> LineOf(r)]
           H    == {r \in 0..n : Hit(r)}
           ok   == \A i \in DOMAIN cmd.q.conds : ScanPasses(table[n + 1], cmd.q.conds[i])
           new  == IF ok THEN Append(cmd.printed, f[n]) ELSE cmd.printed
<1>1. cmd.call = "select" /\ cmd \in SelectShape(cmd)
  BY SelectIsSelect DEF SelectStep
<1>2. cmd'.call = "select" /\ cmd'.q = cmd.q /\ table' = table
  BY SelectSaves DEF SelectStep
<1>3. cmd.pc = "scan" /\ cmd.path = "scan" /\ n \in Nat /\ n < Len(table)
  BY <1>1 DEF Scanned, ScanRow, SelectShape
<1>4. /\ cmd.printed \in Seq({LineOf(r) : r \in 0..(n - 1)})
      /\ {cmd.printed[i].rid : i \in 1..Len(cmd.printed)} = {r \in 0..(n - 1) : Hit(r)}
      /\ \A i, j \in 1..Len(cmd.printed) : i < j => cmd.printed[i].rid < cmd.printed[j].rid
  BY <1>1, <1>3 DEF Scanned
<1>5. cmd' = [cmd EXCEPT !.at = n + 1, !.printed = new]
  <2>1. f[n] = Line(n, table[n + 1])
    BY <1>3 DEF LineOf
  <2> HIDE DEF f
  <2> QED BY <1>3, <2>1 DEF ScanRow
<1>6. cmd'.at = n + 1 /\ cmd'.printed = new /\ cmd'.pc = "scan" /\ cmd'.path = "scan"
  BY <1>1, <1>3, <1>5 DEF SelectShape
<1>7. \A r \in 0..n : f[r] = LineOf(r) /\ f[r].rid = r
  BY LineRid
<1>8. new = IF n \in H THEN Append(cmd.printed, f[n]) ELSE cmd.printed
  BY <1>3 DEF Hit
<1> HIDE DEF new, ok, f
<1>9. /\ new \in Seq({LineOf(r) : r \in 0..n})
      /\ {new[i].rid : i \in 1..Len(new)} = {r \in 0..n : Hit(r)}
      /\ \A i, j \in 1..Len(new) : i < j => new[i].rid < new[j].rid
  <2>1. {f[r] : r \in 0..(n - 1)} = {LineOf(r) : r \in 0..(n - 1)}
    BY <1>3, <1>7
  <2>2. {f[r] : r \in 0..n} = {LineOf(r) : r \in 0..n}
    BY <1>3, <1>7
  <2>3. {r \in 0..(n - 1) : r \in H} = {r \in 0..(n - 1) : Hit(r)}
    BY <1>3
  <2>4. {r \in 0..n : r \in H} = {r \in 0..n : Hit(r)}
    BY <1>3
  <2> HIDE DEF n, H
  <2>5. PrintedOf(cmd.printed, 0..(n - 1), f, H)
    BY <1>4, <2>1, <2>3 DEF PrintedOf
  <2>6. PrintedOf(new, 0..n, f, H)
    BY <1>3, <1>7, <1>8, <2>5, PrintedOn
  <2> QED BY <2>2, <2>4, <2>6 DEF PrintedOf
<1>10. \A r : (Hit(r)' <=> Hit(r)) /\ LineOf(r)' = LineOf(r)
  BY <1>2, SameScan
<1>11. /\ {LineOf(r)' : r \in 0..(cmd'.at - 1)} = {LineOf(r) : r \in 0..n}
       /\ {r \in 0..(cmd'.at - 1) : Hit(r)'} = {r \in 0..n : Hit(r)}
  <2>1. cmd'.at - 1 = n
    BY <1>3, <1>6
  <2> QED BY <1>10, <2>1
<1>12. cmd'.at \in 0..Len(table')
  BY <1>2, <1>3, <1>6
<1> QED BY <1>2, <1>6, <1>9, <1>11, <1>12 DEF Scanned

LEMMA ScannedInSelect ==
  ASSUME EInv, Scanned, SelectStep
  PROVE  Scanned'
<1>1. cmd.call = "select" /\ cmd \in SelectShape(cmd)
  BY SelectIsSelect
<1>2. cmd'.call = "select" /\ cmd'.q = cmd.q /\ table' = table
  BY SelectSaves
<1>3. Len(table) \in Nat
  BY DEF EInv
<1>4. CASE SelectWithoutIndex
  <2>1. /\ cmd'.pc = "table" /\ cmd.pc = "index" /\ cmd'.path = cmd.path /\ cmd'.at = cmd.at
        /\ cmd'.printed = cmd.printed
    BY <1>1, <1>4 DEF SelectShape, SelectWithoutIndex, Goto, OpensFile
  <2> QED BY <1>1, <2>1 DEF Scanned
<1>5. CASE ScanOpens
  <2>1. cmd.path = "none" /\ cmd.at = 0 /\ cmd.printed = <<>>
    BY <1>1, <1>5 DEF ScanOpens, Scanned
  <2>2. /\ cmd'.at = 0 /\ cmd'.printed = <<>>
        /\ \/ cmd'.pc = "scan" /\ cmd'.path = "scan"
           \/ cmd'.pc = "done" /\ cmd'.path = "none"
    BY <1>1, <1>5, <2>1 DEF SelectShape, ScanOpens, Returns, TableCannot
  <2>3. 0 \in 0..Len(table') /\ 0..(0 - 1) = {} /\ 1..Len(<<>>) = {}
    BY <1>2, <1>3
  <2>4. <<>> \in Seq({LineOf(r)' : r \in 0..(0 - 1)})
    OBVIOUS
  <2> QED BY <2>2, <2>3, <2>4 DEF Scanned
<1>6. CASE ScanRow
  BY <1>6, ScannedOn
<1>7. CASE ScanReadFails \/ ScanEnds
  <2>1. cmd.pc = "scan" /\ cmd.path = "scan"
    BY <1>1, <1>7 DEF ScanReadFails, ScanEnds, Scanned
  <2>2. /\ cmd'.pc = "done" /\ cmd'.path = "scan" /\ cmd'.at = cmd.at
        /\ cmd'.printed = cmd.printed
        /\ cmd'.rc # "OK" \/ cmd.at = Len(table)
    BY <1>1, <1>7, <2>1 DEF SelectShape, ScanReadFails, ScanEnds, Returns
  <2>3. \A r : (Hit(r)' <=> Hit(r)) /\ LineOf(r)' = LineOf(r)
    BY <1>2, SameScan
  <2>4. /\ {LineOf(r)' : r \in 0..(cmd'.at - 1)} = {LineOf(r) : r \in 0..(cmd.at - 1)}
        /\ {r \in 0..(cmd'.at - 1) : Hit(r)'} = {r \in 0..(cmd.at - 1) : Hit(r)}
    BY <2>2, <2>3
  <2> QED BY <1>1, <1>2, <2>1, <2>2, <2>4 DEF Scanned
<1>8. CASE SelectOpensIndex
  <2>1. cmd'.pc = "locate" /\ cmd'.path = "index"
    BY <1>1, <1>8 DEF SelectShape, SelectOpensIndex
  <2> QED BY <2>1 DEF Scanned
<1>9. CASE SelectLocates \/ SelectReads \/ SelectSkips \/ SelectOpensTable \/ SelectRow
           \/ SelectReadFails \/ IndexEnds
  <2>1. cmd.pc \notin {"index", "table", "scan", "done"}
    BY <1>9 DEF SelectLocates, SelectReads, SelectSkips, SelectOpensTable, SelectRow,
                SelectReadFails, IndexEnds, InRange
  <2>2. cmd'.path = cmd.path /\ cmd'.pc \notin {"index", "table", "scan"}
    BY <1>1, <1>9 DEF SelectShape, SelectLocates, SelectReads, SelectSkips, SelectOpensTable,
                SelectRow, SelectReadFails, IndexEnds, Goto, Returns, TableCannot, OpensFile
  <2> QED BY <1>1, <2>1, <2>2 DEF Scanned
<1> QED BY <1>4, <1>5, <1>6, <1>7, <1>8, <1>9 DEF SelectStep

LEMMA ScannedKept == EInv /\ Scanned /\ [EngineNext]_allVars => Scanned'
<1> SUFFICES ASSUME EInv, Scanned, [EngineNext]_allVars PROVE Scanned'
  OBVIOUS
<1>1. CASE UNCHANGED allVars
  <2>1. cmd' = cmd /\ table' = table
    BY <1>1 DEF allVars, engineVars
  <2>2. \A r : (Hit(r)' <=> Hit(r)) /\ LineOf(r)' = LineOf(r)
    BY <2>1, SameScan
  <2> QED BY <2>1, <2>2 DEF Scanned
<1>2. CASE \E file \in LoadFiles, index \in BOOLEAN : LoadCall(file, index)
  <2>1. cmd'.call = "load"
    BY <1>2 DEF LoadCall, Call
  <2> QED BY <2>1 DEF Scanned
<1>3. CASE \E q \in Queries : SelectCall(q)
  <2>1. cmd'.path = "none" /\ cmd'.at = 0 /\ cmd'.printed = <<>> /\ cmd'.pc \in {"index", "table", "done"}
    BY <1>3 DEF SelectCall, Call
  <2> QED BY <2>1 DEF Scanned
<1>4. CASE LoadStep
  <2>1. cmd'.call = "load"
    BY <1>4, LoadStaysLoad
  <2> QED BY <2>1 DEF Scanned
<1>5. CASE SelectStep
  BY <1>5, ScannedInSelect
<1>6. CASE Kill
  <2>1. cmd'.call = "none"
    BY <1>6 DEF Kill, NoCommand
  <2> QED BY <2>1 DEF Scanned
<1> QED BY <1>1, <1>2, <1>3, <1>4, <1>5, <1>6 DEF EngineNext

\* A difference that an int holds is compared as it is.
LEMMA ScanTellsRight ==
  ASSUME NEW r \in 0..(Len(table) - 1), table \in Seq(RowType), cmd.q \in Queries, NoOverflow
  PROVE  Hit(r) <=> Wanted(r)
<1> SUFFICES ASSUME NEW i \in DOMAIN cmd.q.conds
             PROVE  ScanPasses(table[r + 1], cmd.q.conds[i])
                      <=> Satisfies(table[r + 1], cmd.q.conds[i])
  BY DEF Hit, Wanted
<1>1. r + 1 \in 1..Len(table)
  OBVIOUS
<1>2. CASE cmd.q.conds[i].attr = "key"
  <2>1. table[r + 1].key - cmd.q.conds[i].value \in IntMin..IntMax
    BY <1>1, <1>2 DEF NoOverflow
  <2>2. \A d \in IntMin..IntMax : Wrap(d) = d
    BY Ints DEF Wrap
  <2>3. Wrap(table[r + 1].key - cmd.q.conds[i].value) = table[r + 1].key - cmd.q.conds[i].value
    BY <2>1, <2>2
  <2> QED BY <1>2, <2>3 DEF ScanPasses, Satisfies
<1>3. CASE cmd.q.conds[i].attr # "key"
  BY <1>3 DEF ScanPasses, Satisfies
<1> QED BY <1>2, <1>3

\* Whatever the commands before, a scan that ends prints the rows that satisfy
\* every condition, each once and in the order of the table, as long as no
\* difference of keys overflows (SqlEngine.cc:127-181).
THEOREM ScansAnswer == EngineSpec => []ScanIsAnswer
<1>1. EngineInit => Scanned
  BY DEF EngineInit, Scanned, NoCommand
<1>2. EInv /\ Scanned => ScanIsAnswer
  <2> SUFFICES ASSUME EInv, Scanned, Answered("scan"), NoOverflow
               PROVE  Answers(WantedRows, LAMBDA r, s : r < s)
    BY DEF ScanIsAnswer
  <2> DEFINE printed == cmd.printed
  <2>1. cmd \in SelectShape(cmd) /\ cmd.at = Len(table) /\ cmd.path = "scan"
        /\ cmd.call = "select"
    BY DEF Answered, Scanned, EInv, Commands
  <2>2. /\ printed \in Seq({LineOf(r) : r \in 0..(Len(table) - 1)})
        /\ {printed[i].rid : i \in 1..Len(printed)} = {r \in 0..(Len(table) - 1) : Hit(r)}
        /\ \A i, j \in 1..Len(printed) : i < j => printed[i].rid < printed[j].rid
    BY <2>1 DEF Scanned
  <2>3. table \in Seq(RowType) /\ cmd.q \in Queries
    BY <2>1 DEF EInv, SelectShape
  <2>4. {r \in 0..(Len(table) - 1) : Hit(r)} = WantedRows
    BY <2>3, ScanTellsRight DEF WantedRows
  <2>5. DOMAIN printed = 1..Len(printed)
    BY <2>2
  <2>6. \A i \in DOMAIN printed : printed[i] = Line(printed[i].rid, table[printed[i].rid + 1])
    <3> SUFFICES ASSUME NEW i \in DOMAIN printed
                 PROVE  printed[i] = Line(printed[i].rid, table[printed[i].rid + 1])
      OBVIOUS
    <3>1. PICK r \in 0..(Len(table) - 1) : printed[i] = LineOf(r)
      BY <2>2, <2>5, SMTT(30)
    <3>2. printed[i].rid = r
      BY <3>1, LineRid
    <3> QED BY <3>1, <3>2 DEF LineOf
  <2> QED BY <2>2, <2>4, <2>5, <2>6 DEF Answers
<1> QED BY <1>1, <1>2, ScannedKept, EngineInductive, PTL DEF EngineSpec

-----------------------------------------------------------------------------
(* The index path: a row is printed when the cursor comes past its entry,  *)
(* and the cursor comes past each entry once.                              *)

OncePrinted(printed) ==
  /\ \E S : printed \in Seq(S)
  /\ \A i, j \in 1..Len(printed) : printed[i].rid = printed[j].rid => i = j

\* The entries of what was printed are behind the cursor.
PrintedPast(rank, d, c, printed) ==
  \A i \in 1..Len(printed) : \E x : Past(rank, d, c, x) /\ printed[i].rid = x.rid

\* A row from which select reads on.
OnRow(c) == c.pc = "row" /\ c.status = "OK"

\* Where a select on the index path is, for the pages live of the tree and the
\* ranks of the leaves on the chain.
Reading(live, rank) ==
  cmd.call = "select" /\ cmd.path = "index" =>
    /\ cmd.pc \in {"locate", "seek", "first", "again", "row", "next", "end", "done"}
    /\ OncePrinted(cmd.printed)
    /\ cmd.pc \in {"locate", "seek", "first", "again"} => cmd.printed = <<>>
    /\ cmd.pc = "seek" => op.at \in live
    /\ cmd.pc \in {"first", "again", "row", "next"} =>
         cursor \in [pid : DOMAIN rank, eid : Nat] \cup {NoCursor}
    /\ cmd.pc \in {"again", "next"} \/ OnRow(cmd) => AtEntry(rank, disk, cursor)
    /\ cmd.pc = "next" \/ OnRow(cmd) => PrintedPast(rank, disk, cursor, cmd.printed)
    /\ cmd.pc = "row" => \A i \in 1..Len(cmd.printed) : cmd.printed[i].rid # cmd.entry.rid
    /\ OnRow(cmd) => Past(rank, disk, cursor, cmd.entry)

\* An entry of the chain is a row, and its rid tells which.
LEMMA ChainRows ==
  ASSUME EInv, RowLeaves, NEW live, NEW spine, NEW rank, Chained(live, spine, rank)
  PROVE  /\ \A p \in DOMAIN rank : disk[p].ents \in Seq(Rows)
         /\ \A x, y \in Rows : x.rid = y.rid => x = y
<1>1. \A p \in DOMAIN rank : p \in DOMAIN disk /\ disk[p].kind = "leaf"
  <2>1. Typed
    BY IsTyped DEF EInv
  <2>2. DOMAIN rank \subseteq Pages(size) /\ size \in Nat /\ Strung(rank, disk, size)
    BY <2>1, ChainPages
  <2>3. Pages(size) \subseteq DOMAIN disk
    BY <2>1 DEF Typed, Pages
  <2> QED BY <2>2, <2>3 DEF Strung, LeafNode
<1>2. \A p \in DOMAIN rank : disk[p].ents \in Seq(Rows)
  <2> HIDE DEF Rows
  <2> QED BY <1>1 DEF RowLeaves, LeavesOf
<1>3. ASSUME NEW x \in Rows, NEW y \in Rows, x.rid = y.rid PROVE x = y
  <2>1. PICK i \in 1..Len(table) : x = [key |-> table[i].key, rid |-> i - 1]
    BY DEF Rows
  <2>2. PICK j \in 1..Len(table) : y = [key |-> table[j].key, rid |-> j - 1]
    BY DEF Rows
  <2>3. i = j
    BY <1>3, <2>1, <2>2
  <2> QED BY <2>1, <2>2, <2>3
<1> QED BY <1>2, <1>3

\* The lines of new are those of printed and one more.
LinesOf(new, printed, line) ==
  \A i \in 1..Len(new) : new[i] = line \/ \E j \in 1..Len(printed) : new[i] = printed[j]

\* One more line, of another row.
LEMMA OneMoreLine ==
  ASSUME NEW printed, OncePrinted(printed), NEW line,
         \A i \in 1..Len(printed) : printed[i].rid # line.rid,
         NEW new, new = Append(printed, line)
  PROVE  OncePrinted(new) /\ LinesOf(new, printed, line)
<1>1. PICK S : printed \in Seq(S)
  BY DEF OncePrinted
<1> DEFINE T == S \cup {line}
           n == Len(printed)
<1>2. printed \in Seq(T) /\ line \in T
  <2>1. S \subseteq T
    OBVIOUS
  <2> QED BY <1>1, <2>1, SeqMonotonic
<1> HIDE DEF T
<1>3. /\ new \in Seq(T) /\ Len(new) = n + 1 /\ new[n + 1] = line
      /\ \A i \in 1..n : new[i] = printed[i]
  BY <1>2, AppendProperties
<1>4. n \in Nat
  BY <1>1
<1> HIDE DEF n
<1>5. \A i \in 1..(n + 1) : i \in 1..n \/ i = n + 1
  BY <1>4
<1>6. \A i, j \in 1..(n + 1) : new[i].rid = new[j].rid => i = j
  BY <1>3, <1>4, <1>5 DEF OncePrinted, n
<1> QED BY <1>3, <1>5, <1>6 DEF OncePrinted, LinesOf, n


\* The steps of a select that leave the index path, or do not come to it.
LEMMA OffPath ==
  ASSUME EInv, Scanned, SelectWithoutIndex \/ ScanOpens \/ ScanRow \/ ScanReadFails \/ ScanEnds
  PROVE  cmd'.path # "index"
<1>1. cmd.call = "select" /\ cmd \in SelectShape(cmd)
  BY SelectIsSelect DEF SelectStep
<1>2. CASE SelectWithoutIndex
  <2>1. cmd.path = "none" /\ cmd'.path = cmd.path
    BY <1>1, <1>2 DEF SelectWithoutIndex, Goto, OpensFile, SelectShape, Scanned
  <2> QED BY <2>1
<1>3. CASE ScanOpens
  <2>1. cmd.path = "none"
    BY <1>1, <1>3 DEF ScanOpens, Scanned
  <2>2. cmd'.path \in {"scan", cmd.path}
    BY <1>1, <1>3 DEF ScanOpens, Returns, TableCannot, SelectShape
  <2> QED BY <2>1, <2>2
<1>4. CASE ScanRow \/ ScanReadFails \/ ScanEnds
  <2>1. cmd.path = "scan"
    BY <1>1, <1>4 DEF ScanRow, ScanReadFails, ScanEnds, Scanned
  <2>2. cmd'.path = cmd.path
    BY <1>1, <1>4 DEF ScanRow, ScanReadFails, ScanEnds, Returns, SelectShape
  <2> QED BY <2>1, <2>2
<1> QED BY <1>2, <1>3, <1>4

LEMMA OpensReading ==
  ASSUME EInv, Scanned, NEW live, NEW rank, SelectOpensIndex
  PROVE  Reading(live, rank)'
<1>1. cmd.call = "select" /\ cmd \in SelectShape(cmd)
  BY SelectIsSelect DEF SelectStep
<1>2. cmd.printed = <<>>
  BY <1>1 DEF SelectOpensIndex, Scanned
<1>3. cmd'.pc = "locate" /\ cmd'.printed = cmd.printed
  BY <1>1 DEF SelectOpensIndex, SelectShape
<1>4. OncePrinted(<<>>)
  BY EmptySeq DEF OncePrinted
<1> QED BY <1>2, <1>3, <1>4 DEF Reading, OnRow

LEMMA LocatesReading ==
  ASSUME EInv, NEW live, NEW spine, NEW rank, Chained(live, spine, rank), Reading(live, rank),
         SelectLocates
  PROVE  Reading(live, rank)'
<1>1. cmd.call = "select" /\ cmd \in SelectShape(cmd)
  BY SelectIsSelect DEF SelectStep
<1>2. cmd.pc \in {"locate", "seek"} /\ cmd' = [cmd EXCEPT !.pc = IF op' = Idle THEN "first" ELSE "seek"]
  BY DEF SelectLocates, Goto
<1>3. /\ cmd'.path = cmd.path /\ cmd'.printed = cmd.printed
      /\ cmd'.pc = IF op' = Idle THEN "first" ELSE "seek"
  BY <1>1, <1>2 DEF SelectShape
<1> SUFFICES ASSUME cmd.path = "index" PROVE Reading(live, rank)'
  BY <1>3 DEF Reading
<1>4. cmd.printed = <<>> /\ OncePrinted(cmd.printed) /\ (cmd.pc = "seek" => op.at \in live)
  BY <1>1, <1>2 DEF Reading
<1>5. /\ cmd'.pc = "seek" => op'.at \in live
      /\ cmd'.pc = "first" => cursor' \in [pid : DOMAIN rank, eid : Nat] \cup {NoCursor}
  <2>0. /\ obj.height > 0 => obj.root \in live
        /\ op.at \in live /\ SeekDown => op'.at \in live
        /\ op.at \in live /\ SeekLeaf => cursor' \in [pid : DOMAIN rank, eid : Nat]
    BY SeekBelow DEF EInv
  <2>1. CASE cmd.pc = "locate"
    <3>1. LocateCall(cmd.start) /\ cursor' = NoCursor
      BY <1>2, <2>1 DEF SelectLocates, LocateCall
    <3>2. op' # Idle => op'.at = obj.root /\ obj.height # 0
      BY <3>1 DEF LocateCall
    <3>3. obj.height \in Nat
      BY IsTyped DEF EInv, Typed, ObjType
    <3> QED BY <1>3, <2>0, <3>1, <3>2, <3>3
  <2>2. CASE cmd.pc = "seek"
    <3>1. SeekDown \/ SeekLeaf
      BY <2>2 DEF SelectLocates
    <3>2. SeekDown => op' # Idle
      <4>1. SeekDown => op'.pc = op.pc /\ op.pc = "seek"
        BY DEF SeekDown
      <4> QED BY <4>1 DEF Idle
    <3>3. SeekLeaf => op' = Idle
      BY DEF SeekLeaf
    <3> QED BY <1>3, <1>4, <2>0, <2>2, <3>1, <3>2, <3>3
  <2> QED BY <1>2, <2>1, <2>2
<1> QED BY <1>3, <1>4, <1>5 DEF Reading, OnRow

LEMMA ReadsReading ==
  ASSUME EInv, RowLeaves, NEW live, NEW spine, NEW rank, Chained(live, spine, rank),
         Once(DOMAIN rank, disk, op), Reading(live, rank), SelectReads
  PROVE  Reading(live, rank)'
<1> DEFINE leaf  == disk[cursor.pid]
           here  == cursor.eid < Len(leaf.ents)
           entry == leaf.ents[cursor.eid + 1]
<1>1. cmd.call = "select" /\ cmd \in SelectShape(cmd)
  BY SelectIsSelect DEF SelectStep
<1>2. /\ cmd.pc \in {"first", "again", "next"} /\ ReadForward /\ disk' = disk
      /\ cmd' = [cmd EXCEPT !.pc = IF ReadAgain(out'.rc) THEN "again" ELSE "row",
                            !.status = IF cmd.pc = "again" THEN "OK" ELSE out'.rc,
                            !.entry = IF out'.entry = NoEntry THEN @ ELSE out'.entry]
  BY DEF SelectReads, ReadForward
<1>3. /\ cmd'.path = cmd.path /\ cmd'.printed = cmd.printed
      /\ cmd'.pc = IF ReadAgain(out'.rc) THEN "again" ELSE "row"
      /\ cmd'.status = IF cmd.pc = "again" THEN "OK" ELSE out'.rc
      /\ cmd'.entry = IF out'.entry = NoEntry THEN cmd.entry ELSE out'.entry
  BY <1>1, <1>2 DEF SelectShape
<1> SUFFICES ASSUME cmd.path = "index" PROVE Reading(live, rank)'
  BY <1>3 DEF Reading
<1>4. /\ OncePrinted(cmd.printed) /\ (cmd.pc # "next" => cmd.printed = <<>>)
      /\ cmd.pc \in {"again", "next"} => AtEntry(rank, disk, cursor)
      /\ cmd.pc = "next" => PrintedPast(rank, disk, cursor, cmd.printed)
      /\ cursor \in [pid : DOMAIN rank, eid : Nat]
  <2>1. cursor # NoCursor
    BY <1>2 DEF ReadForward
  <2> QED BY <1>1, <1>2, <2>1 DEF Reading
<1>5. /\ cursor' = Advanced(cursor, leaf)
      /\ out'.rc \in {"RC_INVALID_CURSOR", IF here THEN "OK" ELSE "RC_NO_SUCH_RECORD"}
      /\ out'.entry = IF here THEN entry ELSE NoEntry
  BY <1>2 DEF ReadForward
<1>6. /\ cursor' \in [pid : DOMAIN rank, eid : Nat] \cup {NoCursor} /\ AtEntry(rank, disk, cursor')
      /\ \A x : Past(rank, disk, cursor, x) => Past(rank, disk, cursor', x)
      /\ here => Past(rank, disk, cursor', entry)
  BY <1>4, <1>5, CursorMoves
<1>7. cmd.pc \in {"again", "next"} => here
  BY <1>2, <1>4 DEF AtEntry, ReadForward
<1>8. ASSUME here PROVE entry \in Rows /\ entry # NoEntry
  <2>1. leaf.ents \in Seq(Rows)
    BY <1>4, ChainRows
  <2>2. cursor.eid + 1 \in 1..Len(leaf.ents)
    BY <1>4, <1>8, <2>1
  <2> HIDE DEF Rows
  <2>3. entry \in Rows
    BY <2>1, <2>2
  <2> QED BY <2>3, RowsTyped, NoEntryAssumption DEF Entry
<1>9. ASSUME here, NEW x, Past(rank, disk, cursor, x) PROVE x.rid # entry.rid
  <2>1. PICK p \in DOMAIN rank : \E i \in 1..Len(disk[p].ents) : x = disk[p].ents[i]
    BY <1>9 DEF Past
  <2>2. disk[p].ents \in Seq(Rows)
    BY ChainRows
  <2>3. x # entry
    BY <1>4, <1>9, ReadIsNew
  <2> HIDE DEF Rows, entry
  <2>4. x \in Rows
    BY <2>1, <2>2
  <2> QED BY <1>8, <1>9, <2>3, <2>4, ChainRows
<1> HIDE DEF here, entry, leaf
<1>10. CASE here
  <2>1. cmd'.pc = "row" /\ cmd'.entry = entry
    BY <1>3, <1>5, <1>8, <1>10 DEF ReadAgain
  <2>2. \A i \in 1..Len(cmd.printed) :
           \E x : Past(rank, disk, cursor, x) /\ cmd.printed[i].rid = x.rid
    BY <1>2, <1>4 DEF PrintedPast
  <2>3. PrintedPast(rank, disk, cursor', cmd.printed)
    BY <1>6, <2>2 DEF PrintedPast
  <2>4. \A i \in 1..Len(cmd.printed) : cmd.printed[i].rid # entry.rid
    BY <1>9, <1>10, <2>2
  <2> QED BY <1>2, <1>3, <1>4, <1>6, <1>10, <2>1, <2>3, <2>4 DEF Reading, OnRow
<1>11. CASE ~here
  <2>1. cmd.pc = "first" /\ cmd.printed = <<>>
    BY <1>2, <1>4, <1>7, <1>11
  <2>2. cmd'.pc \in {"again", "row"} /\ cmd'.status # "OK"
    BY <1>3, <1>5, <1>11, <2>1
  <2>3. \A i \in 1..Len(cmd.printed) : FALSE
    BY <2>1
  <2> QED BY <1>2, <1>3, <1>4, <1>6, <2>1, <2>2, <2>3 DEF Reading, OnRow
<1> QED BY <1>10, <1>11

LEMMA RowsReading ==
  ASSUME EInv, NEW live, NEW rank, Reading(live, rank),
         SelectSkips \/ SelectOpensTable \/ SelectRow \/ SelectReadFails \/ IndexEnds
  PROVE  Reading(live, rank)'
<1>1. cmd.call = "select" /\ cmd \in SelectShape(cmd)
  BY SelectIsSelect DEF SelectStep
<1>2. cmd'.path = cmd.path
  BY <1>1 DEF SelectSkips, SelectOpensTable, SelectRow, SelectReadFails, IndexEnds, Returns, TableCannot, OpensFile,
              SelectShape
<1> SUFFICES ASSUME cmd.path = "index" PROVE Reading(live, rank)'
  BY <1>2 DEF Reading
<1>3. OncePrinted(cmd.printed)
  BY <1>1 DEF Reading
<1>4. CASE cmd'.pc = "done" /\ cmd'.printed = cmd.printed
  BY <1>3, <1>4 DEF Reading, OnRow
<1>5. CASE SelectReadFails \/ IndexEnds
  <2>1. cmd'.pc = "done" /\ cmd'.printed = cmd.printed
    BY <1>1, <1>5 DEF SelectReadFails, IndexEnds, Returns, SelectShape
  <2> QED BY <1>4, <2>1
<1>6. ASSUME cmd.pc = "row"
      PROVE  /\ cursor \in [pid : DOMAIN rank, eid : Nat] \cup {NoCursor}
             /\ \A i \in 1..Len(cmd.printed) : cmd.printed[i].rid # cmd.entry.rid
             /\ cmd.status = "OK" => /\ AtEntry(rank, disk, cursor)
                                     /\ PrintedPast(rank, disk, cursor, cmd.printed)
                                     /\ Past(rank, disk, cursor, cmd.entry)
  BY <1>1, <1>6 DEF Reading, OnRow
<1>7. CASE SelectOpensTable
  <2>1. CASE TableCannot
    <3>1. cmd'.pc = "done" /\ cmd'.printed = cmd.printed
      BY <1>1, <2>1 DEF TableCannot, Returns, SelectShape
    <3> QED BY <1>4, <3>1
  <2>2. CASE OpensFile("tbl", "row") /\ UNCHANGED vars
    <3>1. cmd.pc = "row"
      BY <1>7 DEF SelectOpensTable, InRange
    <3>2. cmd'.pc = "row" /\ cmd'.printed = cmd.printed /\ cmd'.status = cmd.status
          /\ cmd'.entry = cmd.entry
      BY <1>1, <2>2 DEF OpensFile, SelectShape
    <3>3. cursor' = cursor /\ disk' = disk
      BY <2>2 DEF vars
    <3> QED BY <1>3, <1>6, <3>1, <3>2, <3>3 DEF Reading, OnRow
  <2> QED BY <1>7, <2>1, <2>2 DEF SelectOpensTable
<1>8. CASE SelectSkips
  <2>1. /\ cmd.pc = "row" /\ cursor' = cursor /\ disk' = disk
        /\ cmd' = [cmd EXCEPT !.ne = @ \ {Min(Dropping)},
                              !.pc = IF cmd.status = "OK" THEN "next" ELSE "end"]
    BY <1>8 DEF SelectSkips, InRange, vars
  <2>2. cmd'.pc = (IF cmd.status = "OK" THEN "next" ELSE "end") /\ cmd'.printed = cmd.printed
    BY <1>1, <2>1 DEF SelectShape
  <2> QED BY <1>3, <1>6, <2>1, <2>2 DEF Reading, OnRow
<1>9. CASE SelectRow
  <2> DEFINE row  == Row(cmd.entry)
             ok   == \A i \in DOMAIN cmd.q.conds : IndexPasses(row, cmd.q.conds[i])
             line == Line(cmd.entry.rid, row)
             new  == Append(cmd.printed, line)
  <2>1. /\ cmd.pc = "row" /\ cursor' = cursor /\ disk' = disk
        /\ cmd' = [cmd EXCEPT !.pc = IF cmd.status = "OK" THEN "next" ELSE "end",
                              !.printed = IF ok THEN new ELSE cmd.printed]
    BY <1>9 DEF SelectRow, InRange, vars
  <2>2. line.rid = cmd.entry.rid
    BY DEF Line
  <2> HIDE DEF ok, line
  <2>3. cmd'.pc = (IF cmd.status = "OK" THEN "next" ELSE "end")
        /\ cmd'.printed = IF ok THEN new ELSE cmd.printed
    BY <1>1, <2>1 DEF SelectShape
  <2>4. OncePrinted(new) /\ LinesOf(new, cmd.printed, line)
    <3>1. \A i \in 1..Len(cmd.printed) : cmd.printed[i].rid # line.rid
      BY <1>6, <2>1, <2>2
    <3>2. new = Append(cmd.printed, line)
      OBVIOUS
    <3> HIDE DEF new
    <3> QED BY <1>3, <3>1, <3>2, OneMoreLine
  <2>5. OncePrinted(cmd'.printed)
    BY <1>3, <2>3, <2>4
  <2>6. cmd.status = "OK" => PrintedPast(rank, disk, cursor, cmd'.printed)
    <3> SUFFICES ASSUME cmd.status = "OK" PROVE PrintedPast(rank, disk, cursor, cmd'.printed)
      OBVIOUS
    <3>1. PrintedPast(rank, disk, cursor, cmd.printed) /\ Past(rank, disk, cursor, cmd.entry)
      BY <1>6, <2>1
    <3> HIDE DEF new
    <3>2. PrintedPast(rank, disk, cursor, new)
      <4> SUFFICES ASSUME NEW i \in 1..Len(new)
                   PROVE  \E x : Past(rank, disk, cursor, x) /\ new[i].rid = x.rid
        BY DEF PrintedPast
      <4>1. CASE new[i] = line
        BY <2>2, <3>1, <4>1
      <4>2. CASE \E j \in 1..Len(cmd.printed) : new[i] = cmd.printed[j]
        BY <3>1, <4>2 DEF PrintedPast
      <4> QED BY <2>4, <4>1, <4>2 DEF LinesOf
    <3> QED BY <2>3, <3>1, <3>2
  <2> HIDE DEF new
  <2> QED BY <1>6, <2>1, <2>3, <2>5, <2>6 DEF Reading, OnRow
<1> QED BY <1>5, <1>7, <1>8, <1>9

\* The index, its chain, and a command that reads along it.
ReadsOnce == \E live, spine, rank :
  Chained(live, spine, rank) /\ Once(DOMAIN rank, disk, op) /\ Reading(live, rank)

\* A select leaves the index as it is.
LEMMA SelectUsesIndex ==
  ASSUME EInv, SelectStep
  PROVE  \/ Open("r") \/ Abandon \/ (\E k \in Key : LocateCall(k)) \/ SeekDown \/ SeekLeaf
         \/ ReadForward \/ UNCHANGED vars
<1>1. CASE SelectLocates
  <2>1. cmd.call = "select" /\ cmd \in SelectShape(cmd) /\ cmd.start >= IntMin /\ cmd.end <= IntMax
    BY SelectIsSelect
  <2>2. cmd.start <= cmd.end => cmd.start \in Key
    BY <2>1, Ints, IntAssumption DEF SelectShape
  <2> QED BY <1>1, <2>2 DEF SelectLocates
<1>2. CASE SelectOpensTable
  BY <1>2 DEF SelectOpensTable
<1>3. CASE ~SelectLocates /\ ~SelectOpensTable
  BY <1>3 DEF SelectStep, SelectWithoutIndex, ScanOpens, ScanRow, ScanReadFails, ScanEnds,
         SelectOpensIndex, SelectReads, SelectSkips, SelectRow, SelectReadFails, IndexEnds
<1> QED BY <1>1, <1>2, <1>3

LEMMA SelectReadsOnce ==
  ASSUME EInv, RowLeaves, Scanned, ReadsOnce, SelectStep
  PROVE  ReadsOnce'
<1>1. PICK live, spine, rank :
        Chained(live, spine, rank) /\ Once(DOMAIN rank, disk, op) /\ Reading(live, rank)
  BY DEF ReadsOnce
<1>2. Typed /\ Books
  BY IsTyped DEF EInv, IInv
<1>3. Chained(live, spine, rank)' /\ Once(DOMAIN rank, disk', op')
  <2>1. CASE UNCHANGED vars
    BY <1>1, <2>1 DEF vars, Chained, Rooted
  <2>2. CASE Open("r") \/ Abandon \/ (\E k \in Key : LocateCall(k)) \/ SeekDown \/ SeekLeaf \/ ReadForward
    <3>1. Chained(live, spine, rank)'
      BY <1>1, <1>2, <2>2, OpensChained, EndsChained, SearchesChained
    <3>2. Once(DOMAIN rank, disk', op')
      BY <1>1, <1>2, <2>2, OthersOnce
    <3> QED BY <3>1, <3>2
  <2> QED BY <2>1, <2>2, SelectUsesIndex
<1>4. Reading(live, rank)'
  <2>1. CASE SelectWithoutIndex \/ ScanOpens \/ ScanRow \/ ScanReadFails \/ ScanEnds
    <3>1. cmd'.path # "index"
      BY <2>1, OffPath
    <3> QED BY <3>1 DEF Reading
  <2>2. CASE SelectOpensIndex
    BY <2>2, OpensReading
  <2>3. CASE SelectLocates
    BY <1>1, <2>3, LocatesReading
  <2>4. CASE SelectReads
    BY <1>1, <2>4, ReadsReading
  <2>5. CASE SelectSkips \/ SelectOpensTable \/ SelectRow \/ SelectReadFails \/ IndexEnds
    BY <1>1, <2>5, RowsReading
  <2> QED BY <2>1, <2>2, <2>3, <2>4, <2>5 DEF SelectStep
<1> QED BY <1>3, <1>4 DEF ReadsOnce

\* load inserts the place of a new row, which no leaf can have.
LEMMA InsertedIsNew ==
  ASSUME EInv, RowLeaves, NEW live, NEW spine, NEW rank, Chained(live, spine, rank), EngineNext,
         NEW e \in Entry, InsertCall(e)
  PROVE  NotYet(DOMAIN rank, disk, e)
<1>1. calls' = calls + 1 /\ calls \in Nat /\ op'.entry = e
  <2>1. calls' = calls + 1 /\ op'.entry = e
    BY DEF InsertCall
  <2>2. calls \in 0..MaxCalls /\ MaxCalls \in Nat
    BY BoundAssumption DEF EInv, IInv, Books
  <2> QED BY <2>1, <2>2
<1>2. LoadAppends
  <2>1. calls' # calls
    BY <1>1
  <2>2. ~LoadOpensTable /\ ~LoadOpensIndex /\ ~LoadCannotOpen /\ ~LoadGivesUp /\ ~LoadEnds /\ ~LoadEndsUnsaved
    BY <2>1 DEF LoadOpensTable, LoadOpensIndex, LoadCannotOpen, LoadGivesUp, LoadEnds, LoadEndsUnsaved,
                OpenNew, Open, Close, CloseFails, Abandon, InsertFails, vars
  <2>3. ~LoadInserts
    BY <2>1 DEF LoadInserts, InsertStep, InsertFirst, Descend, InsertInLeaf, SplitLeaf, WriteLeft,
                InsertInNonLeaf, SplitNonLeaf, NewRoot
  <2>4. ~SelectStep
    BY <2>1, SelectUsesIndex DEF Open, Abandon, LocateCall, SeekDown, SeekLeaf, ReadForward, vars
  <2>5. ~Kill /\ ~(\E q \in Queries : SelectCall(q))
        /\ ~(\E file \in LoadFiles, index \in BOOLEAN : LoadCall(file, index))
    BY <2>1 DEF Kill, SelectCall, LoadCall, Abandon, vars
  <2> QED BY <2>2, <2>3, <2>4, <2>5 DEF EngineNext, LoadStep
<1>3. e.rid = Len(table)
  <2>1. PICK f : InsertCall(f) /\ f.rid = Len(table)
    <3>1. calls' # calls
      BY <1>1
    <3> QED BY <1>2, <3>1 DEF LoadAppends, PlaceOf, vars
  <2>2. op'.entry = f
    BY <2>1 DEF InsertCall
  <2> QED BY <1>1, <2>1, <2>2
<1>4. \A x \in Rows : x.rid # e.rid
  <2>1. \A x \in Rows : \E i \in 1..Len(table) : x.rid = i - 1
    BY DEF Rows
  <2>2. Len(table) \in Nat
    BY DEF EInv
  <2> QED BY <1>3, <2>1, <2>2
<1> SUFFICES ASSUME NEW p \in DOMAIN rank, e \in Members(disk[p].ents) PROVE FALSE
  BY DEF NotYet
<1>5. disk[p].ents \in Seq(Rows)
  BY ChainRows
<1> HIDE DEF Rows
<1>6. e \in Rows
  BY <1>5, MembersType
<1> QED BY <1>4, <1>6

LEMMA ReadsOnceKept == EInv /\ RowLeaves /\ Scanned /\ ReadsOnce /\ [EngineNext]_allVars => ReadsOnce'
<1> SUFFICES ASSUME EInv, RowLeaves, Scanned, ReadsOnce, [EngineNext]_allVars PROVE ReadsOnce'
  OBVIOUS
<1>1. CASE UNCHANGED allVars
  BY <1>1 DEF allVars, engineVars, vars, ReadsOnce, Chained, Rooted, Reading
<1>2. CASE SelectStep
  BY <1>2, SelectReadsOnce
<1>3. CASE EngineNext /\ ~SelectStep
  <2>1. PICK live, spine, rank :
          Chained(live, spine, rank) /\ Once(DOMAIN rank, disk, op) /\ Reading(live, rank)
    BY DEF ReadsOnce
  <2>2. Typed /\ Books /\ [Next]_vars
    BY <1>3, IsTyped, EngineSteps DEF EInv, IInv, Stepped
  <2>3. \A e \in Entry : InsertCall(e) => NotYet(DOMAIN rank, disk, e)
    BY <1>3, <2>1, InsertedIsNew
  <2>4. PICK more, top, longer : Chained(more, top, longer)' /\ Once(DOMAIN longer, disk', op')
    BY <2>1, <2>2, <2>3, StepOnce
  <2>5. cmd'.call = "select" => cmd'.path = "none"
    <3>1. LoadStep => cmd'.call = "load"
      BY LoadStaysLoad
    <3>2. (\E file \in LoadFiles, index \in BOOLEAN : LoadCall(file, index)) => cmd'.call = "load"
      BY DEF LoadCall, Call
    <3>3. (\E q \in Queries : SelectCall(q)) => cmd'.path = "none"
      BY DEF SelectCall, Call
    <3>4. Kill => cmd'.call = "none"
      BY DEF Kill, NoCommand
    <3> QED BY <1>3, <3>1, <3>2, <3>3, <3>4 DEF EngineNext
  <2>6. Reading(more, longer)'
    BY <2>5 DEF Reading
  <2> QED BY <2>4, <2>6 DEF ReadsOnce
<1> QED BY <1>1, <1>2, <1>3

\* Whatever happened to the index before, loads that were killed and headers that
\* are old included, and by whichever path: a select prints no row twice.  The
\* sibling of a split joins the chain in the one write that takes its entries out
\* of the split leaf (BTreeIndex.cc:284-293), and the cursor only goes forward.
THEOREM NoRowIsPrintedTwice == EngineSpec => []NoRowTwice
<1>1. EngineInit => ReadsOnce /\ RowLeaves /\ Scanned
  <2> SUFFICES ASSUME EngineInit PROVE ReadsOnce /\ RowLeaves /\ Scanned
    OBVIOUS
  <2>1. PICK live, spine, rank : Chained(live, spine, rank) /\ Once(DOMAIN rank, disk, op)
    BY InitOnce DEF EngineInit
  <2>2. Reading(live, rank) /\ Scanned
    BY DEF EngineInit, NoCommand, Reading, Scanned
  <2>3. RowLeaves
    BY DEF EngineInit, Init, RowLeaves, LeavesOf, Idle, Inserting
  <2> QED BY <2>1, <2>2, <2>3 DEF ReadsOnce
<1>2. EInv /\ ReadsOnce /\ Scanned => NoRowTwice
  <2> SUFFICES ASSUME EInv, ReadsOnce, Scanned, cmd.pc = "done", cmd.call = "select"
               PROVE  \A i, j \in DOMAIN cmd.printed :
                        i # j => cmd.printed[i].rid # cmd.printed[j].rid
    BY DEF NoRowTwice
  <2>1. cmd.path \in {"none", "scan", "index"}
    BY DEF EInv, Commands, SelectShape
  <2>2. CASE cmd.path = "index"
    <3>1. OncePrinted(cmd.printed)
      BY <2>2 DEF ReadsOnce, Reading
    <3>2. DOMAIN cmd.printed = 1..Len(cmd.printed)
      BY <3>1 DEF OncePrinted
    <3> QED BY <3>1, <3>2 DEF OncePrinted
  <2>3. CASE cmd.path = "scan"
    <3>1. /\ DOMAIN cmd.printed = 1..Len(cmd.printed) /\ Len(cmd.printed) \in Nat
          /\ \A i \in 1..Len(cmd.printed) : cmd.printed[i].rid \in Int
          /\ \A i, j \in 1..Len(cmd.printed) : i < j => cmd.printed[i].rid < cmd.printed[j].rid
      <4>1. cmd.printed \in Seq({LineOf(r) : r \in 0..(cmd.at - 1)})
        BY <2>3 DEF Scanned
      <4>2. \A i \in 1..Len(cmd.printed) : \E r \in 0..(cmd.at - 1) : cmd.printed[i] = LineOf(r)
        BY <4>1
      <4>3. \A i, j \in 1..Len(cmd.printed) : i < j => cmd.printed[i].rid < cmd.printed[j].rid
        BY <2>3 DEF Scanned
      <4>4. \A i \in 1..Len(cmd.printed) : cmd.printed[i].rid \in Int
        BY <4>2, LineRid
      <4>5. DOMAIN cmd.printed = 1..Len(cmd.printed) /\ Len(cmd.printed) \in Nat
        BY <4>1
      <4> QED BY <4>3, <4>4, <4>5
    <3> QED BY <3>1
  <2>4. CASE cmd.path = "none"
    BY <2>4 DEF Scanned
  <2> QED BY <2>1, <2>2, <2>3, <2>4
<1> QED BY <1>1, <1>2, ReadsOnceKept, RowLeavesKept, ScannedKept, EngineInductive, PTL DEF EngineSpec

-----------------------------------------------------------------------------
(* The index is open while a command uses it.                              *)

OnIndex == {"locate", "seek", "first", "again", "row", "next", "end"}
Seated ==
  /\ obj.mode = "w" =>
       cmd.call = "load" /\ cmd.pc \in {"line", "insert", "unsaved"} /\ cmd.index
  /\ obj.mode = "r" <=> cmd.call = "select" /\ cmd.pc \in OnIndex
  /\ cmd.call = "load" /\ cmd.pc = "index" => cmd.index

LEMMA LoadsSeated ==
  ASSUME EInv, Seated, LoadStep
  PROVE  Seated'
<1>1. cmd.call = "load" /\ cmd \in LoadShape(cmd)
  BY LoadIsLoad
<1>2. obj.mode \in {"none", "r", "w"} /\ obj.mode # "r"
  BY <1>1, IsTyped DEF EInv, Typed, ObjType, Seated
<1>3. /\ obj.mode = "w" => cmd.pc \in {"line", "insert", "unsaved"} /\ cmd.index
      /\ cmd.pc = "index" => cmd.index
  BY <1>1 DEF Seated
<1>4. cmd'.call = "load" /\ cmd'.index = cmd.index
  BY <1>1, LoadStaysLoad DEF LoadShape, LoadStep, LoadOpensTable, LoadOpensIndex, LoadCannotOpen,
     LoadAppends, LoadInserts, LoadGivesUp, LoadEnds, LoadEndsUnsaved, Goto, Returns, OpensFile
<1> SUFFICES /\ obj'.mode \in {"none", "w"}
             /\ obj'.mode = "w" => cmd'.pc \in {"line", "insert", "unsaved"} /\ cmd.index
             /\ cmd'.pc = "index" => cmd.index
  BY <1>4 DEF Seated
<1>5. CASE LoadOpensTable
  <2>1. cmd'.pc = IF cmd.index THEN "index" ELSE "line"
    BY <1>1, <1>5 DEF LoadOpensTable, OpensFile, LoadShape
  <2>2. obj' = obj /\ cmd.pc = "table"
    BY <1>5 DEF LoadOpensTable, vars
  <2> QED BY <1>2, <1>3, <2>1, <2>2
<1>6. CASE LoadOpensIndex
  <2>1. cmd'.pc = "line" /\ cmd.pc = "index"
    BY <1>1, <1>6 DEF LoadOpensIndex, OpensFile, LoadShape
  <2>2. obj'.mode \in {"none", "w"}
    BY <1>6 DEF LoadOpensIndex, OpenNew, Open, Fresh
  <2> QED BY <1>3, <2>1, <2>2
<1>7. CASE LoadCannotOpen
  <2>1. cmd'.pc = "done" /\ cmd.pc \in {"table", "index"}
    BY <1>1, <1>7 DEF LoadCannotOpen, Returns, LoadShape
  <2>2. obj' = obj
    BY <1>7 DEF LoadCannotOpen, OpenNew, vars, Reply
  <2> QED BY <1>2, <1>3, <2>1, <2>2
<1>8. CASE LoadAppends
  <2>1. cmd'.pc = (IF cmd.index THEN "insert" ELSE "line") /\ cmd.pc = "line"
    BY <1>1, <1>8 DEF LoadAppends, LoadShape
  <2>2. obj'.mode = obj.mode
    <3>1. obj.mode = "w" \/ obj' = obj
      BY <1>8 DEF LoadAppends, InsertCall, vars
    <3>2. obj' = obj \/ \E key : obj' = [Widened(obj, key) EXCEPT !.root = IF obj.height = 0 THEN size ELSE @]
      BY <1>8 DEF LoadAppends, InsertCall, vars
    <3>3. obj \in ObjType
      BY IsTyped DEF EInv, Typed
    <3> QED BY <3>2, <3>3 DEF Widened, ObjType
  <2> QED BY <1>2, <1>3, <2>1, <2>2
<1>9. CASE LoadInserts
  <2>1. cmd'.pc \in {"insert", "line"} /\ cmd.pc = "insert"
    BY <1>1, <1>9 DEF LoadInserts, Goto, LoadShape
  <2>2. obj'.mode = obj.mode
    <3>1. obj \in ObjType
      BY IsTyped DEF EInv, Typed
    <3> QED BY <1>9, <3>1 DEF LoadInserts, InsertStep, InsertFirst, Descend, InsertInLeaf, SplitLeaf,
              WriteLeft, InsertInNonLeaf, SplitNonLeaf, NewRoot, ObjType
  <2> QED BY <1>2, <1>3, <2>1, <2>2
<1>10. CASE LoadGivesUp \/ LoadEnds
  <2>1. cmd'.pc = "done" /\ cmd.pc \in {"line", "insert"}
    BY <1>1, <1>10 DEF LoadGivesUp, LoadEnds, Returns, LoadShape
  <2>2. obj' = Fresh \/ (~cmd.index /\ obj' = obj)
    BY <1>1, <1>10 DEF LoadGivesUp, LoadEnds, Abandon, InsertFails, Close, vars, LoadShape
  <2>3. obj'.mode = "none"
    BY <1>2, <1>3, <2>2 DEF Fresh
  <2> QED BY <2>1, <2>3
<1>11. CASE LoadEndsUnsaved
  <2>1. (cmd'.pc = "unsaved" /\ obj' = obj /\ cmd.pc = "line") \/ (cmd'.pc = "done" /\ obj' = Fresh)
    BY <1>1, <1>11 DEF LoadEndsUnsaved, CloseFails, Abandon, Returns, Goto, LoadShape
  <2> QED BY <1>2, <1>3, <2>1 DEF Fresh
<1> QED BY <1>5, <1>6, <1>7, <1>8, <1>9, <1>10, <1>11 DEF LoadStep

LEMMA SelectsSeated ==
  ASSUME EInv, Seated, SelectStep
  PROVE  Seated'
<1>1. cmd.call = "select" /\ cmd \in SelectShape(cmd) /\ cmd'.call = "select"
  BY SelectIsSelect, SelectSaves
<1>2. obj.mode \in {"none", "r"} /\ (obj.mode = "r" <=> cmd.pc \in OnIndex)
  BY <1>1, IsTyped DEF EInv, Typed, ObjType, Seated
<1> SUFFICES obj'.mode # "w" /\ (obj'.mode = "r" <=> cmd'.pc \in OnIndex)
  BY <1>1 DEF Seated
<1>3. CASE SelectWithoutIndex \/ ScanOpens \/ ScanRow \/ ScanReadFails \/ ScanEnds
  <2>1. obj' = obj /\ cmd.pc \notin OnIndex /\ cmd'.pc \notin OnIndex
    BY <1>1, <1>3 DEF SelectWithoutIndex, ScanOpens, ScanRow, ScanReadFails, ScanEnds, Goto, Returns, TableCannot,
              OpensFile, SelectShape, OnIndex, vars
  <2> QED BY <1>2, <2>1
<1>4. CASE SelectOpensIndex
  <2>1. obj'.mode = "r" /\ cmd'.pc = "locate"
    BY <1>1, <1>4 DEF SelectOpensIndex, Open, SelectShape
  <2> QED BY <2>1 DEF OnIndex
<1>5. CASE SelectLocates \/ SelectReads \/ SelectSkips \/ SelectRow
  <2>1. obj' = obj /\ cmd.pc \in OnIndex /\ cmd'.pc \in OnIndex
    BY <1>1, <1>5 DEF SelectLocates, SelectReads, SelectSkips, SelectRow, LocateCall, SeekDown, SeekLeaf,
              ReadForward, InRange, Goto, SelectShape, OnIndex, vars
  <2> QED BY <1>2, <2>1
<1>6. CASE SelectOpensTable
  <2>1. \/ obj' = obj /\ cmd.pc = "row" /\ cmd'.pc = "row"
        \/ obj' = Fresh /\ cmd'.pc = "done"
    BY <1>1, <1>6 DEF SelectOpensTable, InRange, OpensFile, Returns, TableCannot, Abandon, SelectShape, vars
  <2> QED BY <1>2, <2>1 DEF OnIndex, Fresh
<1>7. CASE SelectReadFails \/ IndexEnds
  <2>1. obj' = Fresh /\ cmd'.pc = "done"
    BY <1>1, <1>7 DEF SelectReadFails, IndexEnds, Returns, Abandon, SelectShape
  <2> QED BY <2>1 DEF OnIndex, Fresh
<1> QED BY <1>3, <1>4, <1>5, <1>6, <1>7 DEF SelectStep

LEMMA SeatedKept == EInv /\ Seated /\ [EngineNext]_allVars => Seated'
<1> SUFFICES ASSUME EInv, Seated, [EngineNext]_allVars PROVE Seated'
  OBVIOUS
<1>0. Ready => obj.mode = "none"
  <2>1. obj.mode \in {"none", "r", "w"}
    BY IsTyped DEF EInv, Typed, ObjType
  <2> QED BY <2>1 DEF Seated, Ready, OnIndex
<1>1. CASE UNCHANGED allVars
  BY <1>1 DEF allVars, engineVars, vars, Seated
<1>2. CASE \E file \in LoadFiles, index \in BOOLEAN : LoadCall(file, index)
  <2>1. obj' = obj /\ Ready /\ cmd'.call = "load" /\ cmd'.pc = "table"
    BY <1>2 DEF LoadCall, Call, vars
  <2> QED BY <1>0, <2>1 DEF Seated
<1>3. CASE \E q \in Queries : SelectCall(q)
  <2>1. obj' = obj /\ Ready /\ cmd'.call = "select" /\ cmd'.pc \in {"done", "table", "index"}
    BY <1>3 DEF SelectCall, Call, vars
  <2> QED BY <1>0, <2>1 DEF Seated, OnIndex
<1>4. CASE Kill
  <2>1. cmd'.call = "none" /\ (obj' = Fresh \/ (obj' = obj /\ obj.mode = "none"))
    BY <1>4 DEF Kill, NoCommand, Abandon, vars
  <2> QED BY <2>1 DEF Seated, Fresh
<1> QED BY <1>1, <1>2, <1>3, <1>4, LoadsSeated, SelectsSeated DEF EngineNext

-----------------------------------------------------------------------------
(* The range of keys is what the conditions on the key say, but for <>.    *)

LEMMA InRangeIs ==
  ASSUME NEW q \in Queries, Answerable(q.conds), NEW k \in Key
  PROVE  StartKey(q.conds) <= k /\ k <= EndKey(q.conds) <=>
           k >= 0 /\ \A i \in DOMAIN q.conds :
             q.conds[i].attr = "key" /\ q.conds[i].comp # "NE" =>
               Passes(k - q.conds[i].value, q.conds[i].comp)
<1> DEFINE conds == q.conds
           Of(comp) == Values(conds, comp)
<1> USE Ints, IntAssumption
<1>1. \A i \in DOMAIN conds :
        /\ conds[i].comp \in {"EQ", "NE", "LT", "GT", "LE", "GE"}
        /\ conds[i].attr = "key" => conds[i].value \in Key
  <2>1. conds \in Seq(SelCond) /\ \A i \in DOMAIN conds : conds[i].attr = "key" => conds[i].value \in Key
    BY QueryAssumption
  <2>2. \A i \in DOMAIN conds : conds[i] \in SelCond
    BY <2>1
  <2> QED BY <2>1, <2>2 DEF SelCond
<1>2. \A comp : Of(comp) \in SUBSET Key
  BY <1>1 DEF Values, KeyConds
<1>3. \A comp : \A v : v \in Of(comp) <=>
        \E i \in DOMAIN conds : conds[i].attr = "key" /\ conds[i].comp = comp /\ v = conds[i].value
  BY DEF Values, KeyConds
<1>4. \A i \in DOMAIN conds : /\ conds[i].comp = "GT" => conds[i].value < IntMax
                              /\ conds[i].comp = "LT" => conds[i].value > IntMin
  BY DEF Answerable
<1> HIDE DEF conds, Of
<1>5. /\ \A v \in Of("GT") : v \in Key /\ Wrap(v + 1) = v + 1 /\ v + 1 \in Key
      /\ \A v \in Of("LT") : v \in Key /\ Wrap(v - 1) = v - 1 /\ v - 1 \in Key
  <2>1. \A v \in Of("GT") : v \in Key /\ v < IntMax
    BY <1>2, <1>3, <1>4
  <2>2. \A v \in Of("LT") : v \in Key /\ v > IntMin
    BY <1>2, <1>3, <1>4
  <2> QED BY <2>1, <2>2 DEF Wrap
<1> DEFINE S == {0} \cup Of("EQ") \cup Of("GE") \cup {Wrap(v + 1) : v \in Of("GT")}
           E == {IntMax} \cup Of("EQ") \cup Of("LE") \cup {Wrap(v - 1) : v \in Of("LT")}
<1>6. S \in SUBSET Key /\ S # {} /\ E \in SUBSET Key /\ E # {}
  BY <1>2, <1>5
<1>7. StartKey(conds) = Max(S) /\ EndKey(conds) = Min(E)
  BY DEF StartKey, EndKey, Of
<1>8. Max(S) <= k <=> \A x \in S : x <= k
  <2> HIDE DEF S
  <2>1. PICK m \in S : m = Max(S) /\ \A y \in S : y <= m
    BY <1>6, Extremes
  <2>2. \A x \in S : x \in Int
    BY <1>6
  <2>3. k \in Int
    OBVIOUS
  <2> QED BY <2>1, <2>2, <2>3
<1>9. k <= Min(E) <=> \A x \in E : k <= x
  <2> HIDE DEF E
  <2>1. PICK m \in E : m = Min(E) /\ \A y \in E : m <= y
    BY <1>6, Extremes
  <2>2. \A x \in E : x \in Int
    BY <1>6
  <2>3. k \in Int
    OBVIOUS
  <2> QED BY <2>1, <2>2, <2>3
<1>10. (\A x \in S : x <= k) <=>
         k >= 0 /\ (\A v \in Of("EQ") \cup Of("GE") : v <= k) /\ \A v \in Of("GT") : v < k
  <2>1. \A x : x \in S <=> x = 0 \/ x \in Of("EQ") \cup Of("GE") \/ \E v \in Of("GT") : x = v + 1
    BY <1>5
  <2>2. k \in Int /\ \A v \in Of("GT") : v \in Int
    BY <1>5
  <2> HIDE DEF S
  <2>3. \A v \in Of("GT") : v + 1 <= k <=> v < k
    BY <2>2
  <2>4. 0 <= k <=> k >= 0
    BY <2>2
  <2> QED BY <2>1, <2>3, <2>4
<1>11. (\A x \in E : k <= x) <=>
         (\A v \in Of("EQ") \cup Of("LE") : k <= v) /\ \A v \in Of("LT") : k < v
  <2>1. \A x : x \in E <=> x = IntMax \/ x \in Of("EQ") \cup Of("LE") \/ \E v \in Of("LT") : x = v - 1
    BY <1>5
  <2>2. k \in Int /\ \A v \in Of("LT") : v \in Int
    BY <1>5
  <2> HIDE DEF E
  <2>3. \A v \in Of("LT") : k <= v - 1 <=> k < v
    BY <2>2
  <2>4. k <= IntMax
    OBVIOUS
  <2> QED BY <2>1, <2>3, <2>4
<1> HIDE DEF S, E
<1> DEFINE Good(i) == Passes(k - conds[i].value, conds[i].comp)
           Meant(i) == conds[i].attr = "key" /\ conds[i].comp # "NE"
<1>12. \A v \in Key : /\ (Passes(k - v, "EQ") <=> v <= k /\ k <= v)
                      /\ (Passes(k - v, "GE") <=> v <= k)
                      /\ (Passes(k - v, "GT") <=> v < k)
                      /\ (Passes(k - v, "LE") <=> k <= v)
                      /\ (Passes(k - v, "LT") <=> k < v)
  BY DEF Passes
<1>13. ASSUME \A v \in Of("EQ") \cup Of("GE") : v <= k, \A v \in Of("GT") : v < k,
              \A v \in Of("EQ") \cup Of("LE") : k <= v, \A v \in Of("LT") : k < v,
              NEW i \in DOMAIN conds, Meant(i)
       PROVE  Good(i)
  <2>1. conds[i].value \in Key /\ conds[i].value \in Of(conds[i].comp)
    BY <1>1, <1>3, <1>13
  <2>2. conds[i].comp \in {"EQ", "LT", "GT", "LE", "GE"}
    BY <1>1, <1>13
  <2> QED BY <1>12, <1>13, <2>1, <2>2
<1>14. ASSUME \A i \in DOMAIN conds : Meant(i) => Good(i)
       PROVE  /\ \A v \in Of("EQ") \cup Of("GE") : v <= k
              /\ \A v \in Of("GT") : v < k
              /\ \A v \in Of("EQ") \cup Of("LE") : k <= v
              /\ \A v \in Of("LT") : k < v
  <2>1. \A comp \in {"EQ", "LT", "GT", "LE", "GE"} : \A v \in Of(comp) : v \in Key /\ Passes(k - v, comp)
    <3> SUFFICES ASSUME NEW comp \in {"EQ", "LT", "GT", "LE", "GE"}, NEW v \in Of(comp)
                 PROVE  v \in Key /\ Passes(k - v, comp)
      OBVIOUS
    <3>1. PICK i \in DOMAIN conds : conds[i].attr = "key" /\ conds[i].comp = comp /\ v = conds[i].value
      BY <1>3
    <3>2. Meant(i)
      BY <3>1
    <3>3. Good(i)
      BY <1>14, <3>2
    <3> QED BY <1>1, <3>1, <3>3
  <2> QED BY <1>12, <2>1
<1>15. (\A i \in DOMAIN conds : Meant(i) => Good(i)) <=>
         /\ \A v \in Of("EQ") \cup Of("GE") : v <= k
         /\ \A v \in Of("GT") : v < k
         /\ \A v \in Of("EQ") \cup Of("LE") : k <= v
         /\ \A v \in Of("LT") : k < v
  <2> HIDE DEF Meant, Good
  <2> QED BY <1>13, <1>14
<1> QED BY <1>7, <1>8, <1>9, <1>10, <1>11, <1>15 DEF conds

-----------------------------------------------------------------------------
(* What the index path has printed, of an index that is sorted.            *)

\* The lines of the entries W, in the order of their keys.
Lists(printed, W) ==
  \E src \in Seq(W) :
    /\ printed = [i \in 1..Len(src) |-> LineOf(src[i].rid)]
    /\ \A i, j \in 1..Len(src) : i < j => src[i].key < src[j].key
    /\ \A d \in W : \E i \in 1..Len(src) : d = src[i]

LEMMA ListsNothing == Lists(<<>>, {})
<1>1. PICK src : src = <<>>
  OBVIOUS
<1>2. src \in Seq({}) /\ Len(src) = 0
  BY <1>1, EmptySeq
<1>3. src = [i \in 1..Len(src) |-> LineOf(src[i].rid)]
  BY <1>2
<1>4. /\ \A i, j \in 1..Len(src) : i < j => src[i].key < src[j].key
      /\ \A d \in {} : \E i \in 1..Len(src) : d = src[i]
  BY <1>2
<1>5. Lists(src, {})
  BY <1>2, <1>3, <1>4, Zenon DEF Lists
<1> QED BY <1>1, <1>5

LEMMA ListsOne ==
  ASSUME NEW printed, NEW W, Lists(printed, W), NEW e, e.key \in Int,
         \A d \in W : d.key < e.key
  PROVE  Lists(Append(printed, LineOf(e.rid)), W \cup {e})
<1> DEFINE T == W \cup {e}
<1>1. PICK src \in Seq(W) :
        /\ printed = [i \in 1..Len(src) |-> LineOf(src[i].rid)]
        /\ \A i, j \in 1..Len(src) : i < j => src[i].key < src[j].key
        /\ \A d \in W : \E i \in 1..Len(src) : d = src[i]
  BY DEF Lists
<1> DEFINE n   == Len(src)
           new == Append(src, e)
<1>2. src \in Seq(T) /\ e \in T /\ n \in Nat
  <2>1. W \subseteq T
    OBVIOUS
  <2> QED BY <1>1, <2>1, SeqMonotonic
<1> HIDE DEF T
<1>3. /\ new \in Seq(T) /\ Len(new) = n + 1 /\ new[n + 1] = e
      /\ \A i \in 1..n : new[i] = src[i]
  BY <1>2, AppendProperties
<1>4. \A i \in 1..n : src[i] \in W
  BY <1>1, ElementOfSeq
<1>5. printed \in Seq({LineOf(src[i].rid) : i \in 1..n}) /\ Len(printed) = n
  <2>1. printed = [i \in 1..n |-> LineOf(src[i].rid)]
    BY <1>1
  <2> HIDE DEF n
  <2> QED BY <1>2, <2>1
<1> HIDE DEF n, new
<1>6. Append(printed, LineOf(e.rid)) = [i \in 1..Len(new) |-> LineOf(new[i].rid)]
  <2> DEFINE line(i) == LineOf(src[i].rid)
             L == {line(i) : i \in 1..n} \cup {LineOf(e.rid)}
             p == Append(printed, LineOf(e.rid))
  <2>1. printed \in Seq(L) /\ LineOf(e.rid) \in L
    <3>1. {line(i) : i \in 1..n} \subseteq L
      OBVIOUS
    <3> QED BY <1>5, <3>1, SeqMonotonic
  <2> HIDE DEF L
  <2>2. p \in Seq(L) /\ Len(p) = n + 1 /\ p[n + 1] = LineOf(e.rid) /\ \A i \in 1..n : p[i] = printed[i]
    BY <1>5, <2>1, AppendProperties
  <2>3. \A i \in 1..n : printed[i] = LineOf(src[i].rid)
    BY <1>1 DEF n
  <2> HIDE DEF p
  <2>4. \A i \in 1..(n + 1) : p[i] = LineOf(new[i].rid)
    BY <1>2, <1>3, <2>2, <2>3
  <2>5. DOMAIN p = 1..Len(new) /\ \A i \in 1..Len(new) : p[i] = LineOf(new[i].rid)
    BY <1>3, <2>2, <2>4
  <2>6. p = [i \in 1..Len(new) |-> LineOf(new[i].rid)]
    BY <2>2, <2>5
  <2> QED BY <2>6 DEF p
<1>7. \A i, j \in 1..(n + 1) : i < j => new[i].key < new[j].key
  <2> SUFFICES ASSUME NEW i \in 1..(n + 1), NEW j \in 1..(n + 1), i < j
               PROVE  new[i].key < new[j].key
    OBVIOUS
  <2>1. i \in 1..n
    BY <1>2
  <2>2. CASE j = n + 1
    BY <1>3, <1>4, <2>1, <2>2
  <2>3. CASE j # n + 1
    <3>1. j \in 1..n
      BY <1>2, <2>3
    <3> QED BY <1>1, <1>3, <2>1, <3>1 DEF n
  <2> QED BY <2>2, <2>3
<1>8. \A d \in T : \E i \in 1..(n + 1) : d = new[i]
  <2> SUFFICES ASSUME NEW d \in T PROVE \E i \in 1..(n + 1) : d = new[i]
    OBVIOUS
  <2>1. CASE d = e
    <3>1. n + 1 \in 1..(n + 1)
      BY <1>2
    <3> QED BY <1>3, <2>1, <3>1
  <2>2. CASE d # e
    <3>1. PICK i \in 1..n : d = src[i]
      BY <1>1, <2>2 DEF T, n
    <3>2. i \in 1..(n + 1)
      BY <1>2
    <3> QED BY <1>3, <3>1, <3>2
  <2> QED BY <2>1, <2>2
<1>9. /\ \A i, j \in 1..Len(new) : i < j => new[i].key < new[j].key
      /\ \A d \in T : \E i \in 1..Len(new) : d = new[i]
  BY <1>3, <1>7, <1>8
<1>10. Lists(Append(printed, LineOf(e.rid)), T)
  BY <1>3, <1>6, <1>9 DEF Lists
<1> QED BY <1>10 DEF T

\* Of the entries S from the start of the range on, those in L are to come.
Passing(S, L, printed, ne) ==
  /\ L \subseteq S
  /\ \A d \in S \ L, x \in L : d.key < x.key
  /\ \A d \in S \ L : d.key <= cmd.end
  /\ \A i \in KeyConds(cmd.q.conds, "NE") \ ne :
       \E d \in S \ L : d.key = cmd.q.conds[i].value
  /\ Lists(printed, {d \in S \ L : Wanted(d.rid)})

LEMMA PassOn ==
  ASSUME NEW S, NEW L, NEW printed, NEW ne, Passing(S, L, printed, ne),
         NEW e \in L, \A d \in S : d.key \in Int, \A d \in L : d # e => e.key < d.key,
         e.key <= cmd.end,
         NEW ne2, \A i \in ne \ ne2 : cmd.q.conds[i].value = e.key
  PROVE  Passing(S, L \ {e}, IF Wanted(e.rid) THEN Append(printed, LineOf(e.rid)) ELSE printed, ne2)
<1> DEFINE W  == {d \in S \ L : Wanted(d.rid)}
           W2 == {d \in S \ (L \ {e}) : Wanted(d.rid)}
<1>1. e \in S /\ e.key \in Int /\ S \ (L \ {e}) = (S \ L) \cup {e}
  BY DEF Passing
<1>2. Lists(printed, W) /\ \A d \in W : d.key < e.key
  BY DEF Passing
<1>3. Lists(IF Wanted(e.rid) THEN Append(printed, LineOf(e.rid)) ELSE printed, W2)
  <2>1. CASE Wanted(e.rid)
    <3>1. W2 = W \cup {e}
      BY <1>1, <2>1
    <3> HIDE DEF W, W2
    <3> QED BY <1>1, <1>2, <2>1, <3>1, ListsOne
  <2>2. CASE ~Wanted(e.rid)
    <3>1. W2 = W
      BY <1>1, <2>2
    <3> HIDE DEF W, W2
    <3> QED BY <1>2, <2>2, <3>1
  <2> QED BY <2>1, <2>2
<1>4. \A i \in KeyConds(cmd.q.conds, "NE") \ ne2 :
        \E d \in S \ (L \ {e}) : d.key = cmd.q.conds[i].value
  <2> SUFFICES ASSUME NEW i \in KeyConds(cmd.q.conds, "NE") \ ne2
               PROVE  \E d \in S \ (L \ {e}) : d.key = cmd.q.conds[i].value
    OBVIOUS
  <2>1. CASE i \in ne
    BY <1>1, <2>1
  <2>2. CASE i \notin ne
    BY <1>1, <2>2 DEF Passing
  <2> QED BY <2>1, <2>2
<1>5. \A d \in S \ (L \ {e}), x \in L \ {e} : d.key < x.key
  BY <1>1 DEF Passing
<1>6. \A d \in S \ (L \ {e}) : d.key <= cmd.end
  BY <1>1 DEF Passing
<1>7. L \ {e} \subseteq S
  BY DEF Passing
<1> HIDE DEF W, W2
<1> QED BY <1>3, <1>4, <1>5, <1>6, <1>7 DEF Passing, W2

\* The same, of the command as it is after a step.
LEMMA SamePassing ==
  ASSUME cmd'.q = cmd.q, table' = table
  PROVE  /\ \A r : Wanted(r)' <=> Wanted(r)
         /\ \A printed, W : Lists(printed, W)' <=> Lists(printed, W)
         /\ cmd'.end = cmd.end =>
              \A S, L, printed, ne : Passing(S, L, printed, ne) => Passing(S, L, printed, ne)'
<1>1. \A r : (Wanted(r)' <=> Wanted(r)) /\ LineOf(r)' = LineOf(r)
  BY SameScan DEF Wanted
<1>2. \A printed, W : Lists(printed, W)' <=> Lists(printed, W)
  <2> SUFFICES ASSUME NEW printed, NEW W PROVE Lists(printed, W)' <=> Lists(printed, W)
    OBVIOUS
  <2>1. \A src : [i \in 1..Len(src) |-> LineOf(src[i].rid)'] = [i \in 1..Len(src) |-> LineOf(src[i].rid)]
    BY <1>1
  <2> QED BY <2>1 DEF Lists
<1>3. ASSUME cmd'.end = cmd.end, NEW S, NEW L, NEW printed, NEW ne, Passing(S, L, printed, ne)
      PROVE  Passing(S, L, printed, ne)'
  <2>1. {d \in S \ L : Wanted(d.rid)'} = {d \in S \ L : Wanted(d.rid)}
    BY <1>1
  <2>2. Lists(printed, {d \in S \ L : Wanted(d.rid)})'
    BY <1>2, <1>3, <2>1 DEF Passing
  <2> QED BY <1>3, <2>2 DEF Passing
<1> QED BY <1>1, <1>2, <1>3

\* What is saved in a sorted index are rows, no two of one key.
LEMMA SortedRows ==
  ASSUME EInv, RowLeaves, NEW C, NEW low, Sorted(C, low), obj.mode # "w"
  PROVE  /\ acked = saved
         /\ \A d \in saved : d \in Entry /\ d.key \in Key /\ d.key \in Int /\ table[d.rid + 1].key = d.key
         /\ \A d \in saved : d.rid \in 0..(Len(table) - 1)
         /\ \A d, e \in saved : d.key = e.key => d = e
<1>1. IInv /\ Typed /\ Books /\ op.pc # "up" /\ acked = saved
  <2>1. IInv /\ Typed /\ Books
    BY IsTyped DEF EInv, IInv
  <2>2. obj.mode \in {"none", "r", "w"}
    BY <2>1 DEF Typed, ObjType
  <2> QED BY <2>1, <2>2 DEF Books, Inserting, Sorted, Session
<1>2. /\ C \in SUBSET Pages(size) /\ InOrder(C, low, disk) /\ Content(C, disk, saved)
  BY <1>1 DEF Sorted, Base, Led, AllEntries
<1>3. ASSUME NEW p \in C PROVE disk[p].ents \in Seq(Rows)
  <2>1. p \in DOMAIN disk /\ disk[p].kind = "leaf"
    BY <1>1, <1>2 DEF Typed, Pages, InOrder, LeafInOrder, LeafNode
  <2> HIDE DEF Rows
  <2> QED BY <2>1 DEF RowLeaves, LeavesOf
<1>4. ASSUME NEW d \in saved
      PROVE  /\ d \in Entry /\ d.key \in Key /\ d.key \in Int /\ table[d.rid + 1].key = d.key
             /\ d.rid \in 0..(Len(table) - 1)
  <2>1. PICK p \in C : d \in Members(disk[p].ents)
    BY <1>2 DEF Content
  <2>2. d \in Rows
    <3> HIDE DEF Rows
    <3> QED BY <1>3, <2>1, MembersType
  <2>3. d \in Entry
    BY <2>2, RowsTyped
  <2>4. PICK i \in 1..Len(table) : d = [key |-> table[i].key, rid |-> i - 1]
    BY <2>2 DEF Rows
  <2>5. table[d.rid + 1].key = d.key
    <3>1. d.rid + 1 = i
      BY <2>4
    <3> QED BY <2>4, <3>1
  <2>6. d.rid \in 0..(Len(table) - 1)
    <3>1. d.rid = i - 1 /\ Len(table) \in Nat
      BY <2>4 DEF EInv
    <3> QED BY <3>1
  <2> QED BY <2>3, <2>5, <2>6, EntryKeyed
<1>5. ASSUME NEW d \in saved, NEW e \in saved, d.key = e.key PROVE d = e
  <2>1. PICK p \in C : d \in Members(disk[p].ents)
    BY <1>2 DEF Content
  <2>2. PICK r \in C : e \in Members(disk[r].ents)
    BY <1>2 DEF Content
  <2>3. Covers(C, low, p, d.key) /\ Covers(C, low, r, d.key)
    BY <1>2, <1>5, <2>1, <2>2 DEF InOrder, LeafInOrder
  <2>4. p = r
    BY <1>2, <1>4, <2>3, CoveredOnce
  <2> QED BY <1>2, <1>5, <2>1, <2>2, <2>4, LeafEntries
<1> QED BY <1>1, <1>4, <1>5

\* The conditions on the key hold of what is in the range and not excluded, those
\* on the value are tested.
LEMMA RowTells ==
  ASSUME cmd.q \in Queries, Answerable(cmd.q.conds), NEW e, e.key \in Key,
         table[e.rid + 1].key = e.key
  PROVE  /\ /\ StartKey(cmd.q.conds) <= e.key /\ e.key <= EndKey(cmd.q.conds)
            /\ \A i \in KeyConds(cmd.q.conds, "NE") : cmd.q.conds[i].value # e.key
            => /\ (\A i \in DOMAIN cmd.q.conds : IndexPasses(Row(e), cmd.q.conds[i])) <=> Wanted(e.rid)
               /\ Line(e.rid, Row(e)) = LineOf(e.rid)
         /\ e.key >= 0 /\ Wanted(e.rid) =>
              /\ StartKey(cmd.q.conds) <= e.key /\ e.key <= EndKey(cmd.q.conds)
              /\ \A i \in KeyConds(cmd.q.conds, "NE") : cmd.q.conds[i].value # e.key
         /\ StartKey(cmd.q.conds) >= 0
<1> DEFINE conds == cmd.q.conds
           row   == table[e.rid + 1]
<1>1. /\ \A i \in DOMAIN conds : conds[i].attr \in {"key", "value"}
      /\ \A i \in DOMAIN conds : conds[i].attr = "key" => conds[i].value \in Key
      /\ cmd.q.attr \in {"key", "value", "star", "count"}
  <2>1. conds \in Seq(SelCond) /\ (\A i \in DOMAIN conds : conds[i].attr = "key" => conds[i].value \in Key)
        /\ cmd.q.attr \in {"key", "value", "star", "count"}
    BY QueryAssumption
  <2>2. \A i \in DOMAIN conds : conds[i] \in SelCond
    BY <2>1
  <2> QED BY <2>1, <2>2 DEF SelCond
<1>2. /\ StartKey(conds) <= e.key /\ e.key <= EndKey(conds) <=>
           e.key >= 0 /\ \A i \in DOMAIN conds :
             conds[i].attr = "key" /\ conds[i].comp # "NE" => Passes(e.key - conds[i].value, conds[i].comp)
  BY InRangeIs
<1>3. \A i \in KeyConds(conds, "NE") :
        /\ i \in DOMAIN conds /\ conds[i].attr = "key" /\ conds[i].comp = "NE"
        /\ Passes(e.key - conds[i].value, "NE") <=> conds[i].value # e.key
  <2>1. \A v \in Key : Passes(e.key - v, "NE") <=> v # e.key
    BY Ints DEF Passes
  <2> QED BY <1>1, <2>1 DEF KeyConds
<1>4. Wanted(e.rid) <=> \A i \in DOMAIN conds : Satisfies(row, conds[i])
  BY DEF Wanted
<1>5. \A i \in DOMAIN conds :
        conds[i].attr = "key" => Satisfies(row, conds[i]) <=> Passes(e.key - conds[i].value, conds[i].comp)
  BY DEF Satisfies
<1>6. ASSUME StartKey(conds) <= e.key /\ e.key <= EndKey(conds),
             \A i \in KeyConds(conds, "NE") : conds[i].value # e.key, NEW i \in DOMAIN conds
      PROVE  IndexPasses(Row(e), conds[i]) <=> Satisfies(row, conds[i])
  <2>1. CASE conds[i].attr = "key"
    <3>1. CASE conds[i].comp = "NE"
      <4>1. i \in KeyConds(conds, "NE")
        BY <2>1, <3>1 DEF KeyConds
      <4>2. Satisfies(row, conds[i])
        BY <1>3, <1>5, <1>6, <4>1
      <4> QED BY <2>1, <4>2 DEF IndexPasses
    <3>2. CASE conds[i].comp # "NE"
      <4>1. Satisfies(row, conds[i])
        BY <1>2, <1>5, <1>6, <2>1, <3>2
      <4> QED BY <2>1, <4>1 DEF IndexPasses
    <3> QED BY <3>1, <3>2
  <2>2. CASE conds[i].attr = "value"
    <3>1. Row(e) = row
      BY <2>2 DEF Row, NeedsTable
    <3>2. conds[i].comp # "GT"
      BY <2>2 DEF Answerable
    <3> QED BY <2>2, <3>1, <3>2 DEF IndexPasses, Satisfies
  <2> QED BY <1>1, <2>1, <2>2
<1>7. Line(e.rid, Row(e)) = LineOf(e.rid)
  <2>1. CASE NeedsTable
    BY <2>1 DEF Row, LineOf
  <2>2. CASE ~NeedsTable
    <3>1. cmd.q.attr \in {"key", "count"} /\ Row(e).key = e.key
      BY <1>1, <2>2 DEF NeedsTable, Row
    <3> QED BY <3>1 DEF LineOf, Line
  <2> QED BY <2>1, <2>2
<1>8. e.key >= 0 /\ Wanted(e.rid) => StartKey(conds) <= e.key /\ e.key <= EndKey(conds)
  BY <1>2, <1>4, <1>5
<1>9. Wanted(e.rid) => \A i \in KeyConds(conds, "NE") : conds[i].value # e.key
  BY <1>3, <1>4, <1>5
<1>10. StartKey(conds) >= 0
  BY RangeType
<1> QED BY <1>4, <1>6, <1>7, <1>8, <1>9, <1>10

LEMMA Cuts ==
  ASSUME EInv, size > 0, cmd.q \in Queries,
         cmd.start = Max({StartKey(cmd.q.conds), disk[0].min}),
         cmd.end = Min({EndKey(cmd.q.conds), disk[0].max})
  PROVE  /\ \A d \in saved : /\ cmd.start <= d.key <=> StartKey(cmd.q.conds) <= d.key
                             /\ d.key <= cmd.end <=> d.key <= EndKey(cmd.q.conds)
         /\ cmd.start \in Int /\ cmd.end \in Int /\ cmd.end <= disk[0].max
<1> DEFINE s == StartKey(cmd.q.conds)
           t == EndKey(cmd.q.conds)
<1>1. s \in Int /\ t \in Int /\ disk[0].min \in Int /\ disk[0].max \in Int
  BY RangeType, HeaderTypes, Ints DEF EInv
<1>2. \A d \in saved : d.key \in Int /\ disk[0].min <= d.key /\ d.key <= disk[0].max
  BY EntryKeyed DEF EInv, IInv, Books, Within
<1>3. /\ cmd.start \in {s, disk[0].min} /\ cmd.start >= s /\ cmd.start >= disk[0].min
      /\ cmd.end \in {t, disk[0].max} /\ cmd.end <= t /\ cmd.end <= disk[0].max
  <2>1. PICK a \in Int : a = s
    BY <1>1
  <2>2. PICK b \in Int : b = t
    BY <1>1
  <2>3. PICK m \in Int : m = disk[0].min
    BY <1>1
  <2>4. PICK n \in Int : n = disk[0].max
    BY <1>1
  <2>5. cmd.start = Max({a, m}) /\ cmd.end = Min({b, n})
    BY <2>1, <2>2, <2>3, <2>4
  <2>6. /\ Max({a, m}) \in {a, m} /\ Max({a, m}) >= a /\ Max({a, m}) >= m
        /\ Min({b, n}) \in {b, n} /\ Min({b, n}) <= b /\ Min({b, n}) <= n
    BY TheLarger
  <2> QED BY <2>1, <2>2, <2>3, <2>4, <2>5, <2>6
<1> QED BY <1>1, <1>2, <1>3

\* Where a select on the index path is, in an index that is sorted: the entries of
\* its range, and those of them it has yet to come to.
Sought == {d \in saved : d.key >= cmd.start}
ToCome == Ahead \cup (IF cmd.pc = "row" THEN {cmd.entry} ELSE {})
Answer == {d \in saved : d.key >= 0 /\ Wanted(d.rid)}

Searching ==
  /\ cmd.printed = <<>> /\ cmd.ne = KeyConds(cmd.q.conds, "NE")
  /\ cmd.pc = "seek" => op.pc = "seek" /\ op.key = cmd.start /\ Sought # {}
  /\ cmd.pc \in {"first", "again"} /\ cursor # NoCursor => Ahead = Sought /\ Sought # {}
  /\ cmd.pc = "again" => out.call # "locate"

Listing ==
  /\ Passing(Sought, ToCome, cmd.printed, cmd.ne)
  /\ cmd.pc = "row" =>
       /\ \A d \in Ahead : cmd.entry.key < d.key
       /\ cmd.status # "OK" => Ahead = {}
  /\ cmd.pc \in {"row", "next"} => out.call # "locate"
  /\ cmd.pc = "end" => Ahead = {}

InReach ==
  /\ cmd.start = Max({StartKey(cmd.q.conds), disk[0].min})
  /\ cmd.end = Min({EndKey(cmd.q.conds), disk[0].max})
  /\ cmd.ne \subseteq KeyConds(cmd.q.conds, "NE")

Progress ==
  cmd.call = "select" /\ Answerable(cmd.q.conds) =>
    /\ cmd.pc = "index" =>
         /\ cmd.start = StartKey(cmd.q.conds) /\ cmd.end = EndKey(cmd.q.conds)
         /\ cmd.ne = KeyConds(cmd.q.conds, "NE")
    /\ cmd.pc \in OnIndex => InReach
    /\ cmd.pc \in {"locate", "seek", "first", "again"} => Searching
    /\ cmd.pc \in {"row", "next", "end"} => Listing
    /\ Answered("index") => Lists(cmd.printed, Answer)

\* What a step of a select leaves as it was.
LEMMA Kept ==
  ASSUME EInv, SelectStep
  PROVE  /\ disk' = disk /\ size' = size /\ saved' = saved /\ table' = table
         /\ cmd' \in SelectShape(cmd') /\ cmd \in SelectShape(cmd)
         /\ cmd.call = "select" /\ cmd'.call = "select" /\ cmd'.q = cmd.q
         /\ cmd'.start = cmd.start => Sought' = Sought
         /\ cursor' = cursor => Ahead' = Ahead
         /\ Answer' = Answer
<1>1. /\ saved' = saved /\ table' = table /\ cmd.call = "select" /\ cmd'.call = "select" /\ cmd'.q = cmd.q
  BY SelectSaves
<1>2. cmd \in SelectShape(cmd)
  BY SelectIsSelect
<1>3. Commands'
  BY SelectStepsStep DEF Stepped
<1>4. disk' = disk /\ size' = size
  BY SelectUsesIndex DEF Open, Abandon, LocateCall, SeekDown, SeekLeaf, ReadForward, vars
<1>5. cursor' = cursor => Ahead' = Ahead
  BY <1>4, AheadIs
<1>6. \A r : Wanted(r)' <=> Wanted(r)
  BY <1>1, SamePassing
<1>7. Answer' = Answer
  BY <1>1, <1>6 DEF Answer
<1> QED BY <1>1, <1>2, <1>3, <1>4, <1>5, <1>7 DEF Commands, Sought

LEMMA OpensProgress ==
  ASSUME EInv, Scanned, Progress, Answerable(cmd.q.conds), SelectOpensIndex
  PROVE  Progress'
<1>1. /\ disk' = disk /\ cmd' \in SelectShape(cmd') /\ cmd \in SelectShape(cmd)
      /\ cmd.call = "select" /\ cmd'.call = "select" /\ cmd'.q = cmd.q
  BY Kept DEF SelectStep
<1>2. /\ cmd.pc = "index" /\ cmd.printed = <<>>
      /\ cmd' = [cmd EXCEPT !.pc = "locate", !.path = "index", !.held = {"idx"},
                            !.start = Max({@, obj'.min}), !.end = Min({@, obj'.max})]
      /\ obj'.min = disk[0].min /\ obj'.max = disk[0].max
  BY <1>1 DEF SelectOpensIndex, Open, Scanned
<1>3. cmd.start = StartKey(cmd.q.conds) /\ cmd.end = EndKey(cmd.q.conds)
      /\ cmd.ne = KeyConds(cmd.q.conds, "NE")
  BY <1>1, <1>2 DEF Progress
<1>4. /\ cmd'.pc = "locate" /\ cmd'.printed = <<>> /\ cmd'.ne = cmd.ne
      /\ cmd'.start = Max({cmd.start, disk[0].min}) /\ cmd'.end = Min({cmd.end, disk[0].max})
  BY <1>1, <1>2 DEF SelectShape
<1>5. InReach'
  BY <1>1, <1>3, <1>4 DEF InReach
<1>6. Searching'
  BY <1>1, <1>2, <1>3, <1>4 DEF Searching
<1> QED BY <1>4, <1>5, <1>6 DEF Progress, Answered

\* The fields of the command that most steps keep, and what goes with them.
LEMMA SameReach ==
  ASSUME EInv, SelectStep, InReach,
         cmd'.start = cmd.start, cmd'.end = cmd.end, cmd'.ne \subseteq cmd.ne
  PROVE  InReach'
BY Kept DEF InReach

LEMMA LocatesProgress ==
  ASSUME EInv, RowLeaves, Sitting, Seated, NEW C, NEW low, Sorted(C, low), Progress,
         Answerable(cmd.q.conds), SelectLocates
  PROVE  Progress'
<1>1. /\ disk' = disk /\ cmd' \in SelectShape(cmd') /\ cmd \in SelectShape(cmd)
      /\ cmd.call = "select" /\ cmd'.call = "select" /\ cmd'.q = cmd.q
      /\ cmd'.start = cmd.start => Sought' = Sought
  BY Kept DEF SelectStep
<1>2. cmd.pc \in {"locate", "seek"} /\ cmd' = [cmd EXCEPT !.pc = IF op' = Idle THEN "first" ELSE "seek"]
  BY DEF SelectLocates, Goto
<1>3. /\ cmd'.printed = cmd.printed /\ cmd'.ne = cmd.ne /\ cmd'.start = cmd.start /\ cmd'.end = cmd.end
      /\ cmd'.pc = IF op' = Idle THEN "first" ELSE "seek"
  BY <1>1, <1>2 DEF SelectShape
<1>4. Searching /\ InReach /\ obj.mode = "r"
  BY <1>1, <1>2 DEF Progress, OnIndex, Seated
<1>5. InReach'
  BY <1>3, <1>4, SameReach DEF SelectStep
<1>6. IInv /\ Typed /\ size > 0
  BY <1>4, IsTyped DEF EInv, Typed
<1> SUFFICES /\ cmd'.pc = "seek" => op'.pc = "seek" /\ op'.key = cmd.start /\ Sought # {}
             /\ cmd'.pc = "first" /\ cursor' # NoCursor => Ahead' = Sought /\ Sought # {}
  <2>1. cmd'.pc \in {"first", "seek"} /\ Sought' = Sought
    BY <1>1, <1>3
  <2>2. Searching'
    BY <1>1, <1>3, <1>4, <2>1 DEF Searching
  <2> QED BY <1>5, <2>1, <2>2 DEF Progress, Answered
<1>7. CASE cmd.pc = "locate"
  <2>1. LocateCall(cmd.start) /\ cmd.start <= cmd.end /\ cursor' = NoCursor
    BY <1>7 DEF SelectLocates, LocateCall
  <2>2. CASE obj.height = 0
    <3>1. op' = Idle
      BY <2>1, <2>2 DEF LocateCall
    <3> QED BY <1>3, <2>1, <3>1
  <2>3. CASE obj.height # 0
    <3>1. op' = [pc |-> "seek", key |-> cmd.start, at |-> obj.root, level |-> 1]
      BY <2>1, <2>3 DEF LocateCall
    <3>2. disk[0].height # 0 /\ TightMax(disk[0], saved)
      BY <1>4, <1>6, <2>3 DEF Sitting, Session
    <3>3. PICK e \in saved : e.key = disk[0].max
      BY <3>2 DEF TightMax
    <3>4. cmd.start \in Int /\ cmd.end \in Int /\ cmd.end <= disk[0].max
      BY <1>1, <1>4, <1>6, Cuts DEF InReach, SelectShape
    <3>5. e.key \in Int
      BY <1>4, SortedRows
    <3>6. e \in Sought
      BY <2>1, <3>3, <3>4, <3>5 DEF Sought
    <3> QED BY <2>1, <3>1, <3>6
  <2> QED BY <2>2, <2>3
<1>8. CASE cmd.pc = "seek"
  <2>1. op.pc = "seek" /\ op.key = cmd.start /\ Sought # {}
    BY <1>4, <1>8 DEF Searching
  <2>2. CASE SeekDown
    <3>1. op' = [op EXCEPT !.at = ChildPtr(disk[op.at], op.key), !.level = @ + 1]
      BY <2>2 DEF SeekDown
    <3>2. op \in [pc : {"seek"}, key : Key, at : Pages(size), level : Nat]
      BY <1>6, <2>1, SeekTyped
    <3>3. op'.pc = "seek" /\ op'.key = op.key
      BY <3>1, <3>2
    <3>4. op' # Idle
      BY <3>3 DEF Idle
    <3> QED BY <1>3, <2>1, <3>3, <3>4
  <2>3. CASE SeekLeaf
    <3>1. Ordered!Search(op.key)
      BY <1>6, <2>3, SearchIs
    <3>2. Ahead' = {e \in acked : e.key >= op.key}
      BY <3>1 DEF Ordered!Search
    <3>3. Ahead' = Sought
      BY <1>4, <2>1, <3>2, SortedRows DEF Sought
    <3>4. op' = Idle
      BY <2>3 DEF SeekLeaf
    <3> QED BY <1>3, <2>1, <3>3, <3>4
  <2> QED BY <1>8, <2>2, <2>3 DEF SelectLocates
<1> QED BY <1>2, <1>7, <1>8

LEMMA ReadsProgress ==
  ASSUME EInv, RowLeaves, Seated, NEW C, NEW low, Sorted(C, low), Progress,
         Answerable(cmd.q.conds), SelectReads
  PROVE  Progress'
<1>1. /\ disk' = disk /\ cmd' \in SelectShape(cmd') /\ cmd \in SelectShape(cmd) /\ table' = table
      /\ cmd.call = "select" /\ cmd'.call = "select" /\ cmd'.q = cmd.q
      /\ cmd'.start = cmd.start => Sought' = Sought
  BY Kept DEF SelectStep
<1>2. /\ cmd.pc \in {"first", "again", "next"} /\ ReadForward
      /\ cmd' = [cmd EXCEPT !.pc = IF ReadAgain(out'.rc) THEN "again" ELSE "row",
                            !.status = IF cmd.pc = "again" THEN "OK" ELSE out'.rc,
                            !.entry = IF out'.entry = NoEntry THEN @ ELSE out'.entry]
  BY DEF SelectReads
<1>3. /\ cmd'.printed = cmd.printed /\ cmd'.ne = cmd.ne /\ cmd'.start = cmd.start /\ cmd'.end = cmd.end
      /\ cmd'.pc = (IF ReadAgain(out'.rc) THEN "again" ELSE "row")
      /\ cmd'.status = (IF cmd.pc = "again" THEN "OK" ELSE out'.rc)
      /\ cmd'.entry = IF out'.entry = NoEntry THEN cmd.entry ELSE out'.entry
  BY <1>1, <1>2 DEF SelectShape
<1>4. /\ obj.mode = "r" /\ InReach /\ Typed /\ cursor # NoCursor
      /\ cmd.pc \in {"first", "again"} => Searching
      /\ cmd.pc = "next" => Listing
  BY <1>1, <1>2, IsTyped DEF Progress, OnIndex, Seated, EInv, ReadForward
<1>5. InReach' /\ Sought' = Sought
  BY <1>1, <1>3, <1>4, SameReach DEF SelectStep
<1>6. Passing(Sought, Ahead, cmd.printed, cmd.ne) /\ Ahead \subseteq Sought
  <2>1. CASE cmd.pc = "next"
    <3>1. ToCome = Ahead
      BY <2>1 DEF ToCome
    <3> QED BY <1>4, <2>1, <3>1 DEF Listing, Passing
  <2>2. CASE cmd.pc \in {"first", "again"}
    <3>1. Ahead = Sought /\ cmd.printed = <<>> /\ cmd.ne = KeyConds(cmd.q.conds, "NE")
      BY <1>4, <2>2 DEF Searching
    <3>2. Sought \ Ahead = {}
      BY <3>1
    <3>3. {d \in Sought \ Ahead : Wanted(d.rid)} = {}
      BY <3>2
    <3> QED BY <3>1, <3>2, <3>3, ListsNothing DEF Passing
  <2> QED BY <1>2, <2>1, <2>2
<1>7. out'.call = "readForward"
  BY <1>2 DEF ReadForward
<1>8. CASE Ordered!ReadNothing
  <2>1. out.call = "locate" /\ Ahead' = Ahead /\ out'.entry = NoEntry
        /\ out'.rc = IF Ahead = {} THEN "RC_INVALID_CURSOR" ELSE "RC_NO_SUCH_RECORD"
    BY <1>8 DEF Ordered!ReadNothing, Ordered!Answers
  <2>2. cmd.pc = "first" /\ Ahead = Sought /\ Sought # {}
    BY <1>2, <1>4, <2>1 DEF Searching, Listing
  <2>3. cmd'.pc = "again"
    BY <1>3, <2>1, <2>2 DEF ReadAgain
  <2>4. Searching'
    BY <1>1, <1>3, <1>4, <1>5, <1>7, <2>1, <2>2, <2>3 DEF Searching
  <2> QED BY <1>5, <2>3, <2>4 DEF Progress, Answered
<1>9. CASE \E e \in Entry : Ordered!Read(e)
  <2>1. PICK e \in Entry : Ordered!Read(e)
    BY <1>9
  <2>2. /\ e \in Ahead /\ (\A d \in Ahead : e.key <= d.key) /\ Ahead' = Ahead \ {e} /\ out'.entry = e
        /\ out'.rc = IF Ahead' = {} THEN "RC_INVALID_CURSOR" ELSE "OK"
    BY <2>1 DEF Ordered!Read, Ordered!Answers
  <2>3. e # NoEntry
    BY NoEntryAssumption DEF Entry
  <2>4. cmd'.pc = "row" /\ cmd'.entry = e /\ (cmd'.status # "OK" => Ahead' = {})
    BY <1>3, <2>2, <2>3 DEF ReadAgain
  <2>5. \A d \in Ahead' : e.key < d.key
    <3> SUFFICES ASSUME NEW d \in Ahead' PROVE e.key < d.key
      OBVIOUS
    <3>1. d \in saved /\ e \in saved /\ d # e /\ e.key <= d.key
      BY <1>6, <2>2 DEF Sought
    <3>2. d.key \in Int /\ e.key \in Int /\ d.key # e.key
      BY <1>4, <3>1, SortedRows
    <3> QED BY <3>1, <3>2
  <2>6. ToCome' = Ahead
    BY <2>2, <2>4 DEF ToCome
  <2>7. Passing(Sought, ToCome, cmd.printed, cmd.ne)'
    <3>1. PICK S, L, printed, ne : S = Sought /\ L = Ahead /\ printed = cmd.printed /\ ne = cmd.ne
      OBVIOUS
    <3>2. Passing(S, L, printed, ne)'
      BY <1>1, <1>3, <1>6, <3>1, SamePassing
    <3>3. Sought' = S /\ ToCome' = L /\ cmd'.printed = printed /\ cmd'.ne = ne
      BY <1>3, <1>5, <2>6, <3>1
    <3> QED BY <3>2, <3>3
  <2>8. Listing'
    BY <1>7, <2>4, <2>5, <2>7 DEF Listing
  <2> QED BY <1>5, <2>4, <2>8 DEF Progress, Answered
<1> QED BY <1>2, <1>4, <1>8, <1>9, ReadIs

\* The row that select is at.
LEMMA AtRow ==
  ASSUME EInv, RowLeaves, NEW C, NEW low, Sorted(C, low), obj.mode = "r", cmd.call = "select",
         cmd.pc = "row", InReach, Listing, NEW e, e = cmd.entry
  PROVE  /\ e \in saved /\ e \in ToCome /\ e.key \in Key /\ e.key \in Int /\ table[e.rid + 1].key = e.key
         /\ StartKey(cmd.q.conds) <= e.key
         /\ e.key <= cmd.end <=> e.key <= EndKey(cmd.q.conds)
         /\ ToCome \ {e} = Ahead /\ \A d \in ToCome : d # e => e.key < d.key
         /\ \A d \in Sought : d.key \in Int
         /\ Dropping = {} => \A i \in KeyConds(cmd.q.conds, "NE") : cmd.q.conds[i].value # e.key
         /\ Dropping # {} => Min(Dropping) \in Dropping
<1>1. size > 0 /\ cmd.q \in Queries
  BY IsTyped DEF EInv, Typed, Commands, SelectShape
<1>2. \A d \in saved : /\ cmd.start <= d.key <=> StartKey(cmd.q.conds) <= d.key
                       /\ d.key <= cmd.end <=> d.key <= EndKey(cmd.q.conds)
  BY <1>1, Cuts DEF InReach
<1>3. \A d \in saved : d.key \in Key /\ d.key \in Int /\ table[d.rid + 1].key = d.key
  BY SortedRows
<1>4. /\ ToCome = Ahead \cup {e} /\ ToCome \subseteq Sought
      /\ \A d \in Ahead : e.key < d.key
      /\ \A d \in Sought \ ToCome, x \in ToCome : d.key < x.key
  BY DEF Listing, Passing, ToCome
<1>5. e \in saved /\ cmd.start \in Int /\ e.key >= cmd.start
  BY <1>1, <1>4, Cuts DEF InReach, Sought
<1>6. cmd.start <= e.key
  BY <1>3, <1>5
<1>7. ~(e.key < e.key) /\ e \notin Ahead
  BY <1>3, <1>4, <1>5
<1>8. \A d \in Sought : d.key \in Int
  BY <1>3 DEF Sought
<1>9. ASSUME Dropping = {}, NEW i \in KeyConds(cmd.q.conds, "NE") PROVE cmd.q.conds[i].value # e.key
  <2>1. CASE i \in cmd.ne
    BY <1>9, <2>1 DEF Dropping
  <2>2. CASE i \notin cmd.ne
    <3>1. PICK d \in Sought \ ToCome : d.key = cmd.q.conds[i].value
      BY <2>2 DEF Listing, Passing
    <3>2. d.key < e.key /\ d.key \in Int
      BY <1>4, <1>8, <3>1
    <3> QED BY <1>3, <1>5, <3>1, <3>2
  <2> QED BY <2>1, <2>2
<1>10. ASSUME Dropping # {} PROVE Min(Dropping) \in Dropping
  <2>1. cmd.q.conds \in Seq(SelCond)
    BY <1>1, QueryAssumption
  <2>2. Dropping \subseteq Nat
    BY <2>1 DEF Dropping, InReach, KeyConds
  <2>3. \E n \in Dropping : \A m \in Dropping : n <= m
    <3> DEFINE D == Dropping
    <3> HIDE DEF D
    <3>1. D \subseteq Nat /\ D # {}
      BY <1>10, <2>2 DEF D
    <3>2. \E n \in D : \A m \in D : n <= m
      BY <3>1, MinExists
    <3> QED BY <3>2 DEF D
  <2> QED BY <2>3, Zenon DEF Min
<1> QED BY <1>2, <1>3, <1>4, <1>5, <1>6, <1>7, <1>8, <1>9, <1>10

\* The entry is passed over, or its row printed: in both cases it is behind.
LEMMA RowProgress ==
  ASSUME EInv, RowLeaves, Seated, NEW C, NEW low, Sorted(C, low), Progress,
         Answerable(cmd.q.conds), SelectSkips \/ SelectRow
  PROVE  Progress'
<1> DEFINE e == cmd.entry
<1>1. /\ cmd' \in SelectShape(cmd') /\ cmd \in SelectShape(cmd) /\ table' = table
      /\ cmd.call = "select" /\ cmd'.call = "select" /\ cmd'.q = cmd.q
      /\ cmd'.start = cmd.start => Sought' = Sought
      /\ cursor' = cursor => Ahead' = Ahead
  BY Kept DEF SelectStep
<1>2. cmd.pc = "row" /\ e.key <= cmd.end /\ cursor' = cursor /\ out' = out
  BY DEF SelectSkips, SelectRow, InRange, vars
<1>3. cmd'.start = cmd.start /\ cmd'.end = cmd.end /\ cmd'.pc = IF cmd.status = "OK" THEN "next" ELSE "end"
  BY <1>1 DEF SelectSkips, SelectRow, SelectShape
<1>4. obj.mode = "r" /\ InReach /\ Listing /\ cmd.q \in Queries
  BY <1>1, <1>2 DEF Progress, OnIndex, Seated, SelectShape
<1>5. /\ e \in saved /\ e \in ToCome /\ e.key \in Key /\ e.key \in Int /\ table[e.rid + 1].key = e.key
      /\ StartKey(cmd.q.conds) <= e.key
      /\ e.key <= cmd.end <=> e.key <= EndKey(cmd.q.conds)
      /\ ToCome \ {e} = Ahead /\ \A d \in ToCome : d # e => e.key < d.key
      /\ \A d \in Sought : d.key \in Int
      /\ Dropping = {} => \A i \in KeyConds(cmd.q.conds, "NE") : cmd.q.conds[i].value # e.key
      /\ Dropping # {} => Min(Dropping) \in Dropping
  BY <1>1, <1>2, <1>4, AtRow
<1>6. /\ cmd'.ne \subseteq cmd.ne /\ \A i \in cmd.ne \ cmd'.ne : cmd.q.conds[i].value = e.key
      /\ cmd'.printed = IF Wanted(e.rid) THEN Append(cmd.printed, LineOf(e.rid)) ELSE cmd.printed
  <2>1. CASE SelectSkips
    <3>1. Dropping # {} /\ cmd'.printed = cmd.printed /\ cmd'.ne = cmd.ne \ {Min(Dropping)}
      BY <1>1, <2>1 DEF SelectSkips, SelectShape
    <3>2. PICK i \in Dropping : i = Min(Dropping)
      BY <1>5, <3>1
    <3>3. i \in cmd.ne /\ cmd.q.conds[i].value = e.key /\ i \in KeyConds(cmd.q.conds, "NE")
      BY <1>4 DEF Dropping, InReach
    <3>4. e.key >= 0
      <4>1. StartKey(cmd.q.conds) \in Int /\ StartKey(cmd.q.conds) >= 0
        BY <1>4, RangeType, Ints
      <4> QED BY <1>5, <4>1
    <3>5. ~Wanted(e.rid)
      BY <1>4, <1>5, <3>3, <3>4, RowTells
    <3> QED BY <3>1, <3>2, <3>3, <3>5
  <2>2. CASE SelectRow
    <3> DEFINE ok == \A i \in DOMAIN cmd.q.conds : IndexPasses(Row(e), cmd.q.conds[i])
    <3>1. Dropping = {} /\ cmd'.ne = cmd.ne
          /\ cmd'.printed = IF ok THEN Append(cmd.printed, Line(e.rid, Row(e))) ELSE cmd.printed
      <4>1. /\ Dropping = {}
            /\ cmd' = [cmd EXCEPT !.pc = IF cmd.status = "OK" THEN "next" ELSE "end",
                                  !.printed = IF ok THEN Append(@, Line(e.rid, Row(e))) ELSE @]
        BY <2>2 DEF SelectRow
      <4> HIDE DEF ok, e
      <4> QED BY <1>1, <4>1 DEF SelectShape
    <3>2. (ok <=> Wanted(e.rid)) /\ Line(e.rid, Row(e)) = LineOf(e.rid)
      <4>1. /\ StartKey(cmd.q.conds) <= e.key /\ e.key <= EndKey(cmd.q.conds)
            /\ \A i \in KeyConds(cmd.q.conds, "NE") : cmd.q.conds[i].value # e.key
        BY <1>2, <1>5, <3>1
      <4>2. cmd.q \in Queries /\ Answerable(cmd.q.conds) /\ e.key \in Key /\ table[e.rid + 1].key = e.key
        BY <1>2, <1>4, <1>5
      <4>3. /\ StartKey(cmd.q.conds) <= e.key /\ e.key <= EndKey(cmd.q.conds)
            /\ \A i \in KeyConds(cmd.q.conds, "NE") : cmd.q.conds[i].value # e.key
            => (ok <=> Wanted(e.rid)) /\ Line(e.rid, Row(e)) = LineOf(e.rid)
        <5> HIDE DEF e
        <5> QED BY <4>2, RowTells
      <4> HIDE DEF ok
      <4> QED BY <4>1, <4>3
    <3> HIDE DEF ok
    <3> QED BY <3>1, <3>2
  <2> QED BY <2>1, <2>2
<1>7. Passing(Sought, Ahead, cmd'.printed, cmd'.ne)
  <2>1. PICK ne, printed : ne = cmd'.ne
                           /\ printed = IF Wanted(e.rid) THEN Append(cmd.printed, LineOf(e.rid)) ELSE cmd.printed
    OBVIOUS
  <2>2. Passing(Sought, ToCome, cmd.printed, cmd.ne)
    BY <1>4 DEF Listing
  <2>3. Passing(Sought, ToCome \ {e}, printed, ne)
    BY <1>2, <1>5, <1>6, <2>1, <2>2, PassOn
  <2> QED BY <1>5, <1>6, <2>1, <2>3
<1>8. Ahead' = Ahead /\ Sought' = Sought /\ ToCome' = Ahead
  BY <1>1, <1>2, <1>3 DEF ToCome
<1>9. Passing(Sought, ToCome, cmd.printed, cmd.ne)'
  <2>1. PICK S, L, printed, ne : S = Sought /\ L = Ahead /\ printed = cmd'.printed /\ ne = cmd'.ne
    OBVIOUS
  <2>2. Passing(S, L, printed, ne)'
    BY <1>1, <1>3, <1>7, <2>1, SamePassing
  <2>3. Sought' = S /\ ToCome' = L /\ cmd'.printed = printed /\ cmd'.ne = ne
    BY <1>8, <2>1
  <2> QED BY <2>2, <2>3
<1>10. InReach'
  BY <1>3, <1>4, <1>6, SameReach DEF SelectStep
<1>11. out.call # "locate" /\ (cmd.status # "OK" => Ahead = {})
  BY <1>2, <1>4 DEF Listing
<1>12. Listing'
  BY <1>2, <1>3, <1>8, <1>9, <1>11 DEF Listing
<1> QED BY <1>3, <1>10, <1>12 DEF Progress, Answered

\* The table is opened for the row: the row is still to be tested.
LEMMA TableProgress ==
  ASSUME EInv, Seated, Progress, Answerable(cmd.q.conds), SelectOpensTable \/ SelectReadFails
  PROVE  Progress'
<1>1. /\ cmd' \in SelectShape(cmd') /\ cmd \in SelectShape(cmd) /\ table' = table
      /\ cmd.call = "select" /\ cmd'.call = "select" /\ cmd'.q = cmd.q
      /\ cmd'.start = cmd.start => Sought' = Sought
      /\ cursor' = cursor => Ahead' = Ahead
  BY Kept DEF SelectStep
<1>2. CASE cmd'.pc = "done" /\ cmd'.rc # "OK"
  BY <1>2 DEF Progress, Answered, OnIndex
<1>3. CASE SelectReadFails
  <2>1. cmd'.pc = "done" /\ cmd'.rc # "OK"
    BY <1>1, <1>3 DEF SelectReadFails, Returns, SelectShape
  <2> QED BY <1>2, <2>1
<1>4. CASE SelectOpensTable /\ TableCannot
  <2>1. cmd'.pc = "done" /\ cmd'.rc # "OK"
    BY <1>1, <1>4 DEF TableCannot, Returns, SelectShape
  <2> QED BY <1>2, <2>1
<1>5. CASE SelectOpensTable /\ OpensFile("tbl", "row") /\ UNCHANGED vars
  <2>1. cmd.pc = "row" /\ InReach /\ Listing
    BY <1>1, <1>5 DEF SelectOpensTable, InRange, Progress, OnIndex
  <2>2. /\ cmd'.pc = "row" /\ cmd'.printed = cmd.printed /\ cmd'.ne = cmd.ne /\ cmd'.start = cmd.start
        /\ cmd'.end = cmd.end /\ cmd'.entry = cmd.entry /\ cmd'.status = cmd.status
        /\ cursor' = cursor /\ out' = out
    BY <1>1, <1>5 DEF OpensFile, SelectShape, vars
  <2>3. Ahead' = Ahead /\ Sought' = Sought /\ ToCome' = ToCome
    BY <1>1, <2>1, <2>2 DEF ToCome
  <2>4. Passing(Sought, ToCome, cmd.printed, cmd.ne)'
    <3>1. PICK S, L, printed, ne : S = Sought /\ L = ToCome /\ printed = cmd.printed /\ ne = cmd.ne
      OBVIOUS
    <3>2. Passing(S, L, printed, ne)
      BY <2>1, <3>1 DEF Listing
    <3>3. Passing(S, L, printed, ne)'
      BY <1>1, <2>2, <3>2, SamePassing
    <3>4. Sought' = S /\ ToCome' = L /\ cmd'.printed = printed /\ cmd'.ne = ne
      BY <2>2, <2>3, <3>1
    <3> QED BY <3>3, <3>4
  <2>5. Listing'
    BY <2>1, <2>2, <2>3, <2>4 DEF Listing
  <2>6. InReach'
    BY <1>5, <2>1, <2>2, SameReach DEF SelectStep
  <2> QED BY <2>2, <2>5, <2>6 DEF Progress, Answered
<1> QED BY <1>3, <1>4, <1>5 DEF SelectOpensTable

\* What is wanted is in the range, and behind.
LEMMA EndsProgress ==
  ASSUME EInv, RowLeaves, Seated, NEW C, NEW low, Sorted(C, low), Progress,
         Answerable(cmd.q.conds), IndexEnds
  PROVE  Progress'
<1>1. /\ cmd' \in SelectShape(cmd') /\ cmd \in SelectShape(cmd) /\ table' = table
      /\ cmd.call = "select" /\ cmd'.call = "select" /\ cmd'.q = cmd.q
      /\ Answer' = Answer
  BY Kept DEF SelectStep
<1>2. cmd'.pc = "done" /\ cmd'.printed = cmd.printed
  BY <1>1 DEF IndexEnds, Returns, SelectShape
<1>3. \/ cmd.pc = "end"
      \/ cmd.pc = "row" /\ cmd.entry.key > cmd.end
      \/ cmd.pc = "locate" /\ cmd.start > cmd.end
  BY DEF IndexEnds
<1>4. obj.mode = "r" /\ InReach /\ cmd.q \in Queries /\ size > 0 /\ cmd.start \in Int /\ cmd.end \in Int
  BY <1>1, <1>3, IsTyped DEF Progress, OnIndex, Seated, SelectShape, EInv, Typed
<1>5. \A d \in saved : d.key \in Key /\ d.key \in Int /\ table[d.rid + 1].key = d.key
  BY <1>4, SortedRows
<1>6. \A d \in saved : /\ cmd.start <= d.key <=> StartKey(cmd.q.conds) <= d.key
                       /\ d.key <= cmd.end <=> d.key <= EndKey(cmd.q.conds)
  BY <1>4, Cuts DEF InReach
<1>7. StartKey(cmd.q.conds) \in Int /\ StartKey(cmd.q.conds) >= 0
  BY <1>4, RangeType, Ints
<1>8. \A d \in Answer : d \in Sought /\ d.key <= cmd.end
  <2> SUFFICES ASSUME NEW d \in Answer PROVE d \in Sought /\ d.key <= cmd.end
    OBVIOUS
  <2>1. d \in saved /\ d.key >= 0 /\ Wanted(d.rid)
    BY DEF Answer
  <2>2. StartKey(cmd.q.conds) <= d.key /\ d.key <= EndKey(cmd.q.conds)
    BY <1>4, <1>5, <2>1, RowTells
  <2>3. cmd.start <= d.key /\ d.key <= cmd.end
    BY <1>6, <2>1, <2>2
  <2> QED BY <1>4, <1>5, <2>1, <2>3 DEF Sought
<1>9. \A d \in Sought : d \in saved /\ d.key \in Int /\ (Wanted(d.rid) => d \in Answer)
  <2> SUFFICES ASSUME NEW d \in Sought, Wanted(d.rid) PROVE d \in Answer
    BY <1>5 DEF Sought
  <2>1. d \in saved /\ cmd.start <= d.key /\ d.key \in Int
    BY <1>4, <1>5 DEF Sought
  <2>2. d.key >= 0
    BY <1>6, <1>7, <2>1
  <2> QED BY <2>1, <2>2 DEF Answer
<1>10. Lists(cmd.printed, Answer)
  <2>1. CASE cmd.pc = "locate" /\ cmd.start > cmd.end
    <3>1. cmd.printed = <<>>
      BY <1>1, <2>1 DEF Progress, Searching
    <3>2. Answer = {}
      <4> SUFFICES ASSUME NEW d \in Answer PROVE FALSE
        OBVIOUS
      <4>1. d.key >= cmd.start /\ d.key <= cmd.end /\ d.key \in Int
        BY <1>8, <1>9 DEF Sought
      <4> QED BY <1>4, <2>1, <4>1
    <3> QED BY <3>1, <3>2, ListsNothing
  <2>2. ASSUME Listing, \A d \in ToCome : ~(d.key <= cmd.end) PROVE Lists(cmd.printed, Answer)
    <3>1. Lists(cmd.printed, {d \in Sought \ ToCome : Wanted(d.rid)})
      BY <2>2 DEF Listing, Passing
    <3>2. {d \in Sought \ ToCome : Wanted(d.rid)} = Answer
      <4>1. \A d \in Answer : d \in Sought \ ToCome /\ Wanted(d.rid)
        BY <1>8, <2>2 DEF Answer
      <4>2. \A d \in Sought \ ToCome : Wanted(d.rid) => d \in Answer
        BY <1>9
      <4> QED BY <4>1, <4>2
    <3> QED BY <3>1, <3>2
  <2>3. CASE cmd.pc = "end"
    <3>1. Listing /\ ToCome = {}
      BY <1>1, <2>3 DEF Progress, Listing, ToCome
    <3> QED BY <2>2, <3>1
  <2>4. CASE cmd.pc = "row" /\ cmd.entry.key > cmd.end
    <3>1. Listing
      BY <1>1, <2>4 DEF Progress
    <3>2. /\ cmd.entry \in ToCome /\ cmd.entry.key \in Int /\ ToCome \subseteq Sought
          /\ \A d \in ToCome : d # cmd.entry => cmd.entry.key < d.key
      BY <1>1, <1>4, <2>4, <3>1, AtRow DEF Listing, Passing
    <3>3. \A d \in ToCome : ~(d.key <= cmd.end)
      <4> SUFFICES ASSUME NEW d \in ToCome PROVE ~(d.key <= cmd.end)
        OBVIOUS
      <4>1. d.key \in Int
        BY <1>9, <3>2
      <4>2. d = cmd.entry \/ cmd.entry.key < d.key
        BY <3>2
      <4> QED BY <1>4, <2>4, <3>2, <4>1, <4>2
    <3> QED BY <2>2, <3>1, <3>3
  <2> QED BY <1>3, <2>1, <2>3, <2>4
<1>11. Lists(cmd.printed, Answer)'
  <2>1. PICK printed, W : printed = cmd.printed /\ W = Answer
    OBVIOUS
  <2>2. Lists(printed, W)'
    BY <1>1, <1>10, <2>1, SamePassing
  <2>3. cmd'.printed = printed /\ Answer' = W
    BY <1>1, <1>2, <2>1
  <2> QED BY <2>2, <2>3
<1> QED BY <1>2, <1>11 DEF Progress, OnIndex

LEMMA IdleProgress ==
  ASSUME Progress, UNCHANGED allVars
  PROVE  Progress'
<1>1. /\ cmd' = cmd /\ table' = table /\ saved' = saved /\ disk' = disk /\ size' = size /\ op' = op
      /\ cursor' = cursor /\ out' = out
  BY DEF allVars, engineVars, vars
<1>2. Ahead' = Ahead
  BY <1>1, AheadIs
<1>3. Sought' = Sought /\ ToCome' = ToCome
  BY <1>1, <1>2 DEF Sought, ToCome
<1>4. Answer' = Answer
  <2>1. \A r : Wanted(r)' <=> Wanted(r)
    BY <1>1, SamePassing
  <2> QED BY <1>1, <2>1 DEF Answer
<1>5. Passing(Sought, ToCome, cmd.printed, cmd.ne) => Passing(Sought, ToCome, cmd.printed, cmd.ne)'
  <2>1. PICK S, L, printed, ne : S = Sought /\ L = ToCome /\ printed = cmd.printed /\ ne = cmd.ne
    OBVIOUS
  <2>2. Passing(S, L, printed, ne) => Passing(S, L, printed, ne)'
    BY <1>1, SamePassing
  <2>3. Sought' = S /\ ToCome' = L /\ cmd'.printed = printed /\ cmd'.ne = ne
    BY <1>1, <1>3, <2>1
  <2> QED BY <2>1, <2>2, <2>3
<1>6. Lists(cmd.printed, Answer) => Lists(cmd.printed, Answer)'
  <2>1. PICK printed, W : printed = cmd.printed /\ W = Answer
    OBVIOUS
  <2>2. Lists(printed, W) => Lists(printed, W)'
    BY <1>1, SamePassing
  <2>3. cmd'.printed = printed /\ Answer' = W
    BY <1>1, <1>4, <2>1
  <2> QED BY <2>1, <2>2, <2>3
<1>7. (InReach => InReach') /\ (Searching => Searching') /\ (Listing => Listing')
  BY <1>1, <1>2, <1>3, <1>5 DEF InReach, Searching, Listing
<1> QED BY <1>1, <1>6, <1>7 DEF Progress, Answered, OnIndex

LEMMA SelectProgress ==
  ASSUME EInv, RowLeaves, Scanned, Sitting, Seated, NEW C, NEW low, Sorted(C, low), Progress,
         SelectStep
  PROVE  Progress'
<1>1. cmd'.q = cmd.q /\ cmd.call = "select" /\ cmd \in SelectShape(cmd)
  BY Kept
<1>2. CASE ~Answerable(cmd.q.conds)
  BY <1>1, <1>2 DEF Progress, Answerable
<1>3. CASE SelectWithoutIndex \/ ScanOpens \/ ScanRow \/ ScanReadFails \/ ScanEnds
  <2>1. cmd'.path # "index"
    BY <1>3, OffPath
  <2>2. cmd'.pc \in {"table", "scan", "done"}
    BY <1>1, <1>3 DEF SelectWithoutIndex, ScanOpens, ScanRow, ScanReadFails, ScanEnds, Goto, OpensFile,
              Returns, TableCannot, SelectShape
  <2> QED BY <2>1, <2>2 DEF Progress, Answered, OnIndex
<1>4. CASE Answerable(cmd.q.conds) /\ SelectOpensIndex
  BY <1>4, OpensProgress
<1>5. CASE Answerable(cmd.q.conds) /\ SelectLocates
  BY <1>5, LocatesProgress
<1>6. CASE Answerable(cmd.q.conds) /\ SelectReads
  BY <1>6, ReadsProgress
<1>7. CASE Answerable(cmd.q.conds) /\ (SelectSkips \/ SelectRow)
  BY <1>7, RowProgress
<1>8. CASE Answerable(cmd.q.conds) /\ (SelectOpensTable \/ SelectReadFails)
  BY <1>8, TableProgress
<1>9. CASE Answerable(cmd.q.conds) /\ IndexEnds
  BY <1>9, EndsProgress
<1> QED BY <1>2, <1>3, <1>4, <1>5, <1>6, <1>7, <1>8, <1>9 DEF SelectStep

\* A select takes an index from sorted to sorted, and none is mended.
LEMMA SelectKeepsOrder ==
  ASSUME EInv, RowLeaves, Sitting, Seated, SelectStep,
         NEW live, NEW spine, NEW rank, Order(live, spine, rank)
  PROVE  /\ IsSorted \/ Spoiled(live, rank)
         /\ IsSorted => \E more, top, longer : Order(more, top, longer)'
         /\ Spoiled(live, rank) =>
              \E more, top, longer : Order(more, top, longer)' /\ Spoiled(more, longer)'
<1>1. /\ IInv /\ Typed /\ Books /\ [Next]_vars /\ Chained(live, spine, rank)
      /\ Once(DOMAIN rank, disk, op) /\ CInv
  BY IsTyped, SelectStepsStep DEF EInv, IInv, Stepped, Order, CInv
<1>2. obj.mode # "w" /\ op.pc \notin Inserting
  BY <1>1, SelectSaves DEF Seated, Books
<1>3. \A e \in Entry : InsertCall(e) => NotYet(DOMAIN rank, disk, e)
  BY <1>2 DEF InsertCall
<1>4. ~Doubling(rank)
  BY <1>2 DEF Doubling, Inserting
<1>5. PICK more, top, longer : Chained(more, top, longer)' /\ Once(DOMAIN longer, disk', op')
                               /\ (InsertFirst \/ Carried(live, rank, disk, more, longer, disk'))
  BY <1>1, <1>3, StepOnce
<1>6. ~InsertFirst
  BY <1>2 DEF InsertFirst, Inserting
<1>7. Spoiled(live, rank) => Spoiled(more, longer)'
  BY <1>1, <1>2, <1>3, <1>5, <1>6, SpoiledStays
<1>8. IsSorted => IsSorted'
  <2> SUFFICES ASSUME NEW C, NEW low, Sorted(C, low) PROVE Sorted(C, low)'
    BY DEF IsSorted
  <2> QED BY <1>1, <1>2, SelectUsesIndex, OpensSorted, EndsSorted, SearchesSorted, IdleSorted DEF Abandon
<1> QED BY <1>4, <1>5, <1>7, <1>8 DEF Order

-----------------------------------------------------------------------------
(* The reads of a select.                                                  *)

\* Leaves of more than two entries, and ints below 0.
Wide == LeafMax > 2 /\ IntMin < 0

\* Where a select is in an index that is sorted: from locate on there is an entry
\* ahead of the cursor until one has been read.
Looking ==
  Wide /\ cmd.call = "select" =>
    /\ cmd.pc \in {"index", "locate"} => cmd.start >= 0
    /\ cmd.pc = "locate" => cmd.end <= disk[0].max
    /\ cmd.pc = "seek" => op.pc = "seek" /\ op.key = cmd.start /\ Sought # {}
    /\ cmd.pc = "first" => Ahead # {}
    /\ cmd.pc = "again" => cursor.eid = 0 /\ Twofold(disk, size, cursor.pid)
    /\ cmd.pc = "row" => cmd.entry # NoEntry /\ (cmd.status = "OK" => cursor # NoCursor)
    /\ cmd.pc = "next" => cmd.entry # NoEntry /\ cursor # NoCursor

LEMMA CursorOnLeaf ==
  ASSUME IInv, cursor # NoCursor
  PROVE  /\ cursor \in [pid : Pages(size), eid : Nat]
         /\ disk[cursor.pid] \in LeafPage
<1>1. PICK lvl \in Levels(size) : Levelled(lvl)
  BY DEF IInv
<1>2. cursor \in [pid : At(lvl, 1), eid : Nat]
  BY <1>1 DEF Levelled, CursorAt
<1>3. cursor.pid \in DOMAIN lvl /\ lvl[cursor.pid] = 1 /\ cursor.pid \in Pages(size)
  BY <1>2 DEF At, Levels, Pages
<1>4. disk[cursor.pid] \in NodeAt(lvl, lvl[cursor.pid]) /\ size \in Nat
  BY <1>1, <1>3 DEF Levelled, Store, Levels
<1>5. disk[cursor.pid] \in LeafPage
  <2>1. At(lvl, 1) \cup {0} \subseteq Nat
    BY <1>1, <1>4 DEF At, Levels
  <2>2. disk[cursor.pid] \in LeafNode(Entry, At(lvl, 1) \cup {0})
    BY <1>3, <1>4 DEF NodeAt
  <2> QED BY <2>1, <2>2 DEF LeafNode, LeafPage
<1> QED BY <1>2, <1>3, <1>5

LEMMA OpensLooking ==
  ASSUME EInv, Looking, SelectOpensIndex
  PROVE  Looking'
<1>1. /\ cmd.call = "select" /\ cmd.pc = "index" /\ cmd \in SelectShape(cmd)
      /\ cmd' = [cmd EXCEPT !.pc = "locate", !.path = "index", !.held = {"idx"},
                            !.start = Max({@, obj'.min}), !.end = Min({@, obj'.max})]
      /\ obj'.min = disk[0].min /\ obj'.max = disk[0].max /\ disk' = disk /\ size > 0
  BY SelectIsSelect DEF SelectOpensIndex, SelectStep, Open
<1>2. /\ cmd.start \in Int /\ cmd.end \in Int /\ cmd'.pc = "locate"
      /\ cmd'.start = Max({cmd.start, disk[0].min}) /\ cmd'.end = Min({cmd.end, disk[0].max})
  BY <1>1 DEF SelectShape
<1>3. disk[0].min \in Int /\ disk[0].max \in Int
  BY <1>1, HeaderTypes, Ints DEF EInv
<1>4. cmd'.start \in Int /\ cmd'.start >= cmd.start /\ cmd'.end <= disk[0].max
  <2>1. PICK a \in Int, b \in Int, c \in Int, d \in Int :
          a = cmd.start /\ b = cmd.end /\ c = disk[0].min /\ d = disk[0].max
    BY <1>2, <1>3
  <2>2. Max({a, c}) \in {a, c} /\ Max({a, c}) >= a
    BY TheLarger
  <2>3. Min({b, d}) <= d
    BY TheLarger
  <2> QED BY <1>2, <2>1, <2>2, <2>3
<1> QED BY <1>1, <1>2, <1>4 DEF Looking

\* The largest key that the header has is that of an entry, so that there is one
\* to be found where the range is not empty.
LEMMA LocatesLooking ==
  ASSUME EInv, RowLeaves, Sitting, Seated, NEW C, NEW low, Sorted(C, low), Looking,
         saved # {} => disk[0].height > 0, SelectLocates
  PROVE  Looking'
<1>1. /\ disk' = disk /\ cmd' \in SelectShape(cmd') /\ cmd \in SelectShape(cmd)
      /\ cmd.call = "select" /\ cmd'.call = "select"
      /\ cmd'.start = cmd.start => Sought' = Sought
  BY Kept DEF SelectStep
<1>2. cmd.pc \in {"locate", "seek"} /\ cmd' = [cmd EXCEPT !.pc = IF op' = Idle THEN "first" ELSE "seek"]
  BY DEF SelectLocates, Goto
<1>3. cmd'.start = cmd.start /\ cmd'.pc = IF op' = Idle THEN "first" ELSE "seek"
  BY <1>1, <1>2 DEF SelectShape
<1>4. obj.mode = "r" /\ IInv /\ Typed /\ size > 0
  BY <1>1, <1>2, IsTyped DEF OnIndex, Seated, EInv, Typed
<1> SUFFICES ASSUME Wide
             PROVE  /\ cmd'.pc = "seek" => op'.pc = "seek" /\ op'.key = cmd.start /\ Sought # {}
                    /\ cmd'.pc = "first" => Ahead' # {}
  <2>1. cmd'.pc \in {"first", "seek"} /\ Sought' = Sought
    BY <1>1, <1>3
  <2> QED BY <1>1, <1>3, <2>1 DEF Looking
<1>5. CASE cmd.pc = "locate"
  <2>1. LocateCall(cmd.start) /\ cmd.start <= cmd.end
    BY <1>5 DEF SelectLocates
  <2>2. cmd.start >= 0 /\ cmd.end <= disk[0].max /\ IntMin < 0 /\ IntMin \in Int
    BY <1>1, <1>5, Ints DEF Looking, Wide
  <2>3. cmd.start \in Int /\ cmd.end \in Int /\ disk[0].max \in Int
    BY <1>1, <1>4, HeaderTypes, Ints DEF SelectShape
  <2>4. TightMax(disk[0], saved) /\ obj.height = disk[0].height
    BY <1>4 DEF Sitting, Session
  <2>5. saved # {}
    <3>1. disk[0].max # IntMin
      BY <2>1, <2>2, <2>3
    <3> QED BY <2>4, <3>1 DEF TightMax
  <2>6. PICK e \in saved : e.key = disk[0].max
    BY <2>4, <2>5 DEF TightMax
  <2>7. Sought # {}
    <3>1. e.key >= cmd.start
      BY <2>1, <2>2, <2>3, <2>6
    <3> QED BY <2>6, <3>1 DEF Sought
  <2>8. obj.height # 0
    <3>1. disk[0].height > 0 /\ 0 \in Int
      BY <2>5
    <3>2. disk[0].height \in Nat
      BY <1>4 DEF Typed, HeaderType
    <3> QED BY <2>4, <3>1, <3>2
  <2>9. op' = [pc |-> "seek", key |-> cmd.start, at |-> obj.root, level |-> 1]
    BY <2>1, <2>8 DEF LocateCall
  <2>10. op'.pc = "seek" /\ op'.key = cmd.start /\ op' # Idle
    BY <2>9 DEF Idle
  <2> QED BY <1>3, <2>7, <2>10
<1>6. CASE cmd.pc = "seek"
  <2>1. op.pc = "seek" /\ op.key = cmd.start /\ Sought # {}
    BY <1>1, <1>6 DEF Looking
  <2>2. CASE SeekDown
    <3>1. op' = [op EXCEPT !.at = ChildPtr(disk[op.at], op.key), !.level = @ + 1]
      BY <2>2 DEF SeekDown
    <3>2. op \in [pc : {"seek"}, key : Key, at : Pages(size), level : Nat]
      BY <1>4, <2>1, SeekTyped
    <3>3. op'.pc = "seek" /\ op'.key = op.key
      BY <3>1, <3>2
    <3>4. op' # Idle
      BY <3>3 DEF Idle
    <3> QED BY <1>3, <2>1, <3>3, <3>4
  <2>3. CASE SeekLeaf
    <3>1. Ordered!Search(op.key)
      BY <1>4, <2>3, SearchIs
    <3>2. Ahead' = {e \in acked : e.key >= op.key}
      BY <3>1 DEF Ordered!Search
    <3>3. acked = saved
      BY <1>4 DEF Sitting, Session
    <3>4. Ahead' = Sought
      BY <2>1, <3>2, <3>3 DEF Sought
    <3>5. op' = Idle
      BY <2>3 DEF SeekLeaf
    <3> QED BY <1>3, <2>1, <3>4, <3>5
  <2> QED BY <1>6, <2>2, <2>3 DEF SelectLocates
<1> QED BY <1>2, <1>5, <1>6

\* A first read that finds no entry comes to a leaf of two: the second finds one,
\* and its status, which is not looked at, is OK.
LEMMA ReadsLooking ==
  ASSUME EInv, Wide, Paired, Looking, SelectReads
  PROVE  Looking'
<1> DEFINE leaf == disk[cursor.pid]
           here == cursor.eid < Len(leaf.ents)
<1>1. /\ disk' = disk /\ size' = size /\ cmd' \in SelectShape(cmd') /\ cmd \in SelectShape(cmd)
      /\ cmd.call = "select" /\ cmd'.call = "select"
  BY Kept DEF SelectStep
<1>2. /\ cmd.pc \in {"first", "again", "next"}
      /\ cursor # NoCursor /\ cursor' = Advanced(cursor, leaf)
      /\ out'.rc = (IF cursor'.pid = 0 THEN "RC_INVALID_CURSOR"
                    ELSE IF here THEN "OK" ELSE "RC_NO_SUCH_RECORD")
      /\ out'.entry = IF here THEN leaf.ents[cursor.eid + 1] ELSE NoEntry
  BY DEF SelectReads, ReadForward
<1>3. /\ cmd'.pc = (IF ReadAgain(out'.rc) THEN "again" ELSE "row")
      /\ cmd'.status = (IF cmd.pc = "again" THEN "OK" ELSE out'.rc)
      /\ cmd'.entry = IF out'.entry = NoEntry THEN cmd.entry ELSE out'.entry
  BY <1>1 DEF SelectReads, SelectShape
<1>4. cursor.pid \in Pages(size) /\ cursor.eid \in Nat /\ leaf \in LeafPage
      /\ cursor \in [pid : Pages(size), eid : Nat]
  BY <1>2, CursorOnLeaf DEF EInv
<1>5. leaf.kind = "leaf" /\ leaf.ents \in Seq(Entry) /\ Len(leaf.ents) \in Nat
  BY <1>4 DEF LeafPage, LeafNode
<1>6. cursor' = IF cursor.eid + 1 < Len(leaf.ents) THEN [cursor EXCEPT !.eid = @ + 1]
                                                    ELSE [pid |-> leaf.next, eid |-> 0]
  BY <1>2 DEF Advanced
<1>7. ASSUME here PROVE out'.entry # NoEntry
  <2>1. leaf.ents[cursor.eid + 1] \in Entry
    BY <1>4, <1>5, <1>7, ElementOfSeq
  <2> QED BY <1>2, <1>7, <2>1, NoEntryAssumption DEF Entry
<1>8. cursor'.pid # 0 => cursor' # NoCursor
  BY DEF NoCursor
<1> SUFFICES /\ cmd'.pc = "again" => cursor'.eid = 0 /\ Twofold(disk, size, cursor'.pid)
             /\ cmd'.pc = "row" => cmd'.entry # NoEntry /\ (cmd'.status = "OK" => cursor' # NoCursor)
  BY <1>1, <1>3 DEF Looking
<1>9. CASE cmd.pc = "again"
  <2>1. cursor.eid = 0 /\ Len(leaf.ents) >= 2
    BY <1>1, <1>9 DEF Looking, Twofold
  <2>2. here /\ cursor' = [cursor EXCEPT !.eid = @ + 1]
    BY <1>5, <1>6, <2>1
  <2>3. cursor'.pid # 0
    BY <1>4, <2>2 DEF Pages
  <2>4. cmd'.pc = "row"
    BY <1>3, <1>9 DEF ReadAgain
  <2> QED BY <1>3, <1>7, <1>8, <2>2, <2>3, <2>4
<1>10. CASE cmd.pc = "next"
  <2>1. cmd'.pc = "row" /\ cmd.entry # NoEntry
    BY <1>1, <1>3, <1>10 DEF ReadAgain, Looking
  <2>2. cmd'.entry # NoEntry
    BY <1>3, <2>1
  <2>3. cmd'.status = "OK" => cursor'.pid # 0
    BY <1>2, <1>3, <1>10
  <2> QED BY <1>8, <2>1, <2>2, <2>3
<1>11. CASE cmd.pc = "first" /\ here
  <2>1. cmd'.pc = "row"
    BY <1>2, <1>3, <1>11 DEF ReadAgain
  <2>2. cmd'.entry # NoEntry
    BY <1>3, <1>7, <1>11
  <2>3. cmd'.status = "OK" => cursor'.pid # 0
    BY <1>2, <1>3, <1>11
  <2> QED BY <1>8, <2>1, <2>2, <2>3
<1>12. CASE cmd.pc = "first" /\ ~here
  <2>1. cursor' = [pid |-> leaf.next, eid |-> 0]
    BY <1>4, <1>5, <1>6, <1>12
  <2>2. leaf.next # 0
    <3>1. Ahead # {}
      BY <1>1, <1>12 DEF Looking
    <3>2. {leaf.ents[i] : i \in (cursor.eid + 1)..Len(leaf.ents)} = {}
      BY <1>4, <1>5, <1>12
    <3> QED BY <1>2, <3>1, <3>2 DEF Ahead
  <2>3. Twofold(disk, size, leaf.next)
    BY <1>4, <1>5, <2>2 DEF Paired
  <2>4. cmd'.pc = "again"
    BY <1>2, <1>3, <1>12, <2>1, <2>2 DEF ReadAgain
  <2> QED BY <2>1, <2>3, <2>4
<1> QED BY <1>2, <1>9, <1>10, <1>11, <1>12

LEMMA SelectLooking ==
  ASSUME EInv, RowLeaves, Sitting, Seated, Wide => Paired, NEW C, NEW low, Sorted(C, low), Looking,
         saved # {} => disk[0].height > 0, SelectStep
  PROVE  Looking'
<1>1. cmd.call = "select" /\ cmd \in SelectShape(cmd)
  BY SelectIsSelect
<1>2. CASE SelectWithoutIndex \/ ScanOpens \/ ScanRow \/ ScanReadFails \/ ScanEnds
           \/ SelectReadFails \/ IndexEnds
  <2>1. cmd'.pc \in {"table", "scan", "done"}
    BY <1>1, <1>2 DEF SelectWithoutIndex, ScanOpens, ScanRow, ScanReadFails, ScanEnds,
       SelectReadFails, IndexEnds, Goto, Returns, TableCannot, OpensFile, SelectShape
  <2> QED BY <2>1 DEF Looking
<1>3. CASE SelectSkips \/ SelectRow
  <2>1. /\ cmd.pc = "row" /\ cursor' = cursor /\ cmd'.entry = cmd.entry
        /\ cmd'.pc = IF cmd.status = "OK" THEN "next" ELSE "end"
    BY <1>1, <1>3 DEF SelectSkips, SelectRow, InRange, SelectShape, vars
  <2> QED BY <1>1, <2>1 DEF Looking
<1>4. CASE SelectOpensTable
  <2>1. \/ cmd'.pc = "done"
        \/ /\ cmd.pc = "row" /\ cmd'.pc = "row" /\ cursor' = cursor
           /\ cmd'.entry = cmd.entry /\ cmd'.status = cmd.status
    BY <1>1, <1>4 DEF SelectOpensTable, InRange, OpensFile, Returns, TableCannot, SelectShape, vars
  <2> QED BY <1>1, <2>1 DEF Looking
<1>5. CASE SelectReads
  BY <1>5, ReadsLooking DEF Looking
<1> QED BY <1>2, <1>3, <1>4, <1>5, OpensLooking, LocatesLooking DEF SelectStep

-----------------------------------------------------------------------------
\* The index is spoiled, or about to be, or sorted; and of a sorted one a select has
\* printed what it should, and read what it printed.
Answering == \E live, spine, rank :
  Order(live, spine, rank)
          /\ (Spoiled(live, rank) \/ Doubling(rank) \/ (Progress /\ Looking))

LEMMA AnsweringKept ==
  EInv /\ RowLeaves /\ Scanned /\ Sitting /\ Seated /\ (Wide => Paired) /\ Answering
    /\ [EngineNext]_allVars => Sitting' /\ Answering'
<1> SUFFICES ASSUME EInv, RowLeaves, Scanned, Sitting, Seated, Wide => Paired, Answering,
                    [EngineNext]_allVars
             PROVE  Sitting' /\ Answering'
  OBVIOUS
<1>1. PICK live, spine, rank :
        Order(live, spine, rank)
          /\ (Spoiled(live, rank) \/ Doubling(rank) \/ (Progress /\ Looking))
  BY DEF Answering
<1>2. CInv /\ [Next]_vars /\ Chained(live, spine, rank) /\ Typed /\ Books
  BY <1>1, EngineSteps, IsTyped DEF EInv, IInv, Stepped, Order, CInv
<1>3. Sitting'
  BY <1>2, NextSitting
<1>4. CASE UNCHANGED allVars
  <2>1. (Spoiled(live, rank) => Spoiled(live, rank)') /\ (Doubling(rank) => Doubling(rank)')
    BY <1>4 DEF allVars, engineVars, vars, Spoiled, Doubling, Twice, Lost, Orphaned, AsSaved, Tree, OnDisk
  <2>2. Progress /\ Looking => (Progress /\ Looking)'
    <3>1. Ahead' = Ahead
      BY <1>4, AheadIs DEF allVars, vars
    <3>2. Looking => Looking'
      BY <1>4, <3>1 DEF allVars, engineVars, vars, Looking, Sought, Twofold
    <3> QED BY <1>4, <3>2, IdleProgress
  <2>3. IsSorted => IsSorted'
    BY <1>4, IdleSorted DEF IsSorted, allVars
  <2>4. Chained(live, spine, rank)' /\ Once(DOMAIN rank, disk, op)'
    BY <1>1, <1>4 DEF allVars, engineVars, vars, Order, Chained, Rooted
  <2>5. Order(live, spine, rank)'
    BY <1>1, <2>1, <2>3, <2>4 DEF Order
  <2> QED BY <1>1, <1>3, <2>1, <2>2, <2>5 DEF Answering
<1>5. CASE SelectStep
  <2>1. CASE Spoiled(live, rank)
    BY <1>1, <1>3, <1>5, <2>1, SelectKeepsOrder DEF Answering
  <2>2. CASE ~Spoiled(live, rank)
    <3>1. IsSorted /\ ~Doubling(rank)
      <4>1. obj.mode # "w"
        BY <1>5, SelectSaves DEF Seated
      <4> QED BY <1>1, <1>2, <1>5, <2>2, <4>1, SelectKeepsOrder DEF Doubling, Books, Inserting
    <3>2. PICK C, low : Sorted(C, low)
      BY <3>1 DEF IsSorted
    <3>3. (Progress /\ Looking)'
      <4>1. saved # {} => disk[0].height > 0
        BY <1>2 DEF Chained, Rooted
      <4> QED BY <1>1, <1>5, <2>2, <3>1, <3>2, <4>1, SelectProgress, SelectLooking
    <3>4. PICK more, top, longer : Order(more, top, longer)'
      BY <1>1, <1>5, <3>1, SelectKeepsOrder
    <3> QED BY <1>3, <3>3, <3>4 DEF Answering
  <2> QED BY <2>1, <2>2
<1>6. CASE EngineNext /\ ~SelectStep
  <2>1. \A e \in Entry : InsertCall(e) => NotYet(DOMAIN rank, disk, e)
    BY <1>2, <1>6, InsertedIsNew
  <2>2. PICK more, top, longer : Order(more, top, longer)'
    BY <1>1, <1>2, <1>3, <2>1, StepOrders
  <2>3. (Progress /\ Looking)'
    <3>1. LoadStep => cmd'.call = "load"
      BY LoadStaysLoad
    <3>2. (\E file \in LoadFiles, index \in BOOLEAN : LoadCall(file, index)) => cmd'.call = "load"
      BY DEF LoadCall, Call
    <3>3. Kill => cmd'.call = "none"
      BY DEF Kill, NoCommand
    <3>4. CASE \E q \in Queries : SelectCall(q)
      <4>1. PICK q \in Queries : SelectCall(q)
        BY <3>4
      <4>2. /\ cmd'.q = q /\ cmd'.start = StartKey(q.conds) /\ cmd'.end = EndKey(q.conds)
            /\ cmd'.ne = KeyConds(q.conds, "NE") /\ cmd'.path = "none"
            /\ cmd'.pc \in {"done", "table", "index"}
        BY <4>1 DEF SelectCall, Call
      <4>3. Progress'
        BY <4>2 DEF Progress, Answered, OnIndex
      <4>4. Looking'
        BY <4>2, RangeType DEF Looking
      <4> QED BY <4>3, <4>4
    <3>5. cmd'.call # "select" => (Progress /\ Looking)'
      BY DEF Progress, Looking
    <3> QED BY <1>6, <3>1, <3>2, <3>3, <3>4, <3>5 DEF EngineNext
  <2> QED BY <1>3, <2>2, <2>3 DEF Answering
<1> QED BY <1>4, <1>5, <1>6

LEMMA AnsweringInductive == EngineSpec => [](EInv /\ RowLeaves /\ Sitting /\ Seated /\ Answering)
<1>1. EngineInit => RowLeaves /\ Scanned /\ Sitting /\ Seated /\ (Wide => Paired) /\ Answering
  <2> SUFFICES ASSUME EngineInit
               PROVE  RowLeaves /\ Scanned /\ Sitting /\ Seated /\ (Wide => Paired) /\ Answering
    OBVIOUS
  <2>1. Scanned /\ Progress /\ Looking
    BY DEF EngineInit, NoCommand, Progress, Looking, Scanned
  <2>2. RowLeaves /\ Seated
    BY DEF EngineInit, Init, NoCommand, RowLeaves, LeavesOf, Idle, Inserting, Fresh, Seated
  <2>3. Sitting /\ IsSorted
    BY InitSitting, InitSorted DEF EngineInit, IsSorted
  <2>4. PICK live, spine, rank : Chained(live, spine, rank) /\ Once(DOMAIN rank, disk, op)
    BY InitOnce DEF EngineInit
  <2>5. Paired
    BY DEF EngineInit, Init, Idle, Paired, Pages
  <2> QED BY <2>1, <2>2, <2>3, <2>4, <2>5 DEF Answering, Order
<1>2. EInv /\ (Wide => Paired) /\ [EngineNext]_allVars => (Wide => Paired)'
  BY EngineSteps, NextPaired DEF Stepped, EInv, Wide
<1> QED BY <1>1, <1>2, AnsweringKept, RowLeavesKept, ScannedKept, SeatedKept, EngineInductive, PTL
        DEF EngineSpec

\* Loads that are killed, old headers, keys twice and lost subtrees included: if
\* the index is as its last close left it, has no key twice, and locate finds what
\* is in it, then a select on it prints the rows that satisfy the conditions, each
\* once, in key order, if none of these has a key below 0 or is missing from the
\* index (SqlEngine.cc:113-304).
THEOREM SoundIndexAnswers == EngineSpec => []IndexIsAnswer
<1>1. EInv /\ RowLeaves /\ Sitting /\ Seated /\ Answering => IndexIsAnswer
  <2> SUFFICES ASSUME EInv, RowLeaves, Sitting, Seated, Answering, Answered("index"), IndexIsSound,
                      Reachable, Answerable(cmd.q.conds)
               PROVE  Answers(WantedRows, LAMBDA r, s : table[r + 1].key < table[s + 1].key)
    BY DEF IndexIsAnswer
  <2>1. PICK live, spine, rank :
          Order(live, spine, rank)
          /\ (Spoiled(live, rank) \/ Doubling(rank) \/ (Progress /\ Looking))
    BY DEF Answering
  <2>2. CInv /\ Chained(live, spine, rank) /\ Once(DOMAIN rank, disk, op) /\ Typed /\ Books
    BY <2>1, IsTyped DEF EInv, IInv, Order, CInv
  <2>3. obj.mode # "w" /\ ~Doubling(rank)
    <3>1. obj.mode # "w"
      BY DEF Answered, Seated
    <3> QED BY <2>2, <3>1 DEF Doubling, Books, Inserting
  <2>4. ~Spoiled(live, rank)
    BY <2>2, <2>3, SpoiledIsUnsound DEF IndexIsSound
  <2>5. Progress /\ IsSorted
    BY <2>1, <2>3, <2>4 DEF Order
  <2>6. Lists(cmd.printed, Answer)
    BY <2>5 DEF Progress, Answered
  <2>7. \A d \in Answer : table[d.rid + 1].key = d.key /\ d.rid \in 0..(Len(table) - 1)
    <3>1. PICK C, low : Sorted(C, low)
      BY <2>5 DEF IsSorted
    <3>2. \A d \in saved : table[d.rid + 1].key = d.key /\ d.rid \in 0..(Len(table) - 1)
      BY <2>3, <3>1, SortedRows
    <3> QED BY <3>2 DEF Answer
  <2>8. PICK src \in Seq(Answer) :
          /\ cmd.printed = [i \in 1..Len(src) |-> LineOf(src[i].rid)]
          /\ \A i, j \in 1..Len(src) : i < j => src[i].key < src[j].key
          /\ \A d \in Answer : \E i \in 1..Len(src) : d = src[i]
    BY <2>6 DEF Lists
  <2>9. /\ DOMAIN cmd.printed = 1..Len(src)
        /\ \A i \in 1..Len(src) : /\ src[i] \in Answer /\ cmd.printed[i] = LineOf(src[i].rid)
                                  /\ cmd.printed[i].rid = src[i].rid
    BY <2>8, LineRid, ElementOfSeq
  <2>10. {cmd.printed[i].rid : i \in DOMAIN cmd.printed} = {e.rid : e \in Answer}
    <3>1. ASSUME NEW i \in DOMAIN cmd.printed PROVE cmd.printed[i].rid \in {e.rid : e \in Answer}
      <4>1. i \in 1..Len(src)
        BY <2>9
      <4>2. src[i] \in Answer /\ cmd.printed[i].rid = src[i].rid
        BY <2>9, <4>1
      <4> QED BY <4>2
    <3>2. ASSUME NEW d \in Answer PROVE d.rid \in {cmd.printed[i].rid : i \in DOMAIN cmd.printed}
      <4>1. PICK i \in 1..Len(src) : d = src[i]
        BY <2>8
      <4>2. i \in DOMAIN cmd.printed /\ cmd.printed[i].rid = d.rid
        BY <2>9, <4>1
      <4> QED BY <4>2
    <3> QED BY <3>1, <3>2
  <2>11. \A i \in DOMAIN cmd.printed :
           cmd.printed[i] = Line(cmd.printed[i].rid, table[cmd.printed[i].rid + 1])
    BY <2>9 DEF LineOf
  <2>12. \A i, j \in DOMAIN cmd.printed :
           i < j => table[cmd.printed[i].rid + 1].key < table[cmd.printed[j].rid + 1].key
    <3> SUFFICES ASSUME NEW i \in 1..Len(src), NEW j \in 1..Len(src), i < j
                 PROVE  table[cmd.printed[i].rid + 1].key < table[cmd.printed[j].rid + 1].key
      BY <2>9
    <3>1. src[i].key < src[j].key
      BY <2>8
    <3>2. table[cmd.printed[i].rid + 1].key = src[i].key
      BY <2>7, <2>9
    <3>3. table[cmd.printed[j].rid + 1].key = src[j].key
      BY <2>7, <2>9
    <3> QED BY <3>1, <3>2, <3>3
  <2>13. {e.rid : e \in Answer} = WantedRows
    <3>1. ASSUME NEW d \in Answer PROVE d.rid \in WantedRows
      BY <2>7 DEF Answer, WantedRows
    <3>2. ASSUME NEW r \in WantedRows PROVE r \in {e.rid : e \in Answer}
      <4> DEFINE d == [key |-> table[r + 1].key, rid |-> r]
      <4>1. d.key = table[r + 1].key /\ d.rid = r /\ Wanted(d.rid)
        BY DEF WantedRows
      <4>2. d \in saved /\ d.key >= 0
        BY DEF Reachable
      <4>3. d \in Answer
        BY <4>1, <4>2 DEF Answer
      <4> QED BY <4>1, <4>3
    <3> QED BY <3>1, <3>2
  <2> QED BY <2>10, <2>11, <2>12, <2>13 DEF Answers
<1> QED BY <1>1, AnsweringInductive, PTL

\* On such an index a select prints no row that it has not read, and reads at no
\* cursor that was not set, whatever its conditions are, though it looks neither at
\* what locate answers nor at the status of a second read: that one is of a leaf
\* with another entry, where a leaf holds more than two (SqlEngine.cc:210-230).
THEOREM SoundIndexReads ==
  ASSUME LeafMax > 2, IntMin < 0
  PROVE  EngineSpec => []ReadsAreSet
<1>1. EInv /\ RowLeaves /\ Sitting /\ Seated /\ Answering => ReadsAreSet
  <2> SUFFICES ASSUME EInv, RowLeaves, Sitting, Seated, Answering, IndexIsSound,
                      cmd.pc \in {"first", "again", "next", "row"}
               PROVE  IF cmd.pc = "row" THEN cmd.entry # NoEntry ELSE cursor # NoCursor
    BY DEF ReadsAreSet
  <2>1. PICK live, spine, rank :
          Order(live, spine, rank)
          /\ (Spoiled(live, rank) \/ Doubling(rank) \/ (Progress /\ Looking))
    BY DEF Answering
  <2>2. CInv /\ Chained(live, spine, rank) /\ Once(DOMAIN rank, disk, op) /\ Typed /\ Books
    BY <2>1, IsTyped DEF EInv, IInv, Order, CInv
  <2>3. cmd.call = "select" /\ obj.mode # "w" /\ ~Doubling(rank)
    <3>1. cmd.call = "select"
      BY DEF EInv, Commands, NoCommand, LoadShape
    <3>2. obj.mode # "w"
      BY <3>1 DEF Seated
    <3> QED BY <2>2, <3>1, <3>2 DEF Doubling, Books, Inserting
  <2>4. ~Spoiled(live, rank)
    BY <2>2, <2>3, SpoiledIsUnsound DEF IndexIsSound
  <2>5. Looking
    BY <2>1, <2>3, <2>4
  <2>6. cmd.pc = "first" => Ahead # {}
    BY <2>3, <2>5 DEF Looking, Wide
  <2>7. cmd.pc = "again" => cursor.pid \in Pages(size)
    BY <2>3, <2>5 DEF Looking, Wide, Twofold
  <2>8. cmd.pc \in {"first", "again"} => cursor # NoCursor
    <3>1. 0 \notin Pages(size)
      BY <2>2 DEF Pages, Typed
    <3> QED BY <2>6, <2>7, <3>1, AheadNone DEF NoCursor
  <2> QED BY <2>3, <2>5, <2>8 DEF Looking, Wide
<1> QED BY <1>1, AnsweringInductive, PTL

=============================================================================
