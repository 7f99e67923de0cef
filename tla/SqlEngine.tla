------------------------------ MODULE SqlEngine ------------------------------
(***************************************************************************)
(* SqlEngine (SqlEngine.h, SqlEngine.cc): LOAD and SELECT over a table and *)
(* its index.  A command runs on the real index: its steps are those of    *)
(* BTreeIndex.tla, in the order in which load and select make them.  The   *)
(* table is the log that RecordFile implements (RecordLog.tla), its record *)
(* ids the places in it.                                                   *)
(*                                                                         *)
(* Both files and every descriptor belong to one process, which executes   *)
(* one command after the other and may be killed anywhere.  A command that *)
(* returns early leaves its objects to go out of scope, and the            *)
(* descriptors open that they hold.                                        *)
(***************************************************************************)
EXTENDS BTreeIndex

CONSTANTS
  Value,       \* values, as ranks: strcmp orders values as numbers are ordered
  NoNumber,    \* a line that does not begin with a number
  NoComma,     \* a line without a comma
  LoadFiles,   \* the load files: sequences of lines
  Queries,     \* the SELECT commands
  FdMax,       \* descriptors a process may have open
  TableFaults, \* the calls on the table that may fail: subset of {"append", "read"}
  MaxCommands  \* bound: commands

\* A line of a load file, and a condition: atoi(value) for a key.
LoadLine == [key : Key \cup {NoNumber}, value : Value \cup {NoComma}]
SelCond  == [attr : {"key", "value"}, comp : {"EQ", "NE", "LT", "GT", "LE", "GE"},
             value : Key \cup Value]

ASSUME IntAssumption == Key = IntMin..IntMax /\ 0 \in Key /\ Rid = Nat
ASSUME LineAssumption == LoadFiles \subseteq Seq(LoadLine)
ASSUME QueryAssumption ==
  \A q \in Queries :
    /\ q.attr \in {"key", "value", "star", "count"}
    /\ q.conds \in Seq(SelCond)
    /\ \A i \in DOMAIN q.conds : q.conds[i].attr = "key" => q.conds[i].value \in Key
ASSUME LimitAssumption == FdMax \in Nat /\ MaxCommands \in Nat

VARIABLES
  table,   \* the records of the .tbl file
  files,   \* which of the two files exist: subset of {"tbl", "idx"}
  fds,     \* descriptors the process has open
  cmd,     \* the command in progress, or the last one: its locals and its place
  whole,   \* history: every load so far was WITH INDEX, and ended as it should
  commands

engineVars == <<table, files, fds, cmd, whole, commands>>
allVars == <<vars, engineVars>>

NoCommand == [call |-> "none", pc |-> "ready"]
Ready == cmd.pc \in {"ready", "done"}

EngineInit ==
  /\ Init
  /\ table = <<>> /\ files = {} /\ fds = 0
  /\ cmd = NoCommand
  /\ whole = TRUE
  /\ commands = 0

Call(c) ==
  /\ Ready
  /\ commands < MaxCommands /\ commands' = commands + 1
  /\ cmd' = c

\* The command goes on; it returns rc, having closed the files in closed.
Goto(pc) == cmd' = [cmd EXCEPT !.pc = pc]
Returns(rc, closed) ==
  /\ cmd' = [cmd EXCEPT !.pc = "done", !.rc = rc, !.held = @ \ closed]
  /\ fds' = fds - Cardinality(cmd.held \cap closed)

\* The descriptors there are for tables and indexes: while a load runs its load
\* file has one.
FdLimit == IF cmd.call = "load" THEN FdMax - 1 ELSE FdMax

\* A descriptor for file f, and the place the command goes on at.
OpensFile(f, pc) ==
  /\ fds < FdLimit /\ fds' = fds + 1
  /\ cmd' = [cmd EXCEPT !.pc = pc, !.held = @ \cup {f}]

\* A table with records is opened by a read of its last page.  One that is not
\* opened has no descriptor.
LastPageFails == "read" \in TableFaults /\ table # <<>>
TableOpens  == fds < FdLimit /\ "tbl" \in files
TableCannot ==
  \/ ~TableOpens /\ Returns("RC_FILE_OPEN_FAILED", {})
  \/ TableOpens /\ LastPageFails /\ Returns("RC_FILE_READ_FAILED", {})

-----------------------------------------------------------------------------
(* LOAD.                                                                   *)

\* atoi of what is no number is 0; a line without a comma is malformed.
ParsedKey(line) == IF line.key = NoNumber THEN 0 ELSE line.key
Malformed(line) == line.value = NoComma

LoadCall(file, index) ==
  /\ Call([call |-> "load", pc |-> "table", rc |-> "none", held |-> {},
           lines |-> file, index |-> index])
  /\ whole' = (whole /\ index)
  /\ UNCHANGED <<vars, table, files, fds>>

LoadOpensTable ==
  /\ cmd.call = "load" /\ cmd.pc = "table"
  /\ OpensFile("tbl", IF cmd.index THEN "index" ELSE "line")
  /\ files' = files \cup {"tbl"}
  /\ UNCHANGED <<vars, table, whole, commands>>

LoadOpensIndex ==
  /\ cmd.call = "load" /\ cmd.pc = "index"
  /\ OpensFile("idx", "line")
  /\ files' = files \cup {"idx"}
  /\ (OpenNew \/ Open("w")) /\ out'.rc = "OK"
  /\ UNCHANGED <<table, whole, commands>>

\* No descriptor is left for a file, or the table's last page cannot be read, or the
\* first page of a new index cannot be written: that file is there, open and empty.
LoadCannotOpen ==
  /\ cmd.call = "load"
  /\ \/ /\ cmd.pc \in {"table", "index"} /\ fds >= FdLimit
        /\ Returns("RC_FILE_OPEN_FAILED", {})
        /\ UNCHANGED <<vars, files>>
     \/ /\ cmd.pc = "table" /\ fds < FdLimit /\ LastPageFails
        /\ Returns("RC_FILE_READ_FAILED", {})
        /\ UNCHANGED <<vars, files>>
     \/ /\ cmd.pc = "index" /\ fds < FdLimit
        /\ OpenNew /\ out'.rc # "OK"
        /\ files' = files \cup {"idx"} /\ fds' = fds + 1
        /\ cmd' = [cmd EXCEPT !.pc = "done", !.rc = out'.rc, !.held = @ \cup {"idx"}]
  /\ whole' = FALSE
  /\ UNCHANGED <<table, commands>>

\* The index gets the place after the record.
MutPlace(rows) == Len(rows) + 1
\* The place that append answers.
PlaceOf(rows) == Len(rows)

\* A line is appended to the table, then its key inserted in the index.
LoadAppends ==
  /\ cmd.pc = "line" /\ cmd.lines # <<>>
  /\ LET line == Head(cmd.lines)  key == ParsedKey(line) IN
       /\ ~Malformed(line)
       /\ table' = Append(table, [key |-> key, value |-> line.value])
       /\ IF cmd.index THEN InsertCall([key |-> key, rid |-> PlaceOf(table)]) ELSE UNCHANGED vars
  /\ cmd' = [cmd EXCEPT !.pc = IF cmd.index THEN "insert" ELSE "line", !.lines = Tail(@)]
  /\ UNCHANGED <<files, fds, whole, commands>>

LoadInserts ==
  /\ cmd.pc = "insert"
  /\ InsertStep
  /\ Goto(IF op' = Idle THEN "line" ELSE "insert")
  /\ UNCHANGED <<table, files, fds, whole, commands>>

\* A malformed line, a record that cannot be appended, an entry that cannot be
\* inserted: load returns at once, and closes nothing.
LoadGivesUp ==
  /\ \/ /\ cmd.pc = "line" /\ cmd.lines # <<>>
        /\ Malformed(Head(cmd.lines)) \/ "append" \in TableFaults
        /\ IF cmd.index THEN Abandon ELSE UNCHANGED vars
     \/ cmd.pc = "insert" /\ InsertFails
  /\ Returns("RC_FILE_WRITE_FAILED", {})
  /\ whole' = FALSE
  /\ UNCHANGED <<table, files, commands>>

\* The index is not closed.
MutLoadEnds ==
  /\ cmd.pc = "line" /\ cmd.lines = <<>>
  /\ IF cmd.index THEN Abandon ELSE UNCHANGED vars
  /\ Returns("OK", {"tbl"})
  /\ UNCHANGED <<table, files, whole, commands>>
LoadEnds ==
  /\ cmd.pc = "line" /\ cmd.lines = <<>>
  /\ IF cmd.index THEN Close ELSE UNCHANGED vars
  /\ Returns("OK", {"tbl", "idx"})
  /\ UNCHANGED <<table, files, whole, commands>>

\* The header is not written, which load does not notice: the index goes away as
\* it is, the table is closed, and load returns 0.
LoadEndsUnsaved ==
  /\ \/ /\ cmd.pc = "line" /\ cmd.lines = <<>> /\ cmd.index
        /\ CloseFails
        /\ Goto("unsaved") /\ UNCHANGED fds
     \/ /\ cmd.pc = "unsaved"
        /\ Abandon
        /\ Returns("OK", {"tbl"})
  /\ whole' = FALSE
  /\ UNCHANGED <<table, files, commands>>

LoadStep ==
  \/ LoadOpensTable \/ LoadOpensIndex \/ LoadCannotOpen \/ LoadAppends \/ LoadInserts
  \/ LoadGivesUp \/ LoadEnds \/ LoadEndsUnsaved

-----------------------------------------------------------------------------
(* SELECT: the conditions.                                                 *)

\* The sum is not an int's.
MutWrap(n) == n
\* int arithmetic, as built.
Wrap(n) == IF n > IntMax THEN n - (IntMax - IntMin + 1)
           ELSE IF n < IntMin THEN n + (IntMax - IntMin + 1) ELSE n

\* The conditions on the key with a comparator, and the values in them.
KeyConds(conds, comp) == {i \in DOMAIN conds : conds[i].attr = "key" /\ conds[i].comp = comp}
Values(conds, comp) == {conds[i].value : i \in KeyConds(conds, comp)}

\* key > v is taken for key >= v.
MutStartKey(conds) == Max({0} \cup Values(conds, "EQ") \cup Values(conds, "GE") \cup Values(conds, "GT"))

\* The range of keys: its start is never below 0.
StartKey(conds) ==
  Max({0} \cup Values(conds, "EQ") \cup Values(conds, "GE")
        \cup {Wrap(v + 1) : v \in Values(conds, "GT")})
EndKey(conds) ==
  Min({IntMax} \cup Values(conds, "EQ") \cup Values(conds, "LE")
        \cup {Wrap(v - 1) : v \in Values(conds, "LT")})

\* key = v, with v out of the range so far.
Conflict(conds) ==
  \E i \in KeyConds(conds, "EQ") :
    LET before == SubSeq(conds, 1, i - 1) IN
    conds[i].value < StartKey(before) \/ conds[i].value > EndKey(before)

Passes(diff, comp) ==
  CASE comp = "EQ" -> diff = 0
    [] comp = "NE" -> diff # 0
    [] comp = "LT" -> diff < 0
    [] comp = "GT" -> diff > 0
    [] comp = "LE" -> diff <= 0
    [] comp = "GE" -> diff >= 0

\* The difference of two keys is an int.
ScanPasses(row, c) ==
  Passes(IF c.attr = "key" THEN Wrap(row.key - c.value) ELSE row.value - c.value, c.comp)

\* On the index path value > v drops the values above v.
IndexPasses(row, c) ==
  c.attr = "value" =>
    IF c.comp = "GT" THEN row.value < c.value ELSE Passes(row.value - c.value, c.comp)

\* What is printed of a row; rid is kept beside it.
Line(rid, row) ==
  [rid |-> rid, shown |-> CASE cmd.q.attr = "key" -> <<row.key>>
                            [] cmd.q.attr = "value" -> <<row.value>>
                            [] cmd.q.attr = "star" -> <<row.key, row.value>>
                            [] cmd.q.attr = "count" -> <<>>]

-----------------------------------------------------------------------------
(* SELECT: the call, and the scan of the table.                            *)

\* A conflict returns before anything is opened, with an rc that was never set.
\* A range that leaves out nothing from 0 up makes a scan of it.
SelectCall(q) ==
  /\ LET start == StartKey(q.conds)  end == EndKey(q.conds) IN
     Call([call |-> "select", q |-> q, start |-> start, end |-> end,
           ne |-> KeyConds(q.conds, "NE"), rc |-> "none", held |-> {}, path |-> "none",
           at |-> 0, entry |-> NoEntry, status |-> "OK", printed |-> <<>>,
           pc |-> IF Conflict(q.conds) THEN "done"
                  ELSE IF start = 0 /\ end = IntMax THEN "table" ELSE "index"])
  /\ UNCHANGED <<vars, table, files, fds, whole>>

\* The index cannot be opened: the table is scanned.  The descriptor of an index
\* file without a header stays open.
SelectWithoutIndex ==
  /\ cmd.call = "select" /\ cmd.pc = "index"
  /\ \/ (fds = FdMax \/ "idx" \notin files) /\ Goto("table") /\ UNCHANGED fds
     \/ "idx" \in files /\ size = 0 /\ OpensFile("idx", "table")
  /\ UNCHANGED <<vars, table, files, whole, commands>>

ScanOpens ==
  /\ cmd.call = "select" /\ cmd.pc = "table"
  /\ \/ /\ TableOpens /\ fds' = fds + 1
        /\ cmd' = [cmd EXCEPT !.pc = "scan", !.path = "scan", !.held = @ \cup {"tbl"}]
     \/ TableCannot
  /\ UNCHANGED <<vars, table, files, whole, commands>>

\* Where it matches, the row is skipped along with the one after it.
MutScanRow ==
  /\ cmd.pc = "scan" /\ cmd.at < Len(table)
  /\ LET row == table[cmd.at + 1]
         ok  == \A i \in DOMAIN cmd.q.conds : ScanPasses(row, cmd.q.conds[i])
     IN  cmd' = [cmd EXCEPT !.at = IF ok THEN @ + 1 ELSE @ + 2,
                            !.printed = IF ok THEN Append(@, Line(cmd.at, row)) ELSE @]
  /\ UNCHANGED <<vars, table, files, fds, whole, commands>>
ScanRow ==
  /\ cmd.pc = "scan" /\ cmd.at < Len(table)
  /\ LET row == table[cmd.at + 1]
         ok  == \A i \in DOMAIN cmd.q.conds : ScanPasses(row, cmd.q.conds[i])
     IN  cmd' = [cmd EXCEPT !.at = @ + 1,
                            !.printed = IF ok THEN Append(@, Line(cmd.at, row)) ELSE @]
  /\ UNCHANGED <<vars, table, files, fds, whole, commands>>

\* count(*) without conditions reads nothing.
ScanReadFails ==
  /\ cmd.pc = "scan" /\ cmd.at < Len(table) /\ "read" \in TableFaults
  /\ cmd.q.conds # <<>> \/ cmd.q.attr # "count"
  /\ Returns("RC_FILE_READ_FAILED", {"tbl"})
  /\ UNCHANGED <<vars, table, files, whole, commands>>

ScanEnds ==
  /\ cmd.pc = "scan" /\ cmd.at = Len(table)
  /\ Returns("OK", {"tbl"})
  /\ UNCHANGED <<vars, table, files, whole, commands>>

-----------------------------------------------------------------------------
(* SELECT: the index path.                                                 *)

\* The range is cut to the keys that the header says the index has.
SelectOpensIndex ==
  /\ cmd.call = "select" /\ cmd.pc = "index"
  /\ fds < FdMax /\ fds' = fds + 1
  /\ Open("r")
  /\ cmd' = [cmd EXCEPT !.pc = "locate", !.path = "index", !.held = {"idx"},
                        !.start = Max({@, obj'.min}), !.end = Min({@, obj'.max})]
  /\ UNCHANGED <<table, files, whole, commands>>

SelectLocates ==
  /\ \/ /\ cmd.pc = "locate" /\ cmd.start <= cmd.end
        /\ LocateCall(cmd.start)
        /\ Goto(IF op' = Idle THEN "first" ELSE "seek")
     \/ /\ cmd.pc = "seek"
        /\ SeekDown \/ SeekLeaf
        /\ Goto(IF op' = Idle THEN "first" ELSE "seek")
  /\ UNCHANGED <<table, files, fds, whole, commands>>

\* The first read is not repeated when it found no entry.
MutReadAgain(rc) == FALSE
\* locate may have left the cursor after the last entry of a leaf.
ReadAgain(rc) == cmd.pc = "first" /\ rc = "RC_NO_SUCH_RECORD"

\* The status of a second read is not looked at.
SelectReads ==
  /\ cmd.pc \in {"first", "again", "next"}
  /\ ReadForward
  /\ cmd' = [cmd EXCEPT !.pc = IF ReadAgain(out'.rc) THEN "again" ELSE "row",
                        !.status = IF cmd.pc = "again" THEN "OK" ELSE out'.rc,
                        !.entry = IF out'.entry = NoEntry THEN @ ELSE out'.entry]
  /\ UNCHANGED <<table, files, fds, whole, commands>>

\* The NE conditions that drop the entry: the first that does is not looked at
\* again.
Dropping == {i \in cmd.ne : cmd.q.conds[i].value = cmd.entry.key}
NeedsTable ==
  \/ cmd.q.attr \in {"value", "star"}
  \/ \E i \in DOMAIN cmd.q.conds : cmd.q.conds[i].attr = "value"
InRange == cmd.pc = "row" /\ cmd.entry.key <= cmd.end

\* The entry is tested again, instead of the next one being read.
MutSelectSkips ==
  /\ InRange /\ Dropping # {}
  /\ cmd' = [cmd EXCEPT !.pc = "row"]
  /\ UNCHANGED <<vars, table, files, fds, whole, commands>>
SelectSkips ==
  /\ InRange /\ Dropping # {}
  /\ cmd' = [cmd EXCEPT !.ne = @ \ {Min(Dropping)},
                        !.pc = IF cmd.status = "OK" THEN "next" ELSE "end"]
  /\ UNCHANGED <<vars, table, files, fds, whole, commands>>

\* The first row that needs it opens the table.  If that fails, select returns
\* with the index as it is.
SelectOpensTable ==
  /\ InRange /\ Dropping = {} /\ NeedsTable /\ "tbl" \notin cmd.held
  /\ \/ TableOpens /\ OpensFile("tbl", "row") /\ UNCHANGED vars
     \/ TableCannot /\ Abandon
  /\ UNCHANGED <<table, files, whole, commands>>

\* The rid read forward from the index leads to the row.
Row(entry) == IF NeedsTable THEN table[entry.rid + 1] ELSE [key |-> entry.key, value |-> 0]

SelectRow ==
  /\ InRange /\ Dropping = {}
  /\ NeedsTable => "tbl" \in cmd.held
  /\ LET row == Row(cmd.entry)
         ok  == \A i \in DOMAIN cmd.q.conds : IndexPasses(row, cmd.q.conds[i])
     IN  cmd' = [cmd EXCEPT !.pc = IF cmd.status = "OK" THEN "next" ELSE "end",
                            !.printed = IF ok THEN Append(@, Line(cmd.entry.rid, row)) ELSE @]
  /\ UNCHANGED <<vars, table, files, fds, whole, commands>>

SelectReadFails ==
  /\ InRange /\ Dropping = {} /\ NeedsTable /\ "tbl" \in cmd.held
  /\ "read" \in TableFaults
  /\ Abandon
  /\ Returns("RC_FILE_READ_FAILED", {"tbl"})
  /\ UNCHANGED <<table, files, whole, commands>>

\* close of an index opened for reading fails on the header, before the
\* descriptor is closed (CloseFails); the object goes away.
MutIndexEnds ==
  /\ \/ cmd.pc = "end"
     \/ cmd.pc = "row" /\ cmd.entry.key > cmd.end
     \/ cmd.pc = "locate" /\ cmd.start > cmd.end
  /\ Abandon
  /\ Returns("OK", {})
  /\ UNCHANGED <<table, files, whole, commands>>
IndexEnds ==
  /\ \/ cmd.pc = "end"
     \/ cmd.pc = "row" /\ cmd.entry.key > cmd.end
     \/ cmd.pc = "locate" /\ cmd.start > cmd.end
  /\ Abandon
  /\ Returns("OK", {"tbl"})
  /\ UNCHANGED <<table, files, whole, commands>>

SelectStep ==
  \/ SelectWithoutIndex \/ ScanOpens \/ ScanRow \/ ScanReadFails \/ ScanEnds
  \/ SelectOpensIndex \/ SelectLocates \/ SelectReads \/ SelectSkips
  \/ SelectOpensTable \/ SelectRow \/ SelectReadFails \/ IndexEnds

-----------------------------------------------------------------------------
\* The process is killed, at any moment, and started again.
Kill ==
  /\ IF obj.mode = "none" THEN UNCHANGED vars ELSE Abandon
  /\ fds' = 0
  /\ cmd' = NoCommand
  /\ whole' = (whole /\ (Ready \/ cmd.call = "select"))
  /\ UNCHANGED <<table, files, commands>>

EngineNext ==
  \/ \E file \in LoadFiles, index \in BOOLEAN : LoadCall(file, index)
  \/ \E q \in Queries : SelectCall(q)
  \/ LoadStep \/ SelectStep
  \/ Kill

EngineSpec == EngineInit /\ [][EngineNext]_allVars

\* A command goes on: nothing it does waits for anything.
FairEngineSpec == EngineSpec /\ WF_allVars(LoadStep \/ SelectStep)

-----------------------------------------------------------------------------
Rows == {[key |-> table[i].key, rid |-> i - 1] : i \in 1..Len(table)}

EngineTypeOK ==
  /\ \A i \in 1..Len(table) : table[i] \in [key : Key, value : Value]
  /\ files \subseteq {"tbl", "idx"} /\ fds \in 0..FdMax
  /\ commands \in 0..MaxCommands /\ whole \in BOOLEAN
  /\ ~Ready => /\ cmd.call \in {"load", "select"} /\ cmd.held \subseteq files
               /\ Cardinality(cmd.held) <= fds
               /\ cmd.call = "select" => cmd.start \in Key /\ cmd.end \in Key

\* Whatever loads failed, were killed between two writes or went on from an old
\* header, an entry in the index is a row of the table: load appends first, and
\* inserts the place the append answered (SqlEngine.cc:353-359).
IndexedAreRows ==
  \A p \in DOMAIN disk : disk[p].kind = "leaf" => Entries(disk[p].ents) \subseteq Rows

\* As long as every load was WITH INDEX and none failed or was killed, the index
\* has every row.  A load without index, or one that ends early, leaves rows
\* behind for good (SqlEngine.cc:339, :349-363, :366).
IndexIsComplete == Ready /\ whole => saved = Rows

\* Where the table was opened it is closed, by whichever way a select ends, and
\* by a load that succeeds (SqlEngine.cc:302-304, :382).
TableIsClosed ==
  cmd.pc = "done" /\ (cmd.call = "select" \/ cmd.rc = "OK") => "tbl" \notin cmd.held

\* No row is printed twice, by either path, from whatever state of the index.
NoRowTwice ==
  cmd.pc = "done" /\ cmd.call = "select" =>
    \A i, j \in DOMAIN cmd.printed :
      i # j => cmd.printed[i].rid # cmd.printed[j].rid

-----------------------------------------------------------------------------
(* What SELECT promises: the rows that satisfy every condition.            *)

Satisfies(row, c) == Passes(IF c.attr = "key" THEN row.key - c.value ELSE row.value - c.value, c.comp)
Wanted(rid) == \A i \in DOMAIN cmd.q.conds : Satisfies(table[rid + 1], cmd.q.conds[i])
WantedRows == {r \in 0..(Len(table) - 1) : Wanted(r)}
Answered(path) == cmd.pc = "done" /\ cmd.call = "select" /\ cmd.path = path /\ cmd.rc = "OK"

\* The rows of a set, in order.
Answers(rids, Less(_, _)) ==
  /\ {cmd.printed[i].rid : i \in DOMAIN cmd.printed} = rids
  /\ \A i \in DOMAIN cmd.printed :
       cmd.printed[i] = Line(cmd.printed[i].rid, table[cmd.printed[i].rid + 1])
  /\ \A i, j \in DOMAIN cmd.printed :
       i < j => Less(cmd.printed[i].rid, cmd.printed[j].rid)

\* A scan prints the rows that satisfy the conditions, in the order of the table,
\* if no key is further from one it is compared with than an int can tell
\* (SqlEngine.cc:140).
NoOverflow ==
  \A i \in 1..Len(table), j \in DOMAIN cmd.q.conds :
    cmd.q.conds[j].attr = "key" => table[i].key - cmd.q.conds[j].value \in IntMin..IntMax
ScanIsAnswer ==
  Answered("scan") /\ NoOverflow =>
    Answers(WantedRows, LAMBDA r, s : r < s)

\* The index is as its last close left it, locate finds what is in it, and no key
\* is there twice.
IndexIsSound ==
  /\ OnDisk.height > 0 => ChainEntries(Leftmost(OnDisk.root, OnDisk.height)) = saved
  /\ \A e \in saved : Found(OnDisk, e)
  /\ \A d, e \in saved : d.key = e.key => d = e

\* Of such an index the cursor that is read was set, and the key that is compared is
\* that of an entry, though the results of locate and of the second read are
\* ignored and readEntry hands over the slot after the last entry too
\* (SqlEngine.cc:210, :223, :229; BTreeNode.cc:222-227).
ReadsAreSet ==
  cmd.pc \in {"first", "again", "next", "row"} /\ IndexIsSound =>
    IF cmd.pc = "row" THEN cmd.entry # NoEntry ELSE cursor # NoCursor

\* The index path prints, in key order, the rows that satisfy the conditions: if the
\* index is sound and has those rows, none of them has a key below 0, where the
\* path does not look (SqlEngine.cc:59), and no condition is value > v or beyond
\* an int.
Answerable(conds) ==
  \A i \in DOMAIN conds :
    <<conds[i].attr, conds[i].comp>> # <<"value", "GT">>
      /\ (conds[i].comp = "GT" => conds[i].value < IntMax)
      /\ (conds[i].comp = "LT" => conds[i].value > IntMin)
Reachable ==
  \A r \in WantedRows : table[r + 1].key >= 0 /\ [key |-> table[r + 1].key, rid |-> r] \in saved
IndexIsAnswer ==
  Answered("index") /\ IndexIsSound /\ Reachable /\ Answerable(cmd.q.conds) =>
    Answers(WantedRows, LAMBDA r, s : table[r + 1].key < table[s + 1].key)

\* Every command returns: the loop over the index ends with the chain of leaves.
CommandReturns == ~Ready ~> Ready

=============================================================================
