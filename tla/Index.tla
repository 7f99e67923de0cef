-------------------------------- MODULE Index --------------------------------
(***************************************************************************)
(* What BTreeIndex promises (BTreeIndex.h): a set of (key, rid) entries    *)
(* that insert adds to, locate searches and readForward lists in key       *)
(* order.  No pages, no splits, no files.                                  *)
(***************************************************************************)
EXTENDS Integers

CONSTANTS Entry, Key, NoEntry
VARIABLES
  entries, \* the entries inserted
  sought,  \* the key that locate was asked for and has not answered: a set of one, or none
  ahead,   \* those a cursor has yet to read
  out      \* what the last call returned

vars == <<entries, sought, ahead, out>>

Init == entries = {} /\ sought = {} /\ ahead = {} /\ out.call = "none"

Answers(call, rc, entry) == out'.call = call /\ out'.rc = rc /\ out'.entry = entry

Add(e) ==
  /\ entries' = entries \cup {e}
  /\ sought' = {} /\ ahead' = {}
  /\ Answers("insert", "OK", NoEntry)

Ask(k) ==
  /\ sought' = {k} /\ ahead' = {}
  /\ UNCHANGED <<entries, out>>

\* The answer is for the key asked for; if there are no entries it is for any key.
Search(k) ==
  /\ k \in sought \/ entries = {}
  /\ sought' = {}
  /\ ahead' = {e \in entries : e.key >= k}
  /\ out'.call = "locate" /\ out'.entry = NoEntry
  /\ (out'.rc = "OK") <=> \E e \in entries : e.key = k
  /\ UNCHANGED entries

\* The next entry; the last one comes with RC_INVALID_CURSOR.
Read(e) ==
  /\ e \in ahead
  /\ \A d \in ahead : e.key <= d.key
  /\ ahead' = ahead \ {e}
  /\ Answers("readForward", IF ahead' = {} THEN "RC_INVALID_CURSOR" ELSE "OK", e)
  /\ UNCHANGED <<entries, sought>>

\* After a search that missed, the first read may have no entry to return.
ReadNothing ==
  /\ sought = {} /\ out.call = "locate" /\ out.rc # "OK"
  /\ Answers("readForward",
             IF ahead = {} THEN "RC_INVALID_CURSOR" ELSE "RC_NO_SUCH_RECORD", NoEntry)
  /\ UNCHANGED <<entries, sought, ahead>>

\* Opening, closing, starting an insert: the cursor is gone and no question is
\* left, the entries stay.
Session ==
  /\ sought' = {} /\ ahead' = {}
  /\ out'.call \in {"none", "open", "close", out.call}
  /\ UNCHANGED entries

Next ==
  \/ \E e \in Entry : Add(e) \/ Read(e)
  \/ \E k \in Key : Ask(k) \/ Search(k)
  \/ ReadNothing
  \/ Session

Spec == Init /\ [][Next]_vars

=============================================================================
