----------------------------- MODULE PageStore ------------------------------
(***************************************************************************)
(* What PageFile promises its callers (PageFile.h): objects attached to    *)
(* files, a read that returns the page as it was last written, a write     *)
(* that lands, and a failed call that changes nothing.  No descriptors, no *)
(* cache.  PageFile.tla implements it; BTreeIndex.tla is written against   *)
(* it.                                                                     *)
(***************************************************************************)
EXTENDS Integers

CONSTANTS File, NoFile, Handle, MaxPages, Content, Zero, Faults
VARIABLES disk, size, present, att, out

vars == <<disk, size, present, att, out>>

Pid == 0..(MaxPages - 1)
Nothing == [file |-> NoFile, mode |-> "r"]

Init ==
  /\ disk    = [f \in File |-> [p \in Pid |-> Zero]]
  /\ size    = [f \in File |-> 0]
  /\ present = {}
  /\ att     = [h \in Handle |-> Nothing]
  /\ out.rc  = "OK"

Answers(call, h, rc) == out'.call = call /\ out'.handle = h /\ out'.rc = rc

Attach(h, f, mode) ==
  /\ att[h] = Nothing
  /\ mode = "w" \/ f \in present
  /\ att' = [att EXCEPT ![h] = [file |-> f, mode |-> mode]]
  /\ present' = present \cup {f}
  /\ Answers("open", h, "OK")
  /\ UNCHANGED <<disk, size>>

Detach(h) ==
  /\ att[h] # Nothing
  /\ att' = [att EXCEPT ![h] = Nothing]
  /\ out'.handle = h /\ out'.rc = "OK"
  /\ UNCHANGED <<disk, size, present>>

Put(h, p, v) ==
  /\ att[h].mode = "w"
  /\ disk' = [disk EXCEPT ![att[h].file][p] = v]
  /\ size' = [size EXCEPT ![att[h].file] = IF p >= @ THEN p + 1 ELSE @]
  /\ Answers("write", h, "OK")
  /\ UNCHANGED <<present, att>>

Readable(h, p) == att[h] # Nothing /\ p >= 0 /\ p < size[att[h].file]

Get(h, p) ==
  /\ Readable(h, p)
  /\ Answers("read", h, "OK")
  /\ out'.pid = p /\ out'.data = disk[att[h].file][p]
  /\ UNCHANGED <<disk, size, present, att>>

\* An error is answered only where there is a reason for one, and has no effect.
Refuse(h) ==
  /\ out'.handle = h /\ out'.rc # "OK"
  /\ \/ out'.call = "open" /\ out'.rc = "RC_FILE_OPEN_FAILED"
     \/ out'.call = "close" /\ att[h] = Nothing
     \/ out'.call = "read" /\ out'.rc = "RC_INVALID_PID" /\ ~Readable(h, out'.pid)
     \/ out'.call = "write" /\ (att[h].mode = "r" \/ "write" \in Faults \/ out'.pid < 0)
  /\ UNCHANGED <<disk, size, present, att>>

Reset ==
  /\ att' = [h \in Handle |-> Nothing]
  /\ out'.rc = "OK"
  /\ UNCHANGED <<disk, size, present>>

Next ==
  \/ \E h \in Handle :
       \/ \E f \in File, mode \in {"r", "w"} : Attach(h, f, mode)
       \/ Detach(h)
       \/ \E p \in Pid, v \in Content : Put(h, p, v)
       \/ \E p \in Pid : Get(h, p)
       \/ Refuse(h)
  \/ Reset

Spec == Init /\ [][Next]_vars

=============================================================================
