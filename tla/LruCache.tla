------------------------------ MODULE LruCache ------------------------------
(***************************************************************************)
(* A cache of at most CACHE_COUNT pages that gives up the one used least   *)
(* recently, the promise of PageFile's read cache.  later orders the pages *)
(* held: <<p, q>> is in it if p was used after q.  accessed is the last    *)
(* call: the page it read or wrote, and whether that was fetched from disk.*)
(***************************************************************************)
EXTENDS Integers, FiniteSets

CONSTANTS Page, None, CACHE_COUNT
VARIABLES held, later, accessed

Among(S) == later \cap (S \X S)

\* The pages kept are S, in the order they had, and p is the one just used.
Use(p, S) ==
  /\ held'  = S \cup {p}
  /\ later' = Among(S) \cup ({p} \X S)

Says(call, p, miss) == accessed' = [call |-> call, page |-> p, miss |-> miss]

Init == held = {} /\ later = {} /\ accessed = [call |-> "none", page |-> None, miss |-> FALSE]

\* A page that is held is served from memory.
Hit(p) ==
  /\ p \in held
  /\ Use(p, held \ {p})
  /\ Says("read", p, FALSE)

Oldest(q) == \A r \in held \ {q} : <<r, q>> \in later

\* Any other page is fetched, and pushes the oldest out of a full cache.
Miss(p) ==
  /\ p \notin held
  /\ \/ Cardinality(held) < CACHE_COUNT /\ Use(p, held)
     \/ /\ Cardinality(held) = CACHE_COUNT
        /\ \E q \in held : Oldest(q) /\ Use(p, held \ {q})
  /\ Says("read", p, TRUE)

Forget(P) == held' = held \ P /\ later' = Among(held \ P)

\* A write drops its page, the close of a descriptor all of its pages, the end of
\* the process every page, and no other call any.
Write(p) == Forget({p}) /\ Says("write", p, FALSE)
Close(p) == Forget({q \in Page : q[1] = p[1]}) /\ Says("close", None, FALSE)
End      == Forget(Page) /\ Says("none", None, FALSE)
Other    == Forget({}) /\ \E call \in {"open", "none", "failed"} : Says(call, None, FALSE)

Next == (\E p \in Page : Hit(p) \/ Miss(p) \/ Write(p) \/ Close(p)) \/ End \/ Other

Spec == Init /\ [][Next]_<<held, later, accessed>>

=============================================================================
