--------------------------- MODULE PriorityQueue ---------------------------
(***************************************************************************)
(* What include/asterisk/heap.h promises its users (main/sched.c and the   *)
(* others): a collection from which the element with the greatest priority *)
(* is popped and any member can be removed.  A push that runs out of       *)
(* memory loses the whole collection.                                      *)
(***************************************************************************)
EXTENDS Integers

CONSTANTS Elems, Prios, Nil

VARIABLES
  elems,    \* the elements in the collection
  prio,     \* the priority of every element, 0 for those outside
  result    \* the last call and what it returned

Init ==
  /\ elems = {}
  /\ prio = [e \in Elems |-> 0]
  /\ result = <<"create", Nil>>

Push(e, p) ==
  /\ e \notin elems
  /\ elems' = elems \cup {e}
  /\ prio' = [prio EXCEPT ![e] = p]
  /\ result' = <<"push", Nil>>

\* Nothing in the collection has a greater priority than what Pop returns.
Pop ==
  \/ elems = {} /\ result' = <<"pop", Nil>> /\ UNCHANGED <<elems, prio>>
  \/ \E e \in elems :
       /\ \A o \in elems : prio[o] <= prio[e]
       /\ elems' = elems \ {e} /\ result' = <<"pop", e>> /\ prio' = [prio EXCEPT ![e] = 0]

Remove(e) ==
  /\ e \in elems
  /\ elems' = elems \ {e} /\ result' = <<"remove", e>> /\ prio' = [prio EXCEPT ![e] = 0]

LoseAll == elems' = {} /\ prio' = [e \in Elems |-> 0] /\ result' = <<"push", Nil>>

Next ==
  \/ \E e \in Elems, p \in Prios : Push(e, p)
  \/ \E e \in Elems : Remove(e)
  \/ Pop \/ LoseAll

Spec == Init /\ [][Next]_<<elems, prio, result>>
=============================================================================
