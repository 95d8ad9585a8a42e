-------------------------------- MODULE Heap --------------------------------
(***************************************************************************)
(* The max-heap of main/heap.c: an array in which every element also       *)
(* stores its own position (heap_set), so that ast_heap_remove finds it    *)
(* without a search.  The code leaves the old position in an element that  *)
(* has left the heap, and the old pointer in the array slot past the end.  *)
(* Clients remove only elements that are in the heap, which is how         *)
(* main/sched.c calls it, so neither is read again: both are cleared here. *)
(***************************************************************************)
EXTENDS Integers, FiniteSets

CONSTANTS
  Elems,        \* what can be put in the heap
  Prios,        \* priorities; cmp_fn is their difference
  InitLen,      \* (1 << init_height) - 1
  Nil

ASSUME HeapConstants ==
  /\ Prios \subseteq Int /\ InitLen \in Nat \ {0} /\ Nil \notin Elems
  /\ IsFiniteSet(Elems)

VARIABLES
  arr,          \* h->heap
  cur_len,      \* h->cur_len
  avail_len,    \* h->avail_len
  index,        \* the position stored in each element
  prio,         \* the priority of every element (0 outside the heap)
  result        \* the last call and what it returned

vars == <<arr, cur_len, avail_len, index, prio, result>>

MaxLen == 2 * Cardinality(Elems) + InitLen + 1

Init ==
  /\ arr = [i \in 1..MaxLen |-> Nil]
  /\ cur_len = 0 /\ avail_len = InitLen
  /\ index = [e \in Elems |-> 0]
  /\ prio = [e \in Elems |-> 0]
  /\ result = <<"create", Nil>>

Members == {arr[i] : i \in 1..cur_len}

\* A heap in the making: the array, the stored positions, the length and the
\* priorities, passed from one helper to the next.
State(a, x, n, p) == [a |-> a, x |-> x, n |-> n, p |-> p]

left_node(i) == 2 * i
right_node(i) == 2 * i + 1
parent_node(i) == i \div 2

cmp(h, i, j) == h.p[h.a[i]] - h.p[h.a[j]]

heap_set(h, i, e) == [h EXCEPT !.a[i] = e, !.x[e] = i]

heap_swap(h, i, j) == heap_set(heap_set(h, i, h.a[j]), j, h.a[i])

RECURSIVE max_heapify(_, _)
max_heapify(h, i) ==
  LET l == left_node(i)
      r == right_node(i)
      m == IF l <= h.n /\ cmp(h, l, i) > 0 THEN l ELSE i
      max == IF r <= h.n /\ cmp(h, r, m) > 0 THEN r ELSE m
  IN IF max = i THEN h ELSE max_heapify(heap_swap(h, i, max), max)

\* The heap and the position the element ends at.
RECURSIVE bubble_up(_, _)
bubble_up(h, i) ==
  IF i > 1 /\ cmp(h, parent_node(i), i) < 0
  THEN bubble_up(heap_swap(h, i, parent_node(i)), parent_node(i))
  ELSE <<h, i>>

Become(h) ==
  LET in == {h.a[i] : i \in 1..h.n}
  IN /\ arr' = [i \in 1..MaxLen |-> IF i <= h.n THEN h.a[i] ELSE Nil]
     /\ cur_len' = h.n
     /\ index' = [e \in Elems |-> IF e \in in THEN h.x[e] ELSE 0]
     /\ prio' = [e \in Elems |-> IF e \in in THEN h.p[e] ELSE 0]

\* Variant of ast_heap_push: the array does not grow.
ast_heap_push_NoGrow(e, p) ==
  /\ e \notin Members
  /\ avail_len' = avail_len
  /\ LET h == State(arr, index, cur_len + 1, [prio EXCEPT ![e] = p])
     IN Become(bubble_up(heap_set(h, cur_len + 1, e), cur_len + 1)[1])
  /\ result' = <<"push", Nil>>

\* ast_heap_push: grow_heap doubles the room and adds one.  The client sets
\* the priority before the push.
ast_heap_push(e, p) ==
  /\ e \notin Members
  /\ avail_len' = IF cur_len = avail_len THEN avail_len * 2 + 1 ELSE avail_len
  /\ LET h == State(arr, index, cur_len + 1, [prio EXCEPT ![e] = p])
     IN Become(bubble_up(heap_set(h, cur_len + 1, e), cur_len + 1)[1])
  /\ result' = <<"push", Nil>>

\* grow_heap fails: the array is gone and so is everything in it.
push_no_memory(e) ==
  /\ e \notin Members
  /\ cur_len = avail_len
  /\ avail_len' = 0
  /\ Become(State(arr, index, 0, prio))
  /\ result' = <<"push", Nil>>

\* Variant of remove_index: the moved element only goes down.
remove_index_DownOnly(i, call) ==
  IF i = 0 \/ i > cur_len
  THEN result' = <<call, Nil>> /\ UNCHANGED <<arr, cur_len, index, prio>>
  ELSE LET h == heap_set(State(arr, index, cur_len, prio), i, arr[cur_len])
       IN /\ result' = <<call, arr[i]>>
          /\ Become(max_heapify([h EXCEPT !.n = @ - 1], i))

\* _ast_heap_remove: the last element takes the place of the removed one and
\* then moves up or down.
remove_index(i, call) ==
  IF i = 0 \/ i > cur_len
  THEN result' = <<call, Nil>> /\ UNCHANGED <<arr, cur_len, index, prio>>
  ELSE LET h == heap_set(State(arr, index, cur_len, prio), i, arr[cur_len])
           b == bubble_up([h EXCEPT !.n = @ - 1], i)
       IN /\ result' = <<call, arr[i]>>
          /\ Become(max_heapify(b[1], b[2]))

ast_heap_remove(e) ==
  /\ e \in Members
  /\ remove_index(index[e], "remove")
  /\ UNCHANGED avail_len

ast_heap_pop ==
  /\ remove_index(1, "pop")
  /\ UNCHANGED avail_len

Next ==
  \/ \E e \in Elems, p \in Prios : ast_heap_push(e, p)
  \/ \E e \in Elems : push_no_memory(e) \/ ast_heap_remove(e)
  \/ ast_heap_pop

Spec == Init /\ [][Next]_vars

----------------------------------------------------------------------------
\* In particular the array never overflows its storage.
TypeOK ==
  /\ arr \in [1..MaxLen -> Elems \cup {Nil}]
  /\ avail_len \in Nat /\ cur_len \in 0..avail_len
  /\ index \in [Elems -> 0..MaxLen]
  /\ prio \in [Elems -> Prios \cup {0}]
  /\ result \in {"create", "push", "remove", "pop"} \X (Elems \cup {Nil})

\* Every element of the heap knows where it is, after any sequence of swaps by
\* bubble_up and max_heapify: ast_heap_remove relies on it.  And the heap stays
\* within the room grow_heap allocated, when it is pushed to at its capacity.
IndexIsPosition ==
  /\ cur_len <= avail_len
  /\ \A i \in 1..cur_len : arr[i] # Nil /\ index[arr[i]] = i

\* The heap is what heap.h says: a priority queue.  In particular a remove in
\* the middle leaves a heap (the moved element may have to go up, not only
\* down) and a pop returns the greatest element.
PQ == INSTANCE PriorityQueue WITH elems <- Members
IsPriorityQueue == PQ!Spec
=============================================================================
