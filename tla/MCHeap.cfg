CONSTANTS
  Elems = {e1, e2, e3, e4, e5, e6, e7}
  Prios = {1, 2, 3}
  InitLen = 1
  Nil = Nil
SYMMETRY Symmetry
SPECIFICATION Spec
INVARIANTS IndexIsPosition
PROPERTIES IsPriorityQueue
