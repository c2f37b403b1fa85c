SPECIFICATION Spec
CONSTANTS
  a = a
  b = b
  c = c
  d = d
  p1 = p1
  p2 = p2
  N = 4
  Tasks = {a, b, c, d}
  Owner = Owner
  Thieves = {p1, p2}
  NoTask = NoTask
  MaxTag = 2
SYMMETRY Symmetry
INVARIANTS Canonical
PROPERTIES ImplementsDeque
