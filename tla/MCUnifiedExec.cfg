SPECIFICATION Spec
CONSTANTS
  e1 = e1
  e2 = e2
  e3 = e3
  p1 = p1
  p2 = p2
  p3 = p3
  w1 = w1
  None = None
  Execs = {e1, e2, e3}
  Ids = {p1, p2, p3}
  Writers = {w1}
  MaxStored = 2
  Protected = 1
  MaxOps = 1
INVARIANTS
  EndOnce
  
  EntryKept
  StoreBounded
SYMMETRY Symmetry
