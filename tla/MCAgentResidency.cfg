CONSTANTS
    Actors = {x1, x2}
    Agents = {a1, a2, a3}
    Initial = {a1, a2}
    Capacity = 2
    MaxLoads = 3
    MaxOps = 4
    None = None
SPECIFICATION Spec
SYMMETRY Symm
INVARIANTS CountersExact  
CHECK_DEADLOCK FALSE
