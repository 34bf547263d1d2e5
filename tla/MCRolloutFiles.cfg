CONSTANTS
    Workers = {w1, w2}
    Writers = {a1, a2}
    Creators = {a1}
    Inodes = {n1, n2, n3}
    MaxLines = 1
    NoFile = NoFile
SPECIFICATION FilesSpec
SYMMETRY Symm
INVARIANTS Retained
CHECK_DEADLOCK FALSE
