CONSTANTS
    Spawners = {p1, p2}
    Closers = {c1}
    Threads = {root, t1, t2}
    RootThread = root
    Paths = {a}
    Names = {n1}
    MaxThreads = 2
    SpawnLimited = TRUE
    MaxResets = 1
    RootPath = slash
    None = None
SPECIFICATION Spec
SYMMETRY Symm
INVARIANTS CountCovers LimitRespected PathReservationExclusive NicknamesDistinct
CHECK_DEADLOCK FALSE
