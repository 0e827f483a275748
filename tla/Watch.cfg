CONSTANTS
    t1 = t1  t2 = t2  t3 = t3
    Tids = {t1, t2}
    NoTid = NoTid
    Births = {"clone"}
    Deaths = {"exited"}
    Breakpoint = TRUE
    NSlots = 2
    Ranges <- Overlapping
    Bytes = {0, 4}
    MaxId = 2
    NoWatch = NoWatch
SYMMETRY Symmetry
SPECIFICATION Spec
INVARIANTS TypeOK WatchTable RegistersMirrorTable StatusRead
PROPERTIES HitReported
CHECK_DEADLOCK FALSE
