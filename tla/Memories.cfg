CONSTANTS
    t1 = t1  t2 = t2  t3 = t3  a1 = a1
    Tids = {t1, t2, t3}
    NoTid = NoTid
    Births = {"fork", "clone"}
    Deaths = {"exited", "signaled"}
    Breakpoint = TRUE
    Main = t1
    Addrs = {a1}
    NoAddr = NoAddr
    MaxProcesses = 2
    Commands = {"break", "delete", "continue", "nexti", "next", "thread"}
    Watching = TRUE
SYMMETRY Symmetry
SPECIFICATION Spec
INVARIANTS TypeOK MemoriesMirrorTable
PROPERTIES UserBreakpointsStay
CHECK_DEADLOCK FALSE
