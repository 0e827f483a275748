CONSTANTS
    t1 = t1  t2 = t2  s1 = s1  p1 = p1  p2 = p2
    Threads = {t1}
    Main = t1
    Sites = {s1}
    Ptrs = {p1, p2}
    Null = Null
    Sizes = {0, 1}
    BreakAddrs <- OnCall
    MaxToggles = 1
    None = None
SYMMETRY Symmetry
SPECIFICATION Spec
INVARIANTS TypeOK LedgerExact AccountedInTime
CHECK_DEADLOCK FALSE
