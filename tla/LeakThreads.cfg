CONSTANTS
    t1 = t1  t2 = t2  s1 = s1  p1 = p1  p2 = p2
    Threads = {t1, t2}
    Main = t1
    Sites = {s1}
    Ptrs = {}
    Null = Null
    Sizes = {0}
    BreakAddrs <- OnHooks
    MaxToggles = 1
    None = None
SPECIFICATION Spec
INVARIANTS HooksArmed HooksWithdrawn
CHECK_DEADLOCK FALSE
