CONSTANTS
    t1 = t1  t2 = t2  t3 = t3  t4 = t4
    Tids = {t1, t2, t3}
    NoTid = NoTid
    Births = {"clone"}
    Deaths = {"exited"}
    Breakpoint = TRUE
    Commands = {"run", "continue", "stepi", "thread", "lock", "unlock"}
    ApplyCommands <- NoCommands
    MaxRuns = 1
    MaxReaps = 8
    CtrlCIn <- Never
SYMMETRY Symmetry
SPECIFICATION Spec
INVARIANTS TypeOK ThreadTable AttachStopAccounted LockHasFocus
PROPERTIES AttachedNeverResumedPastInt3 HeldStaysHeld
CHECK_DEADLOCK FALSE
