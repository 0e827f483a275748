CONSTANTS
    t1 = t1  t2 = t2  t3 = t3  t4 = t4
    Tids = {t1, t2, t3}
    NoTid = NoTid
    Births = {"clone"}
    Deaths = {"exited"}
    Breakpoint = TRUE
    Commands = {"run", "continue", "step", "kill"}
    ApplyCommands <- NoCommands
    MaxRuns = 1
    MaxReaps = 8
    CtrlCIn <- InWaits
SPECIFICATION FairSpec
INVARIANTS WaitCanEnd CtrlCHasTarget
PROPERTIES NeverResumedPastInt3 CtrlCStops KillReturns
CHECK_DEADLOCK FALSE
