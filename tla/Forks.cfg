CONSTANTS
    t1 = t1  t2 = t2  t3 = t3  t4 = t4
    Tids = {t1, t2, t3, t4}
    NoTid = NoTid
    Births = {"fork"}
    Deaths = {"exited", "signaled", "noexec"}
    Breakpoint = FALSE
    Commands = {"run", "continue", "stepi", "kill", "quit"}
    ApplyCommands <- ApplyMix
    MaxRuns = 2
    MaxReaps = 8
    CtrlCIn <- Never
SYMMETRY Symmetry
SPECIFICATION Spec
INVARIANTS OverMeansGone LeadersAreProcesses
CHECK_DEADLOCK FALSE
