CONSTANTS
    Code <- MCCode
    Entry = 0
    BreakAddrs <- ShortAddrs
    MaxBpId = 1
    MaxStack = 11
    Fp = Fp
    Data = Data
    NoAddr = NoAddr
SPECIFICATION Spec
PROPERTIES NeverUndone
CHECK_DEADLOCK FALSE
