CONSTANTS
    Code <- MCCode
    Entry = 0
    BreakAddrs <- LongAddrs
    MaxBpId = 2
    MaxStack = 11
    Fp = Fp
    Data = Data
    NoAddr = NoAddr
SPECIFICATION Spec
INVARIANTS TypeOK MemoryIsUsers ArmedWhileRunning
PROPERTIES ExecutesProgram CommandReturns
CHECK_DEADLOCK FALSE
