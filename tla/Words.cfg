CONSTANTS
    W = 2
    Base = 4
    Mapped = {1, 2}
    Int3 = 3
    Contents = {0}
    Shared = {3, 4}
    Types <- MCTypes
    Expressions <- MCExpressions
    BreakAddrs <- MCBreakAddrs
    None = None
SPECIFICATION Spec
INVARIANTS TypeOK BytesKept SetThenPrint
CHECK_DEADLOCK FALSE
