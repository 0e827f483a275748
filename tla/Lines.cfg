CONSTANTS
    Programs <- MCPrograms
    Top = 5
    LineNumbers = {1, 2, 3}
    FallbackRange = 2
    None = None
SPECIFICATION Spec
INVARIANTS TypeOK LookupFindsRow BreakFindsLine BreakInFunction SymbolFound
CHECK_DEADLOCK FALSE
