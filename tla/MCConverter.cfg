CONSTANTS
    a = a
    b = b
    Ids = {a, b}
    None = None
    Empty = Empty
    Dialects <- MCDialects
    Reasons = {"length", "tool_calls"}
    MaxLines = 4

SPECIFICATION Spec

CHECK_DEADLOCK FALSE

INVARIANTS
    DeltasFit
    
    OnlyTakenOverStayOpen
    EndsOnce
    UsageReported

PROPERTY WellFormed
