SPECIFICATION AuditSpec
CONSTANTS
    Pruners = {p1, p2}
    Verifiers = {v1}
    AnchorsKept = 1
    MaxEntries = 3
    MaxPrunes = 2
CHECK_DEADLOCK FALSE
INVARIANT AppendOnly
