SPECIFICATION Spec
CONSTANTS
    a = a
    b = b
    helper = helper
    Starter = Starter
    None = None
    Tasks = {a, b, helper}
    Children = {helper}
    Parent <- MCParent
    MinSize = 1
    MaxSize = 1
    MaxConns = 2
    MaxDepth = 2
    MaxUses <- MCMaxUses
    Tireless = {}
    MaxWrites = 1
    MaxFaults = 0
CHECK_DEADLOCK FALSE
INVARIANT
    Isolated
