SPECIFICATION FairSpec
CONSTANTS
    a = a
    b = b
    helper = helper
    Starter = Starter
    None = None
    Tasks = {a, b, helper}
    Children = {}
    Parent <- MCParent
    MinSize = 1
    MaxSize = 1
    MaxConns = 2
    MaxDepth = 1
    MaxUses <- MCMaxUses
    Tireless = {a}
    MaxWrites = 1
    MaxFaults = 1
CHECK_DEADLOCK FALSE
PROPERTY
    AcquireEnds
