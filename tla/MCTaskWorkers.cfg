SPECIFICATION FairSpec
CONSTANTS
    urgent = urgent
    ordinary = ordinary
    unknown = unknown
    once = once
    often = often
    Null = Null
    Tasks = {urgent, ordinary, unknown}
    Consumers = {c1, c2}
    Registered = {urgent, ordinary}
    Items = {once, often}
    Repeats = {often}
    Priority <- MCPriority
    MaxAttempts <- MCMaxAttempts
    TaskOf <- MCTaskOf
    MaxSize = 2
    MaxPushes = 2
    MaxStops = 1
INVARIANTS
    TypeOK
    NoLostWakeup
    
PROPERTIES
    
    ExecutionsEnd
