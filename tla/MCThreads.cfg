SPECIFICATION EitherSpec
CONSTANTS
    Threads = {t1, t2, t3}
    a = a
    Nodes = {a}
    Snapshots <- OneAddress
    NoNode = NoNode
    MaxConcurrency = 2
    MaxRequests = 1
    Window = 1
    Timeout = 2
    Cooldown = 1
    Callers = {c1, c2, c3}
    Workers = 2
    Starter = starter
    Stopper = stopper
    Nobody = Nobody
INVARIANTS JobsHaveOwners
PROPERTIES EveryCallReturns
