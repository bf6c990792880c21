CONSTANTS
    Procs = {leader, child}
    Leader = leader
    Limit = 2
    Block = 2
    MaxBytes = 3
SPECIFICATION Spec

    
PROPERTIES
    RunReturns
    KeepsPromise
