CONSTANTS
    Procs = {leader, child}
    Leader = leader
    MaxResult = 1
    MaxStderr = 1
    Block = 2
    MaxBytes <- MCMaxBytes
    MaxEdits = 0
SPECIFICATION Spec
PROPERTIES
    InvocationReturns
