SPECIFICATION Spec
CONSTANTS
    Nodes = {n1, n2}
    None = None
    MaxRequests = 4
    MaxFaults = 2
INVARIANT TypeOK
INVARIANT LinkIsServed
INVARIANT NoHiddenProcess
PROPERTY DisableTakesEffect
CHECK_DEADLOCK FALSE
