SPECIFICATION Spec
CONSTANTS
    u1 = u1
    d1 = d1
    d2 = d2
    n1 = n1
    n2 = n2
    Users = {u1}
    Devices = {d1, d2}
    Nodes = {n1}
    Owner <- OneOwner
    Addresses = {1, 2}
    None = None
    DeletableUsers = {u1}
    Unreachable = {}
    Crashes = TRUE
    MaxRequests = 1
SYMMETRY Symmetry
CHECK_DEADLOCK FALSE
INVARIANT TypeOK
INVARIANT ReservedWhileInstalled
INVARIANT ActiveOwnerRowsLive
 
PROPERTY DeletionIsDurable
