SPECIFICATION FairSpec
CONSTANTS
    u1 = u1
    d1 = d1
    d2 = d2
    n1 = n1
    n2 = n2
    Users = {u1}
    Devices = {d1}
    Nodes = {n1}
    Owner <- OneOwner
    Addresses = {1}
    None = None
    DeletableUsers = {}
    Unreachable = {}
    Crashes = TRUE
    MaxRequests = 2
CHECK_DEADLOCK FALSE
PROPERTY DeletedIsReleased
PROPERTY WantedIsServed
PROPERTY BlockedIsRemoved
