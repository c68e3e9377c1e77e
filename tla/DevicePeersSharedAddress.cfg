SPECIFICATION Spec
CONSTANTS
    u1 = u1
    d1 = d1
    d2 = d2
    n1 = n1
    n2 = n2
    Users = {u1}
    Devices = {d1, d2}
    Nodes = {n1, n2}
    Owner <- OneOwner
    Addresses = {1}
    None = None
    DeletableUsers = {}
    Unreachable = {}
    Crashes = FALSE
    MaxRequests = 0
SYMMETRY Symmetry
CHECK_DEADLOCK FALSE
INVARIANT OneTunnelPerAddress
