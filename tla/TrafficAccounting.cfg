SPECIFICATION Spec
CONSTANTS
    a = a
    b = b
    sync = sync
    beat = beat
    p1 = p1
    p2 = p2
    p3 = p3
    Users = {1, 2}
    Nodes = {a, b}
    Peers = {p1, p2, p3}
    UserOf <- MCUserOf
    NodeOf <- MCNodeOf
    Late = {p1}
    Channels = {sync, beat}
    Source <- MCSource
    Limit = 3
    Limits = {2}
    All = All
    Ever = Ever
    Unset = Unset
    MaxBytes <- MCMaxBytes
    MaxDumps <- MCMaxDumps
    MaxDay = 1
    MaxRequests <- MCMaxRequests
    Attempts = 2
    Retentions = {0, 1}
SYMMETRY ChannelSymmetry
CHECK_DEADLOCK FALSE
INVARIANT TypeOK
INVARIANT LifetimeIsLedger
INVARIANT ViewsAgree
INVARIANT NoOvercharge
INVARIANT LimitIsEnforced
INVARIANT ReportsWaitInOrder
