SPECIFICATION Spec
CONSTANTS
    Users = {1, 2}
    Owners = {2}
    Changing = {2}
    Newcomers = {1}
    Passes = {"r1"}
    Syncs = {"s1"}
    PageSize = 1
    None = None
    MaxChanges = 2
CHECK_DEADLOCK FALSE
INVARIANT TypeOK
INVARIANT BlockedRowsRemoved
INVARIANT ActiveIsProvisioned
INVARIANT LimitedIsBlocked
PROPERTY NoResurrection
PROPERTY StaleOnlyIfShifted
PROPERTY Converges
