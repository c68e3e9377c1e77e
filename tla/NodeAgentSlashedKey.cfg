SPECIFICATION Spec
CONSTANTS
    Peers = {p1, p2}
    Plain = {p2}
    Slashed = {p1}
    None = None
    MaxChanges = 1
    MaxFaults = 0
PROPERTY DeletedIsDropped
