SPECIFICATION Spec
CONSTANTS
    Peers = {p1, p2}
    Plain = {p2}
    Slashed = {}
    None = None
    MaxChanges = 2
    MaxFaults = 2
INVARIANT TypeOK
INVARIANT DeletedStaysGone
INVARIANT RestartKeepsPeers
PROPERTY SettingsAreSaved
PROPERTY PeersConverge
