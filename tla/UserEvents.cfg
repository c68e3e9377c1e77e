SPECIFICATION FairSpec
CONSTANTS
    u1 = u1
    s1 = s1
    s2 = s2
    s3 = s3
    Users = {u1}
    Streams = {s1, s2}
    UserOf <- OneUser
    MaxSubscriptions = 1
    MaxWire = 2
CHECK_DEADLOCK FALSE
INVARIANTS OnlyKnownLosses PlacesAreReturned
PROPERTIES ChangeIsAnnounced RevokedStreamEnds StopEndsStreams
