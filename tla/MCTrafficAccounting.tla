------------------------ MODULE MCTrafficAccounting ------------------------
EXTENDS TrafficAccounting, TLC

CONSTANTS a, b, sync, beat, p1, p2, p3

\* Two accounts with a peer each on node a, which a sync job and a heartbeat report
\* about; the second account has a peer on node b too.
MCUserOf == [p \in {p1, p2, p3} |-> IF p = p1 THEN 1 ELSE 2]
MCNodeOf == [p \in {p1, p2, p3} |-> IF p = p3 THEN b ELSE a]
MCMaxBytes == [p \in {p1, p2, p3} |-> IF p = p2 THEN 2 ELSE 0]
MCSource == [c \in {sync, beat} |-> a]
MCMaxDumps == [n \in {a, b} |-> IF n = a THEN 2 ELSE 0]
MCMaxRequests == [u \in {1, 2} |-> u - 1]

\* The two channels are alike.
ChannelSymmetry == Permutations({sync, beat})
=============================================================================
