--------------------------- MODULE MCDevicePeers ---------------------------
EXTENDS DevicePeers, TLC

CONSTANTS u1, d1, d2, n1, n2

OneOwner == [d \in Devices |-> u1]

\* Devices of one owner and nodes that behave alike are interchangeable.
Symmetry == Permutations(Devices) \cup Permutations(Nodes)
=============================================================================
