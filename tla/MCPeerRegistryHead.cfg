CONSTANTS
    Addr = {a1, a2, a3}
    NoPeer = NoPeer
    MaxPeers = 2
    Times = {0}
    Versions = {1, 5}
    MaxFlowsPerPacket = 2
    MaxForced = 2
    MaxCount = 1
SPECIFICATION Spec
INVARIANT LruHeadIsLastUpdated
\* The bounds on counters and evictions end every behaviour; the registry
\* itself never blocks.
CHECK_DEADLOCK FALSE
