CONSTANTS
    Addr = {a1, a2, a3}
    NoPeer = NoPeer
    MaxPeers = 2
    Times = {0, 1}
    Versions = {1, 5}
    MaxFlowsPerPacket = 2
    MaxForced = 2
    MaxCount = 1
SPECIFICATION Spec
INVARIANT FirstSeenBeforeLastValid
\* The bounds on counters and evictions end every behaviour; the registry
\* itself never blocks.
CHECK_DEADLOCK FALSE
