CONSTANTS
    a1 = a1
    a2 = a2
    Addr = {a1, a2}
    MaxPeers = 1
    Times = {0}
    Socks = {1, 2}
    Dgrams <- MCDgrams
    MaxQueue = 1
    MaxSent = 0
    MaxSignals = 1
    MaxGen = 1
    MaxCfg = 1
    MaxRestarts = 0
SPECIFICATION Spec
PROPERTY ExitHonoured
\* poll(..., INFTIM) blocks for good when nothing arrives, and an exited
\* daemon stays down once the restart bound is spent.
CHECK_DEADLOCK FALSE
