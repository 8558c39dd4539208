SPECIFICATION FairSpec
CONSTANTS
    Node = {n1, n2}
    Addr = {"x"}
    Opener = {"opencon"}
    Target <- MCTarget
    OneShotAddr = {"x"}
    OneShotOpener = "opencon"
    Caller = {"x"}
    MAX_OUTBOUND_CONNECTIONS = 2
    MaxInbound = 1
    None = None
    Deleted = Deleted
INVARIANT LimitsHold
INVARIANT NodesSafe
INVARIANT SlotsConserved
PROPERTY InboundReclaimed
