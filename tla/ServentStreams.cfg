CONSTANTS
    MaxServents = 3
    MaxPush = 0
    p1 = p1
    p2 = p2
    local = local
    c1 = c1
    c2 = c2
    Peers = {p1}
    PrivatePeers = {}
    Channels = {c1}
    Requests = {"relay", "direct"}
    MaxRelays = 2
    MaxDirect = 1
    MaxRelaysPerChannel = 1
    MaxControl = 1
    MaxServIn = 2
    Admin = {"stop", "port"}
    None = None
SPECIFICATION Spec
INVARIANT LimitsHold
PROPERTIES AbortedEnds RestartListens
