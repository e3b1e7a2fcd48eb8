CONSTANTS
    MaxServents = 3
    MaxPush = 1
    p1 = p1
    p2 = p2
    local = local
    c1 = c1
    c2 = c2
    Peers = {p1, local}
    PrivatePeers = {local}
    Channels = {c1}
    Requests = {"relay", "push", "other", "pcp"}
    MaxRelays = 1
    MaxDirect = 1
    MaxRelaysPerChannel = 0
    MaxControl = 1
    MaxServIn = 2
    Admin = {"port", "serve"}
    None = None
SPECIFICATION Spec
INVARIANTS
    OneOwner
    StreamingIsCounted
PROPERTIES
    OneThread
