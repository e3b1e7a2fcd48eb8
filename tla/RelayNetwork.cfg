SPECIFICATION MCSpec
CONSTANTS
    Tracker = 0
    Relays = {1, 2, 3}
    None = none
    Private <- MCPrivate
    HostTTL = 3
    InfoTTL = 2
    PushTTL = 2
    MaxSent = 2
    MaxConns = 1
INVARIANTS CyclesAreUntold NewsOnItsWay PushOnItsWay
PROPERTIES CyclesEnd LoopbackBreaks InfoArrives PushArrives
CHECK_DEADLOCK FALSE
