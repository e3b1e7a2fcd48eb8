CONSTANTS
    ch1 = ch1
    ch2 = ch2
    id1 = id1
    id2 = id2
    k1 = k1
    k2 = k2
    Chans = {ch1,ch2}
    IDs = {id1}
    Clients = {k1}
    MaxIdle = 0
    MaxTries = 1
    MaxOps = 1
    None = None
SPECIFICATION Spec
INVARIANT ListedHaveThreads
PROPERTIES StoppedEnds GivesUp IdleLimit WokenSearches
