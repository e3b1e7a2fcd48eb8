SPECIFICATION Spec
CONSTANTS
    Nodes = {n1, n2, n3}
    Conns = {p}
    Announcements <- Firewalled
    Leaving <- Leaver
    Tips <- OneTip
    ServerHost = home
    Client = none
    DeadHitAge = 0
    RelayRetry = 1
    TrackerRetry = 1
    AnswerDelay = 1
    PushDelay = 1
    MaxAnswer = 8
    Us = us
    None = none
    wanA = wanA
    wanB = wanB
    wanC = wanC
    lan = lan
    s1 = s1
    s2 = s2
    s3 = s3
    s4 = s4
SYMMETRY NodeSymmetry
INVARIANT TypeOK
INVARIANT NoCycle
